--------------------------- MODULE InventoryProofs ---------------------------
(***************************************************************************)
(* Stock control is correct for every set of items and requirements, every *)
(* approved quantity and every table size.                                 *)
(*                                                                         *)
(* The argument: what each service does to one row (the row lemmas) and to *)
(* the totals over all rows (the total lemmas), then one inductive         *)
(* invariant, InventoryInv, of which every property is a conjunct.         *)
(* On it rest the refinements: each service is a step of the stock account *)
(* of every item, and of the consumption that billing reads.               *)
(***************************************************************************)
EXTENDS InventoryPages, ArithmeticProofs

-----------------------------------------------------------------------------
(* The strengthening *)

\* A reservation row is blank, or it belongs to an item and a requirement,
\* its columns are sane, and it is open exactly when it still holds stock.
RowOK(row) ==
  \/ row = NoReservation
  \/ /\ row.item \in Items
     /\ row.requirement \in Requirements
     /\ row.status \in {"ACTIVE", "PARTIALLY_ISSUED", "FULFILLED", "RELEASED"}
     /\ row.reserved \in Quantities
     /\ row.issued >= 0
     /\ row.released >= 0
     /\ Remaining(row) >= 0
     /\ IsActive(row) <=> Remaining(row) > 0

RowsWellFormed == \A r \in ReservationIds : RowOK(reservations[r])

\* A movement is blank, or it moves stock of an item; an issue belongs to a
\* reservation of that item, a return to an issue of the same reservation,
\* and nothing else mentions a reservation.
MovementOK(k) ==
  \/ k = NoMovement
  \/ /\ k.item \in Items
     /\ k.quantity \in Quantities \ {0}
     /\ \/ /\ k.kind \in {"RECEIPT", "ADJUSTMENT_IN", "ADJUSTMENT_OUT"}
           /\ k.reservation = 0
        \/ /\ k.kind = "ISSUE"
           /\ k.reservation \in ReservationIds
           /\ reservations[k.reservation] # NoReservation
           /\ reservations[k.reservation].item = k.item
        \/ /\ k.kind = "RETURN"
           /\ k.source \in MovementIds
           /\ ledger[k.source].kind = "ISSUE"
           /\ ledger[k.source].reservation = k.reservation

LedgerWellFormed == \A m \in MovementIds : MovementOK(ledger[m])

\* The tables alone, before any total over them.
WellFormed == TypeOK /\ RowsWellFormed /\ LedgerWellFormed

InventoryInv ==
  /\ WellFormed
  /\ OneActiveReservation
  /\ StockNeverNegative
  /\ CommitmentsCovered
  /\ IssuedMatchesLedger
  /\ ReturnsWithinIssue
  /\ DemandNotExceeded
  /\ DemandStatusInSync

-----------------------------------------------------------------------------
(* Rows *)

\* The blank row counts as well formed and holds nothing.
LEMMA BlankRow ==
  /\ NoReservation \in Reservation
  /\ RowOK(NoReservation)
  /\ ~ IsActive(NoReservation)
  BY DEF NoReservation, Reservation, ReservationStatuses, ActiveStatuses,
         RowOK, IsActive

\* Rewriting a quantity and the status of a row leaves it a row.
LEMMA UpdatedRow ==
  ASSUME NEW row \in Reservation, NEW x \in Int, NEW s \in ReservationStatuses
  PROVE  /\ [row EXCEPT !.issued = x, !.status = s] \in Reservation
         /\ [row EXCEPT !.released = x, !.status = s] \in Reservation
  BY DEF Reservation

\* A new reservation is open and holds all of its quantity.
LEMMA NewRow ==
  ASSUME NEW i \in Items, NEW q \in Requirements, NEW n \in Quantities, n > 0
  PROVE  /\ NewReservation(i, q, n) \in Reservation
         /\ RowOK(NewReservation(i, q, n))
         /\ NewReservation(i, q, n) # NoReservation
         /\ Remaining(NewReservation(i, q, n)) = n
<1> DEFINE row == NewReservation(i, q, n)
<1>0. n \in Int
  BY DEF Quantities
<1>1. row \in Reservation
  BY <1>0 DEF NewReservation, Reservation, ReservationStatuses, ActiveStatuses
<1>2. Remaining(row) = n
  BY <1>0 DEF NewReservation, Remaining
<1>3. IsActive(row)
  BY DEF NewReservation, IsActive, ActiveStatuses
<1>4. RowOK(row)
  BY <1>0, <1>2, <1>3 DEF RowOK, NewReservation, IsActive, ActiveStatuses
<1>5. row # NoReservation
  BY DEF NewReservation, NoReservation
<1>6. QED
  BY <1>1, <1>2, <1>4, <1>5

\* Releasing an open reservation closes it with nothing left.
LEMMA ReleasedRow ==
  ASSUME NEW row \in Reservation, RowOK(row), IsActive(row)
  PROVE  /\ AfterRelease(row) \in Reservation
         /\ RowOK(AfterRelease(row))
         /\ AfterRelease(row) # NoReservation
         /\ AfterRelease(row).item = row.item
         /\ AfterRelease(row).requirement = row.requirement
         /\ AfterRelease(row).issued = row.issued
         /\ Remaining(AfterRelease(row)) = 0
<1> DEFINE new == AfterRelease(row)
<1>1. row # NoReservation
  BY BlankRow
<1>2. /\ row.reserved \in Int /\ row.issued \in Int /\ row.released \in Int
      /\ Remaining(row) \in Int
  BY DEF Reservation, Remaining
<1>3. /\ new.status = "RELEASED" /\ new.item = row.item
      /\ new.requirement = row.requirement /\ new.reserved = row.reserved
      /\ new.issued = row.issued /\ new.released = row.released + Remaining(row)
  BY DEF AfterRelease, Reservation
<1>4. new \in Reservation
  <2>1. "RELEASED" \in ReservationStatuses /\ row.released + Remaining(row) \in Int
    BY <1>2 DEF ReservationStatuses
  <2>2. QED
    BY <2>1, UpdatedRow DEF AfterRelease
<1>5. Remaining(new) = 0
  BY <1>2, <1>3 DEF Remaining
<1>6. ~ IsActive(new)
  BY <1>3 DEF IsActive, ActiveStatuses
<1>7. RowOK(new)
  BY <1>1, <1>2, <1>3, <1>5, <1>6 DEF RowOK
<1>8. new # NoReservation
  BY <1>3 DEF NoReservation
<1>9. QED
  BY <1>3, <1>4, <1>5, <1>7, <1>8

\* Issuing n of an open reservation leaves it holding n less, and closes it
\* when that is nothing.
LEMMA IssuedRow ==
  ASSUME NEW row \in Reservation, RowOK(row), IsActive(row),
         NEW n \in Quantities, n > 0, n <= Remaining(row)
  PROVE  /\ AfterIssue(row, n) \in Reservation
         /\ RowOK(AfterIssue(row, n))
         /\ AfterIssue(row, n) # NoReservation
         /\ AfterIssue(row, n).item = row.item
         /\ AfterIssue(row, n).requirement = row.requirement
         /\ AfterIssue(row, n).issued = row.issued + n
         /\ Remaining(AfterIssue(row, n)) = Remaining(row) - n
<1> DEFINE status == IF Remaining(row) = n THEN "FULFILLED"
                                           ELSE "PARTIALLY_ISSUED"
           new == AfterIssue(row, n)
<1>1. row # NoReservation
  BY BlankRow
<1>2. /\ row.reserved \in Int /\ row.issued \in Int /\ row.released \in Int
      /\ Remaining(row) \in Int /\ n \in Int
  BY DEF Reservation, Remaining, Quantities
<1>3. /\ new.status = status /\ new.item = row.item
      /\ new.requirement = row.requirement /\ new.reserved = row.reserved
      /\ new.issued = row.issued + n /\ new.released = row.released
  BY DEF AfterIssue, Reservation
<1>4. new \in Reservation
  <2>1. status \in ReservationStatuses /\ row.issued + n \in Int
    BY <1>2 DEF ReservationStatuses, ActiveStatuses
  <2>2. QED
    BY <2>1, UpdatedRow DEF AfterIssue
<1>5. Remaining(new) = Remaining(row) - n
  BY <1>2, <1>3 DEF Remaining
<1>6. IsActive(new) <=> Remaining(new) > 0
  BY <1>2, <1>3, <1>5 DEF IsActive, ActiveStatuses
<1>7. RowOK(new)
  <2>1. /\ new.item \in Items /\ new.requirement \in Requirements
        /\ new.reserved \in Quantities /\ new.released >= 0
        /\ new.issued >= 0
    BY <1>1, <1>2, <1>3 DEF RowOK
  <2>2. Remaining(new) >= 0
    BY <1>2, <1>5
  <2>3. new.status \in {"ACTIVE", "PARTIALLY_ISSUED", "FULFILLED", "RELEASED"}
    BY <1>3
  <2>4. QED
    BY <1>6, <2>1, <2>2, <2>3 DEF RowOK
<1>8. new # NoReservation
  BY <1>3 DEF NoReservation
<1>9. QED
  BY <1>3, <1>4, <1>5, <1>7, <1>8

\* Returning n of what a reservation issued reopens it, holding n more.
LEMMA ReturnedRow ==
  ASSUME NEW row \in Reservation, RowOK(row), row # NoReservation,
         NEW n \in Quantities, n > 0, n <= row.issued
  PROVE  /\ AfterReturn(row, n) \in Reservation
         /\ RowOK(AfterReturn(row, n))
         /\ AfterReturn(row, n) # NoReservation
         /\ AfterReturn(row, n).item = row.item
         /\ AfterReturn(row, n).requirement = row.requirement
         /\ AfterReturn(row, n).issued = row.issued - n
         /\ Remaining(AfterReturn(row, n)) = Remaining(row) + n
<1> DEFINE status == IF row.issued = n THEN "ACTIVE" ELSE "PARTIALLY_ISSUED"
           new == AfterReturn(row, n)
<1>2. /\ row.reserved \in Int /\ row.issued \in Int /\ row.released \in Int
      /\ Remaining(row) \in Int /\ n \in Int
  BY DEF Reservation, Remaining, Quantities
<1>3. /\ new.status = status /\ new.item = row.item
      /\ new.requirement = row.requirement /\ new.reserved = row.reserved
      /\ new.issued = row.issued - n /\ new.released = row.released
  BY DEF AfterReturn, Reservation
<1>4. new \in Reservation
  <2>1. status \in ReservationStatuses /\ row.issued - n \in Int
    BY <1>2 DEF ReservationStatuses, ActiveStatuses
  <2>2. QED
    BY <2>1, UpdatedRow DEF AfterReturn
<1>5. Remaining(new) = Remaining(row) + n
  BY <1>2, <1>3 DEF Remaining
<1>6. IsActive(new)
  BY <1>3 DEF IsActive, ActiveStatuses
<1>7. RowOK(new)
  <2>1. /\ new.item \in Items /\ new.requirement \in Requirements
        /\ new.reserved \in Quantities /\ new.released >= 0
        /\ new.issued >= 0
    BY <1>2, <1>3 DEF RowOK
  <2>2. Remaining(new) > 0
    BY <1>2, <1>5 DEF RowOK
  <2>3. new.status \in {"ACTIVE", "PARTIALLY_ISSUED", "FULFILLED", "RELEASED"}
    BY <1>3
  <2>4. QED
    BY <1>2, <1>5, <1>6, <2>1, <2>2, <2>3 DEF RowOK
<1>8. new # NoReservation
  BY <1>3 DEF NoReservation
<1>9. QED
  BY <1>3, <1>4, <1>5, <1>7, <1>8

\* A well-formed row commits what it still holds, open or not.
LEMMA RowHolds ==
  ASSUME NEW row \in Reservation, RowOK(row)
  PROVE  /\ Remaining(row) \in Int
         /\ Remaining(row) >= 0
         /\ \A i \in Items :
              /\ Holds(row, i) = IF row.item = i THEN Remaining(row) ELSE 0
              /\ Holds(row, i) \in Int
              /\ Holds(row, i) >= 0
         /\ \A q \in Requirements :
              /\ HeldTo(row, q) =
                   IF row.requirement = q THEN Remaining(row) ELSE 0
              /\ HeldTo(row, q) \in Int
              /\ HeldTo(row, q) >= 0
              /\ IssuedTo(row, q) \in Int
              /\ IssuedTo(row, q) >= 0
<1>1. /\ row.reserved \in Int /\ row.issued \in Int /\ row.released \in Int
      /\ Remaining(row) \in Int
  BY DEF Reservation, Remaining
<1>2. row.issued >= 0
  BY DEF RowOK, NoReservation
<1>3. Remaining(row) >= 0 /\ (IsActive(row) <=> Remaining(row) > 0)
  <2>1. CASE row = NoReservation
    BY <2>1, BlankRow DEF NoReservation, Remaining
  <2>2. CASE row # NoReservation
    BY <2>2 DEF RowOK
  <2>3. QED
    BY <2>1, <2>2
<1>4. QED
  BY <1>1, <1>2, <1>3 DEF Holds, HeldTo, IssuedTo

-----------------------------------------------------------------------------
(* Totals *)

\* What each row contributes to a total is an integer, and the blank row
\* contributes nothing.
LEMMA MovementContributions ==
  ASSUME NEW k \in Movement
  PROVE  /\ Signed(k) \in Int
         /\ \A i \in Items : Moves(k, i) \in Int /\ WritesOff(k, i) \in Int
         /\ \A r \in ReservationIds : IssuesTo(k, r) \in Int
         /\ \A m \in MovementIds : Reverses(k, m) \in Int
<1>1. k.quantity \in Int
  BY DEF Movement
<1>2. Signed(k) \in Int
  BY <1>1 DEF Signed
<1>3. QED
  BY <1>1, <1>2 DEF Moves, WritesOff, IssuesTo, Reverses

LEMMA BlankMovement ==
  /\ NoMovement \in Movement
  /\ \A i : Moves(NoMovement, i) = 0 /\ WritesOff(NoMovement, i) = 0
  /\ \A r : IssuesTo(NoMovement, r) = 0
  /\ \A m : Reverses(NoMovement, m) = 0
<1>1. NoMovement \in Movement
  BY DEF NoMovement, Movement
<1>2. Signed(NoMovement) = 0
  BY DEF NoMovement, Signed, PositiveTypes, NegativeTypes
<1>3. NoMovement.kind = "ABSENT"
  BY DEF NoMovement
<1>4. \A i : Moves(NoMovement, i) = 0 /\ WritesOff(NoMovement, i) = 0
  BY <1>2, <1>3 DEF Moves, WritesOff
<1>5. \A r : IssuesTo(NoMovement, r) = 0
  <2>1. -Signed(NoMovement) = 0 - Signed(NoMovement)
    BY <1>1, MovementContributions
  <2>2. 0 - Signed(NoMovement) = 0
    BY <1>2
  <2>3. -Signed(NoMovement) = 0
    BY <2>1, <2>2, Zenon
  <2>4. QED
    BY <2>3, Zenon DEF IssuesTo
<1>6. \A m : Reverses(NoMovement, m) = 0
  BY <1>3 DEF Reverses
<1>7. QED
  BY <1>1, <1>4, <1>5, <1>6

\* TableInt and TableChange for the two tables of this module.
LEMMA LedgerTotal ==
  ASSUME NEW f \in [MovementIds -> Int]
  PROVE  Total(f, MaxMovements) \in Int
  BY InventoryAssumption, TableInt DEF MovementIds

LEMMA LedgerChange ==
  ASSUME NEW f \in [MovementIds -> Int], NEW g \in [MovementIds -> Int],
         NEW m \in MovementIds, \A k \in MovementIds : k # m => g[k] = f[k]
  PROVE  Total(g, MaxMovements) = Total(f, MaxMovements) + g[m] - f[m]
<1>1. /\ MaxMovements \in Nat
      /\ f \in [1..MaxMovements -> Int] /\ g \in [1..MaxMovements -> Int]
      /\ m \in 1..MaxMovements /\ \A k \in 1..MaxMovements : k # m => g[k] = f[k]
  BY InventoryAssumption DEF MovementIds
<1>2. QED
  BY <1>1, TableChange, Zenon

LEMMA ReservationTotal ==
  ASSUME NEW f \in [ReservationIds -> Int]
  PROVE  Total(f, MaxReservations) \in Int
  BY InventoryAssumption, TableInt DEF ReservationIds

LEMMA ReservationChange ==
  ASSUME NEW f \in [ReservationIds -> Int], NEW g \in [ReservationIds -> Int],
         NEW r \in ReservationIds,
         \A k \in ReservationIds : k # r => g[k] = f[k]
  PROVE  Total(g, MaxReservations) = Total(f, MaxReservations) + g[r] - f[r]
<1>1. /\ MaxReservations \in Nat
      /\ f \in [1..MaxReservations -> Int] /\ g \in [1..MaxReservations -> Int]
      /\ r \in 1..MaxReservations /\ \A k \in 1..MaxReservations : k # r => g[k] = f[k]
  BY InventoryAssumption DEF ReservationIds
<1>2. QED
  BY <1>1, TableChange, Zenon

LEMMA ReservationBounds ==
  ASSUME NEW f \in [ReservationIds -> Int], \A k \in ReservationIds : f[k] >= 0
  PROVE  \A k \in ReservationIds : f[k] <= Total(f, MaxReservations)
  BY InventoryAssumption, TableBounds DEF ReservationIds

\* The balances over the ledger, as integers.
LEMMA LedgerTotals ==
  ASSUME ledger \in [MovementIds -> Movement]
  PROVE  /\ \A i \in Items : OnHand(i) \in Int /\ WrittenOff(i) \in Int
         /\ \A r \in ReservationIds : NetIssued(r) \in Int
         /\ \A m \in MovementIds : Returned(m) \in Int
<1>1. \A k \in MovementIds : ledger[k] \in Movement
  OBVIOUS
<1>2. ASSUME NEW i \in Items PROVE OnHand(i) \in Int /\ WrittenOff(i) \in Int
  <2>1. /\ [m \in MovementIds |-> Moves(ledger[m], i)] \in [MovementIds -> Int]
        /\ [m \in MovementIds |-> WritesOff(ledger[m], i)] \in [MovementIds -> Int]
    BY <1>1, MovementContributions
  <2>2. QED
    BY <2>1, LedgerTotal DEF OnHand, WrittenOff
<1>3. ASSUME NEW r \in ReservationIds PROVE NetIssued(r) \in Int
  <2>1. [m \in MovementIds |-> IssuesTo(ledger[m], r)] \in [MovementIds -> Int]
    BY <1>1, MovementContributions
  <2>2. QED
    BY <2>1, LedgerTotal DEF NetIssued
<1>4. ASSUME NEW m \in MovementIds PROVE Returned(m) \in Int
  <2>1. [k \in MovementIds |-> Reverses(ledger[k], m)] \in [MovementIds -> Int]
    BY <1>1, MovementContributions
  <2>2. QED
    BY <2>1, LedgerTotal DEF Returned
<1>5. QED
  BY <1>2, <1>3, <1>4

\* A recorded movement adds its own contribution to each balance.
LEMMA RecordedTotals ==
  ASSUME ledger \in [MovementIds -> Movement],
         NEW m \in MovementIds, NEW row \in Movement, Record(m, row)
  PROVE  /\ ledger' \in [MovementIds -> Movement]
         /\ \A i \in Items :
              /\ OnHand(i)' = OnHand(i) + Moves(row, i)
              /\ WrittenOff(i)' = WrittenOff(i) + WritesOff(row, i)
         /\ \A r \in ReservationIds :
              NetIssued(r)' = NetIssued(r) + IssuesTo(row, r)
         /\ \A s \in MovementIds : Returned(s)' = Returned(s) + Reverses(row, s)
<1>1. /\ ledger[m] = NoMovement
      /\ ledger' = [ledger EXCEPT ![m] = row]
  BY DEF Record, NextKey
<1>2. /\ ledger' \in [MovementIds -> Movement]
      /\ ledger'[m] = row
      /\ \A k \in MovementIds : k # m => ledger'[k] = ledger[k]
      /\ \A k \in MovementIds : ledger[k] \in Movement /\ ledger'[k] \in Movement
  BY <1>1
<1>3. ASSUME NEW i \in Items
      PROVE  /\ OnHand(i)' = OnHand(i) + Moves(row, i)
             /\ WrittenOff(i)' = WrittenOff(i) + WritesOff(row, i)
  <2> DEFINE f == [k \in MovementIds |-> Moves(ledger[k], i)]
             g == [k \in MovementIds |-> Moves(ledger'[k], i)]
             u == [k \in MovementIds |-> WritesOff(ledger[k], i)]
             v == [k \in MovementIds |-> WritesOff(ledger'[k], i)]
  <2>1. /\ f \in [MovementIds -> Int] /\ g \in [MovementIds -> Int]
        /\ u \in [MovementIds -> Int] /\ v \in [MovementIds -> Int]
    BY <1>2, MovementContributions
  <2>2. /\ \A k \in MovementIds : k # m => g[k] = f[k] /\ v[k] = u[k]
        /\ f[m] = 0 /\ g[m] = Moves(row, i)
        /\ u[m] = 0 /\ v[m] = WritesOff(row, i)
    BY <1>1, <1>2, BlankMovement
  <2>3. OnHand(i) = Total(f, MaxMovements) /\ OnHand(i)' = Total(g, MaxMovements)
    BY DEF OnHand
  <2>4. /\ WrittenOff(i) = Total(u, MaxMovements)
        /\ WrittenOff(i)' = Total(v, MaxMovements)
    BY DEF WrittenOff
  <2> HIDE DEF f, g, u, v
  <2>5. Total(g, MaxMovements) = Total(f, MaxMovements) + g[m] - f[m]
    BY <2>1, <2>2, LedgerChange
  <2>6. Total(v, MaxMovements) = Total(u, MaxMovements) + v[m] - u[m]
    BY <2>1, <2>2, LedgerChange
  <2>7. /\ Total(f, MaxMovements) \in Int /\ Total(u, MaxMovements) \in Int
        /\ g[m] \in Int /\ v[m] \in Int
    BY <2>1, LedgerTotal
  <2>8. QED
    BY <2>2, <2>3, <2>4, <2>5, <2>6, <2>7
<1>4. ASSUME NEW r \in ReservationIds
      PROVE  NetIssued(r)' = NetIssued(r) + IssuesTo(row, r)
  <2> DEFINE f == [k \in MovementIds |-> IssuesTo(ledger[k], r)]
             g == [k \in MovementIds |-> IssuesTo(ledger'[k], r)]
  <2>1. f \in [MovementIds -> Int] /\ g \in [MovementIds -> Int]
    BY <1>2, MovementContributions
  <2>2. /\ \A k \in MovementIds : k # m => g[k] = f[k]
        /\ f[m] = 0 /\ g[m] = IssuesTo(row, r)
    BY <1>1, <1>2, BlankMovement
  <2>3. /\ NetIssued(r) = Total(f, MaxMovements)
        /\ NetIssued(r)' = Total(g, MaxMovements)
    BY DEF NetIssued
  <2> HIDE DEF f, g
  <2>4. Total(g, MaxMovements) = Total(f, MaxMovements) + g[m] - f[m]
    BY <2>1, <2>2, LedgerChange
  <2>5. Total(f, MaxMovements) \in Int /\ g[m] \in Int
    BY <2>1, LedgerTotal
  <2>6. QED
    BY <2>2, <2>3, <2>4, <2>5
<1>5. ASSUME NEW s \in MovementIds
      PROVE  Returned(s)' = Returned(s) + Reverses(row, s)
  <2> DEFINE f == [k \in MovementIds |-> Reverses(ledger[k], s)]
             g == [k \in MovementIds |-> Reverses(ledger'[k], s)]
  <2>1. f \in [MovementIds -> Int] /\ g \in [MovementIds -> Int]
    BY <1>2, MovementContributions
  <2>2. /\ \A k \in MovementIds : k # m => g[k] = f[k]
        /\ f[m] = 0 /\ g[m] = Reverses(row, s)
    BY <1>1, <1>2, BlankMovement
  <2>3. /\ Returned(s) = Total(f, MaxMovements)
        /\ Returned(s)' = Total(g, MaxMovements)
    BY DEF Returned
  <2> HIDE DEF f, g
  <2>4. Total(g, MaxMovements) = Total(f, MaxMovements) + g[m] - f[m]
    BY <2>1, <2>2, LedgerChange
  <2>5. Total(f, MaxMovements) \in Int /\ g[m] \in Int
    BY <2>1, LedgerTotal
  <2>6. QED
    BY <2>2, <2>3, <2>4, <2>5
<1>6. QED
  BY <1>2, <1>3, <1>4, <1>5

\* No row of the table holds or has issued a negative quantity, so neither do
\* their totals.
LEMMA ReservationTotals ==
  ASSUME reservations \in [ReservationIds -> Reservation], RowsWellFormed
  PROVE  /\ \A i \in Items : Reserved(i) \in Int
         /\ \A i \in Items, r \in ReservationIds :
              Holds(reservations[r], i) <= Reserved(i)
         /\ \A q \in Requirements :
              /\ IssuedFor(reservations, q) \in Int
              /\ HeldFor(reservations, q) \in Int
<1>1. \A r \in ReservationIds :
        reservations[r] \in Reservation /\ RowOK(reservations[r])
  BY DEF RowsWellFormed
<1>2. ASSUME NEW i \in Items
      PROVE  /\ Reserved(i) \in Int
             /\ \A r \in ReservationIds : Holds(reservations[r], i) <= Reserved(i)
  <2> DEFINE f == [r \in ReservationIds |-> Holds(reservations[r], i)]
  <2>1. f \in [ReservationIds -> Int] /\ \A r \in ReservationIds : f[r] >= 0
    BY <1>1, RowHolds
  <2>2. /\ Reserved(i) = Total(f, MaxReservations)
        /\ \A r \in ReservationIds : f[r] = Holds(reservations[r], i)
    BY DEF Reserved
  <2> HIDE DEF f
  <2>3. QED
    BY <2>1, <2>2, ReservationTotal, ReservationBounds
<1>3. ASSUME NEW q \in Requirements
      PROVE  /\ IssuedFor(reservations, q) \in Int
             /\ HeldFor(reservations, q) \in Int
  <2>1. /\ [r \in ReservationIds |-> IssuedTo(reservations[r], q)]
             \in [ReservationIds -> Int]
        /\ [r \in ReservationIds |-> HeldTo(reservations[r], q)]
             \in [ReservationIds -> Int]
    BY <1>1, RowHolds
  <2>2. QED
    BY <2>1, ReservationTotal DEF IssuedFor, HeldFor
<1>4. QED
  BY <1>2, <1>3

\* Replacing one row changes each total by the difference of that row.
LEMMA ReplacedTotals ==
  ASSUME reservations \in [ReservationIds -> Reservation], RowsWellFormed,
         NEW r \in ReservationIds, NEW new \in Reservation, RowOK(new),
         reservations' = [reservations EXCEPT ![r] = new]
  PROVE  /\ reservations' \in [ReservationIds -> Reservation]
         /\ RowsWellFormed'
         /\ \A i \in Items :
              Reserved(i)' =
                Reserved(i) + Holds(new, i) - Holds(reservations[r], i)
         /\ \A q \in Requirements :
              /\ IssuedFor(reservations', q) =
                   IssuedFor(reservations, q) + IssuedTo(new, q)
                     - IssuedTo(reservations[r], q)
              /\ HeldFor(reservations', q) =
                   HeldFor(reservations, q) + HeldTo(new, q)
                     - HeldTo(reservations[r], q)
<1>1. /\ reservations' \in [ReservationIds -> Reservation]
      /\ reservations'[r] = new
      /\ \A s \in ReservationIds : s # r => reservations'[s] = reservations[s]
  OBVIOUS
<1>2. /\ \A s \in ReservationIds :
           reservations[s] \in Reservation /\ RowOK(reservations[s])
      /\ \A s \in ReservationIds :
           reservations'[s] \in Reservation /\ RowOK(reservations'[s])
  BY <1>1 DEF RowsWellFormed
<1>3. RowsWellFormed'
  <2>1. \A s \in ReservationIds : RowOK(reservations[s])'
    BY <1>2 DEF RowOK
  <2>2. QED
    BY <2>1 DEF RowsWellFormed
<1>4. ASSUME NEW i \in Items
      PROVE  Reserved(i)' =
               Reserved(i) + Holds(new, i) - Holds(reservations[r], i)
  <2> DEFINE f == [s \in ReservationIds |-> Holds(reservations[s], i)]
             g == [s \in ReservationIds |-> Holds(reservations'[s], i)]
  <2>1. f \in [ReservationIds -> Int] /\ g \in [ReservationIds -> Int]
    BY <1>2, RowHolds
  <2>2. /\ \A s \in ReservationIds : s # r => g[s] = f[s]
        /\ f[r] = Holds(reservations[r], i) /\ g[r] = Holds(new, i)
    BY <1>1
  <2>3. /\ Reserved(i) = Total(f, MaxReservations)
        /\ Reserved(i)' = Total(g, MaxReservations)
    BY DEF Reserved
  <2> HIDE DEF f, g
  <2>4. QED
    BY <2>1, <2>2, <2>3, ReservationChange
<1>5. ASSUME NEW q \in Requirements
      PROVE  /\ IssuedFor(reservations', q) =
                  IssuedFor(reservations, q) + IssuedTo(new, q)
                    - IssuedTo(reservations[r], q)
             /\ HeldFor(reservations', q) =
                  HeldFor(reservations, q) + HeldTo(new, q)
                    - HeldTo(reservations[r], q)
  <2> DEFINE f == [s \in ReservationIds |-> IssuedTo(reservations[s], q)]
             g == [s \in ReservationIds |-> IssuedTo(reservations'[s], q)]
             u == [s \in ReservationIds |-> HeldTo(reservations[s], q)]
             v == [s \in ReservationIds |-> HeldTo(reservations'[s], q)]
  <2>1. /\ f \in [ReservationIds -> Int] /\ g \in [ReservationIds -> Int]
        /\ u \in [ReservationIds -> Int] /\ v \in [ReservationIds -> Int]
    BY <1>2, RowHolds
  <2>2. /\ \A s \in ReservationIds : s # r => g[s] = f[s] /\ v[s] = u[s]
        /\ f[r] = IssuedTo(reservations[r], q) /\ g[r] = IssuedTo(new, q)
        /\ u[r] = HeldTo(reservations[r], q) /\ v[r] = HeldTo(new, q)
    BY <1>1
  <2>3. /\ IssuedFor(reservations, q) = Total(f, MaxReservations)
        /\ IssuedFor(reservations', q) = Total(g, MaxReservations)
        /\ HeldFor(reservations, q) = Total(u, MaxReservations)
        /\ HeldFor(reservations', q) = Total(v, MaxReservations)
    BY DEF IssuedFor, HeldFor
  <2> HIDE DEF f, g, u, v
  <2>4. Total(g, MaxReservations) = Total(f, MaxReservations) + g[r] - f[r]
    BY <2>1, <2>2, ReservationChange
  <2>5. Total(v, MaxReservations) = Total(u, MaxReservations) + v[r] - u[r]
    BY <2>1, <2>2, ReservationChange
  <2>6. QED
    BY <2>2, <2>3, <2>4, <2>5
<1>6. QED
  BY <1>1, <1>3, <1>4, <1>5

-----------------------------------------------------------------------------
(* Movements *)

\* Every reservation row in use stays in use, for the same item.
RowsKept ==
  \A s \in ReservationIds :
    reservations[s] # NoReservation =>
      /\ reservations'[s] # NoReservation
      /\ reservations'[s].item = reservations[s].item

\* The ledger stays well formed when nothing is recorded ...
LEMMA LedgerKept ==
  ASSUME LedgerWellFormed, RowsKept, ledger' = ledger
  PROVE  LedgerWellFormed'
<1> SUFFICES ASSUME NEW m \in MovementIds PROVE MovementOK(ledger[m])'
  BY DEF LedgerWellFormed
<1>1. MovementOK(ledger[m])
  BY DEF LedgerWellFormed
<1>2. QED
  BY <1>1 DEF MovementOK, RowsKept

\* ... and when a well-formed movement is recorded.
LEMMA LedgerAppended ==
  ASSUME LedgerWellFormed, RowsKept, ledger \in [MovementIds -> Movement],
         NEW m \in MovementIds, NEW row \in Movement, Record(m, row),
         MovementOK(row)'
  PROVE  LedgerWellFormed'
<1>1. /\ ledger[m] = NoMovement
      /\ ledger' = [ledger EXCEPT ![m] = row]
  BY DEF Record, NextKey
<1>2. /\ ledger'[m] = row
      /\ \A k \in MovementIds : k # m => ledger'[k] = ledger[k]
  BY <1>1
<1> SUFFICES ASSUME NEW k \in MovementIds PROVE MovementOK(ledger[k])'
  BY DEF LedgerWellFormed
<1>3. CASE k = m
  <2>1. ledger'[k] = row
    BY <1>2, <1>3
  <2>2. QED
    BY <2>1 DEF MovementOK
<1>4. CASE k # m
  <2>1. ledger'[k] = ledger[k] /\ MovementOK(ledger[k])
    BY <1>2, <1>4 DEF LedgerWellFormed
  <2>2. \A s \in MovementIds : ledger[s].kind = "ISSUE" => ledger'[s] = ledger[s]
    BY <1>1, <1>2 DEF NoMovement
  <2>3. QED
    BY <2>1, <2>2 DEF MovementOK, RowsKept
<1>5. QED
  BY <1>3, <1>4

\* A ledger row that does not exist yet has not been returned.
LEMMA NothingReturned ==
  ASSUME WellFormed, NEW m \in MovementIds, ledger[m] = NoMovement
  PROVE  Returned(m) = 0
<1> DEFINE f == [k \in MovementIds |-> Reverses(ledger[k], m)]
<1>1. ledger \in [MovementIds -> Movement]
  BY DEF WellFormed, TypeOK
<1>2. \A k \in MovementIds : Reverses(ledger[k], m) = 0
  <2> SUFFICES ASSUME NEW k \in MovementIds, Reverses(ledger[k], m) # 0
               PROVE  FALSE
    OBVIOUS
  <2>1. ledger[k].kind = "RETURN" /\ ledger[k].source = m
    BY DEF Reverses
  <2>2. MovementOK(ledger[k]) /\ ledger[k] # NoMovement
    BY <2>1 DEF WellFormed, LedgerWellFormed, NoMovement
  <2>3. ledger[m].kind = "ISSUE"
    BY <2>1, <2>2 DEF MovementOK
  <2>4. QED
    BY <2>3 DEF NoMovement
<1>3. MaxMovements \in Nat /\ f \in [1..MaxMovements -> Int]
      /\ \A k \in 1..MaxMovements : f[k] = 0
  BY <1>2, InventoryAssumption DEF MovementIds
<1>4. Returned(m) = Total(f, MaxMovements)
  BY DEF Returned
<1> HIDE DEF f
<1>5. QED
  BY <1>3, <1>4, TableZero, Zenon

\* What has been written off an item is never negative.
LEMMA WrittenOffNat ==
  ASSUME ledger \in [MovementIds -> Movement], LedgerWellFormed, NEW i \in Items
  PROVE  WrittenOff(i) >= 0
<1> DEFINE f == [m \in MovementIds |-> WritesOff(ledger[m], i)]
<1>1. \A m \in MovementIds : f[m] \in Int /\ f[m] >= 0
  <2> SUFFICES ASSUME NEW m \in MovementIds
               PROVE  WritesOff(ledger[m], i) \in Nat
    OBVIOUS
  <2>1. CASE ledger[m] = NoMovement
    BY <2>1, BlankMovement
  <2>2. CASE ledger[m] # NoMovement
    <3>1. ledger[m].quantity \in Nat
      BY <2>2, InventoryAssumption
         DEF LedgerWellFormed, MovementOK, Quantities
    <3>2. QED
      BY <3>1 DEF WritesOff
  <2>3. QED
    BY <2>1, <2>2
<1>2. /\ MaxMovements \in Nat /\ f \in [1..MaxMovements -> Int]
      /\ \A k \in 1..MaxMovements : f[k] >= 0
  BY <1>1, InventoryAssumption DEF MovementIds
<1>3. WrittenOff(i) = Total(f, MaxMovements)
  BY DEF WrittenOff
<1> HIDE DEF f
<1>4. QED
  BY <1>2, <1>3, TableBounds

\* The row of a receipt or an adjustment is a well-formed movement.
LEMMA NewMovementOK ==
  ASSUME NEW kind \in {"RECEIPT", "ADJUSTMENT_IN", "ADJUSTMENT_OUT"},
         NEW i \in Items, NEW n \in Quantities, n > 0
  PROVE  /\ NewMovement(kind, i, n, 0, 0) \in Movement
         /\ MovementOK(NewMovement(kind, i, n, 0, 0))'
<1>1. n \in Int /\ n \in Quantities \ {0}
  BY DEF Quantities
<1>2. NewMovement(kind, i, n, 0, 0) \in Movement
  BY <1>1 DEF NewMovement, Movement, PositiveTypes, NegativeTypes
<1>3. QED
  BY <1>1, <1>2 DEF NewMovement, MovementOK

\* Receipts and adjustments: only the ledger grows.
LEMMA BookedInv ==
  ASSUME InventoryInv,
         NEW kind \in {"RECEIPT", "ADJUSTMENT_IN", "ADJUSTMENT_OUT"},
         NEW i \in Items, NEW n \in Quantities, NEW m \in MovementIds,
         n > 0, Adjustable(i, kind, n),
         Record(m, NewMovement(kind, i, n, 0, 0)),
         UNCHANGED <<locations, items, productActive, orderStatus,
                     reservations, demandStatus>>
  PROVE  InventoryInv'
<1> DEFINE row == NewMovement(kind, i, n, 0, 0)
<1>1. /\ ledger \in [MovementIds -> Movement]
      /\ reservations \in [ReservationIds -> Reservation]
      /\ RowsWellFormed /\ LedgerWellFormed
  BY DEF InventoryInv, WellFormed, TypeOK
<1>2. row \in Movement /\ MovementOK(row)' /\ n \in Int
  BY NewMovementOK DEF Quantities
<1>3. /\ row.kind = kind /\ row.item = i /\ row.quantity = n
      /\ row.reservation = 0
  BY DEF NewMovement
<1>4. /\ \A j \in Items :
           /\ Moves(row, j) = IF j = i THEN IF kind = "ADJUSTMENT_OUT" THEN 0 - n
                                                                      ELSE n
                                       ELSE 0
           /\ WritesOff(row, j) = IF j = i /\ kind = "ADJUSTMENT_OUT" THEN n ELSE 0
      /\ \A s \in MovementIds : Reverses(row, s) = 0
      /\ \A r \in ReservationIds : IssuesTo(row, r) = 0
  BY <1>2, <1>3, InventoryAssumption
     DEF Moves, WritesOff, Reverses, IssuesTo, Signed, PositiveTypes,
         NegativeTypes, ReservationIds
<1> HIDE DEF row
<1>5. Record(m, row)
  BY DEF row
<1>6. /\ ledger' \in [MovementIds -> Movement]
      /\ \A j \in Items : /\ OnHand(j)' = OnHand(j) + Moves(row, j)
                          /\ WrittenOff(j)' = WrittenOff(j) + WritesOff(row, j)
      /\ \A r \in ReservationIds :
           NetIssued(r)' = NetIssued(r) + IssuesTo(row, r)
      /\ \A s \in MovementIds : Returned(s)' = Returned(s) + Reverses(row, s)
  BY <1>1, <1>2, <1>5, RecordedTotals
<1>7. /\ \A j \in Items : OnHand(j) \in Int /\ WrittenOff(j) \in Int
      /\ \A r \in ReservationIds : NetIssued(r) \in Int
      /\ \A s \in MovementIds : Returned(s) \in Int
      /\ \A j \in Items : Reserved(j) \in Int
  BY <1>1, LedgerTotals, ReservationTotals
<1>8. WellFormed'
  <2>1. TypeOK'
    BY <1>6 DEF InventoryInv, WellFormed, TypeOK
  <2>2. RowsWellFormed'
    BY <1>1 DEF RowsWellFormed, RowOK
  <2>3. RowsKept
    BY DEF RowsKept
  <2>4. LedgerWellFormed'
    BY <1>1, <1>2, <1>5, <2>3, LedgerAppended
  <2>5. QED
    BY <2>1, <2>2, <2>4 DEF WellFormed
<1>9. StockNeverNegative'
  BY <1>2, <1>4, <1>6, <1>7 DEF InventoryInv, StockNeverNegative, Adjustable
<1>10. CommitmentsCovered'
  <2>1. \A j \in Items : Reserved(j)' = Reserved(j)
    BY DEF Reserved
  <2>2. QED
    BY <1>2, <1>4, <1>6, <1>7, <2>1 DEF InventoryInv, CommitmentsCovered
<1>11. IssuedMatchesLedger'
  BY <1>4, <1>6, <1>7 DEF InventoryInv, IssuedMatchesLedger
<1>12. ReturnsWithinIssue'
  <2> SUFFICES ASSUME NEW s \in MovementIds, ledger'[s].kind = "ISSUE"
               PROVE  Returned(s)' <= ledger'[s].quantity
    BY DEF ReturnsWithinIssue
  <2>1. ledger'[s] = ledger[s]
    BY <1>1, <1>3, <1>5 DEF Record
  <2>2. Returned(s)' = Returned(s)
    BY <1>4, <1>6, <1>7
  <2>3. QED
    BY <2>1, <2>2 DEF InventoryInv, ReturnsWithinIssue
<1>13. OneActiveReservation' /\ DemandNotExceeded' /\ DemandStatusInSync'
  BY DEF InventoryInv, OneActiveReservation, DemandNotExceeded,
         DemandStatusInSync, ExpectedStatus
<1>14. QED
  BY <1>8, <1>9, <1>10, <1>11, <1>12, <1>13 DEF InventoryInv

-----------------------------------------------------------------------------
(* Reservations *)

\* Replacing row r by one of the same requirement and synchronising that
\* requirement leaves every stored status in step with the rows.
LEMMA DemandSynced ==
  ASSUME WellFormed, DemandStatusInSync,
         NEW r \in ReservationIds, NEW new \in Reservation, RowOK(new),
         NEW q \in Requirements, new.requirement = q,
         reservations[r] = NoReservation \/ reservations[r].requirement = q,
         reservations' = [reservations EXCEPT ![r] = new],
         SyncRequirement(q), orderStatus' = orderStatus
  PROVE  DemandStatusInSync' /\ demandStatus' \in [Requirements -> DemandStatuses]
<1>1. /\ reservations \in [ReservationIds -> Reservation] /\ RowsWellFormed
      /\ demandStatus \in [Requirements -> DemandStatuses]
  BY DEF WellFormed, TypeOK
<1>2. ExpectedStatus(reservations', q) \in DemandStatuses
  BY DEF ExpectedStatus, DemandStatuses
<1>3. demandStatus' = [demandStatus EXCEPT ![q] = ExpectedStatus(reservations', q)]
  BY DEF SyncRequirement
<1>4. ASSUME NEW p \in Requirements, p # q
      PROVE  ExpectedStatus(reservations', p) = ExpectedStatus(reservations, p)
  <2>1. /\ HeldTo(new, p) = 0 /\ IssuedTo(new, p) = 0
        /\ HeldTo(reservations[r], p) = 0 /\ IssuedTo(reservations[r], p) = 0
    BY <1>4, InventoryAssumption
       DEF HeldTo, IssuedTo, NoReservation, IsActive, ActiveStatuses
  <2>2. /\ IssuedFor(reservations, p) \in Int
        /\ HeldFor(reservations, p) \in Int
    BY <1>1, ReservationTotals
  <2>3. /\ IssuedFor(reservations', p) =
             IssuedFor(reservations, p) + IssuedTo(new, p)
               - IssuedTo(reservations[r], p)
        /\ HeldFor(reservations', p) =
             HeldFor(reservations, p) + HeldTo(new, p) - HeldTo(reservations[r], p)
    BY <1>1, ReplacedTotals
  <2>4. /\ IssuedFor(reservations', p) = IssuedFor(reservations, p)
        /\ HeldFor(reservations', p) = HeldFor(reservations, p)
    BY <2>1, <2>2, <2>3
  <2>5. QED
    BY <2>4 DEF ExpectedStatus
<1>5. ASSUME NEW p \in Requirements
      PROVE  demandStatus'[p] = ExpectedStatus(reservations', p)
  <2>1. CASE p = q
    BY <1>1, <1>3, <2>1
  <2>2. CASE p # q
    BY <1>1, <1>3, <1>4, <2>2 DEF DemandStatusInSync
  <2>3. QED
    BY <2>1, <2>2
<1>6. \A p \in Requirements :
        ExpectedStatus(reservations', p) = ExpectedStatus(reservations, p)'
  BY DEF ExpectedStatus
<1>7. QED
  BY <1>1, <1>2, <1>3, <1>5, <1>6 DEF DemandStatusInSync

\* Opening row r where no other open row stands for the same item and
\* requirement, or closing it, keeps open rows unique.
LEMMA StillOneActive ==
  ASSUME OneActiveReservation, reservations \in [ReservationIds -> Reservation],
         NEW r \in ReservationIds, NEW new,
         IsActive(new) => ~ AnotherActive(new.item, new.requirement, r),
         reservations' = [reservations EXCEPT ![r] = new]
  PROVE  OneActiveReservation'
<1>1. /\ reservations'[r] = new
      /\ \A s \in ReservationIds : s # r => reservations'[s] = reservations[s]
  OBVIOUS
<1>2. ASSUME NEW s \in ReservationIds, s # r, IsActive(new),
             IsActive(reservations[s]), reservations[s].item = new.item,
             reservations[s].requirement = new.requirement
      PROVE  FALSE
  BY <1>2 DEF AnotherActive
<1>3. ASSUME NEW s \in ReservationIds, NEW t \in ReservationIds,
             IsActive(reservations'[s]), IsActive(reservations'[t]),
             reservations'[s].item = reservations'[t].item,
             reservations'[s].requirement = reservations'[t].requirement
      PROVE  s = t
  <2>1. CASE s # r /\ t # r
    BY <1>1, <1>3, <2>1 DEF OneActiveReservation
  <2>2. CASE s = r \/ t = r
    BY <1>1, <1>2, <1>3, <2>2
  <2>3. QED
    BY <2>1, <2>2
<1>4. QED
  BY <1>3 DEF OneActiveReservation, IsActive

\* A step that touches neither a reservation nor the ledger nor a requirement status,
\* and cancels no order, keeps the invariant.
LEMMA UnrelatedInv ==
  ASSUME InventoryInv, TypeOK',
         UNCHANGED <<reservations, ledger, demandStatus>>,
         \A o \in Orders :
           orderStatus'[o] = "CANCELLED" <=> orderStatus[o] = "CANCELLED"
  PROVE  InventoryInv'
<1>1. WellFormed'
  BY DEF InventoryInv, WellFormed, RowsWellFormed, RowOK, LedgerWellFormed,
         MovementOK
<1>2. OneActiveReservation' /\ IssuedMatchesLedger'
  BY DEF InventoryInv, OneActiveReservation, IssuedMatchesLedger, NetIssued
<1>3. StockNeverNegative' /\ CommitmentsCovered'
  BY DEF InventoryInv, StockNeverNegative, CommitmentsCovered, OnHand, Reserved,
         WrittenOff
<1>4. ReturnsWithinIssue' /\ DemandNotExceeded'
  BY DEF InventoryInv, ReturnsWithinIssue, DemandNotExceeded, Returned
<1>5. DemandStatusInSync'
  <2>1. \A q \in Requirements :
          ExpectedStatus(reservations, q)' = ExpectedStatus(reservations, q)
    BY InventoryAssumption DEF ExpectedStatus
  <2>2. QED
    BY <2>1 DEF InventoryInv, DemandStatusInSync
<1>6. QED
  BY <1>1, <1>2, <1>3, <1>4, <1>5 DEF InventoryInv

\* A requirement's stock: reserving takes it from what is still approved.
LEMMA ReserveInv ==
  ASSUME InventoryInv, NEW i \in Items, NEW q \in Requirements,
         NEW n \in Quantities, NEW r \in ReservationIds, ReserveStock(i, q, n, r)
  PROVE  InventoryInv'
<1> DEFINE new == NewReservation(i, q, n)
<1>1. /\ reservations \in [ReservationIds -> Reservation]
      /\ ledger \in [MovementIds -> Movement]
      /\ RowsWellFormed /\ LedgerWellFormed /\ WellFormed
  BY DEF InventoryInv, WellFormed, TypeOK
<1>2. /\ n > 0 /\ n \in Int
      /\ ~ AnotherActive(i, q, r)
      /\ n <= RemainingDemand(q) /\ n <= Available(i)
      /\ reservations[r] = NoReservation
      /\ reservations' = [reservations EXCEPT ![r] = new]
      /\ SyncRequirement(q)
      /\ UNCHANGED <<locations, items, productActive, orderStatus, ledger>>
  BY DEF ReserveStock, NextKey, Quantities
<1>3. /\ new \in Reservation /\ RowOK(new) /\ new # NoReservation
      /\ Remaining(new) = n
  BY <1>2, NewRow
<1>4. new.item = i /\ new.requirement = q /\ new.issued = 0
  BY DEF NewReservation
<1> HIDE DEF new
<1>5. /\ \A j \in Items : /\ Holds(new, j) = IF j = i THEN n ELSE 0
                          /\ Holds(NoReservation, j) = 0
      /\ \A p \in Requirements :
           /\ HeldTo(new, p) = IF p = q THEN n ELSE 0
           /\ HeldTo(NoReservation, p) = 0
           /\ IssuedTo(new, p) = 0 /\ IssuedTo(NoReservation, p) = 0
  <2>1. NoReservation.issued = 0 /\ ~ IsActive(NoReservation)
    BY BlankRow DEF NoReservation
  <2>2. QED
    BY <1>3, <1>4, <2>1, RowHolds DEF Holds, HeldTo, IssuedTo
<1>6. /\ reservations' \in [ReservationIds -> Reservation]
      /\ RowsWellFormed'
      /\ \A j \in Items :
           Reserved(j)' = Reserved(j) + Holds(new, j) - Holds(NoReservation, j)
      /\ \A p \in Requirements :
           /\ IssuedFor(reservations', p) =
                IssuedFor(reservations, p) + IssuedTo(new, p)
                  - IssuedTo(NoReservation, p)
           /\ HeldFor(reservations', p) =
                HeldFor(reservations, p) + HeldTo(new, p)
                  - HeldTo(NoReservation, p)
  BY <1>1, <1>2, <1>3, ReplacedTotals
<1>7. /\ \A j \in Items : /\ OnHand(j) \in Int /\ WrittenOff(j) \in Int
                          /\ Reserved(j) \in Int
                          /\ OnHand(j)' = OnHand(j)
                          /\ WrittenOff(j)' = WrittenOff(j)
      /\ \A p \in Requirements :
           IssuedFor(reservations, p) \in Int /\ HeldFor(reservations, p) \in Int
  BY <1>1, <1>2, LedgerTotals, ReservationTotals DEF OnHand, WrittenOff
<1>8. DemandStatusInSync' /\ demandStatus' \in [Requirements -> DemandStatuses]
  BY <1>1, <1>2, <1>3, <1>4, DemandSynced DEF InventoryInv
<1>9. WellFormed'
  <2>1. TypeOK'
    BY <1>2, <1>6, <1>8 DEF InventoryInv, WellFormed, TypeOK
  <2>2. RowsKept
    BY <1>1, <1>2 DEF RowsKept
  <2>3. LedgerWellFormed'
    BY <1>1, <1>2, <2>2, LedgerKept
  <2>4. QED
    BY <1>6, <2>1, <2>3 DEF WellFormed
<1>10. OneActiveReservation'
  BY <1>1, <1>2, <1>4, StillOneActive DEF InventoryInv
<1>11. StockNeverNegative'
  BY <1>7 DEF InventoryInv, StockNeverNegative
<1>12. CommitmentsCovered'
  <2> SUFFICES ASSUME NEW j \in Items
               PROVE  Reserved(j)' <= OnHand(j)' + WrittenOff(j)'
    BY DEF CommitmentsCovered
  <2>1. WrittenOff(j) >= 0
    BY <1>1, WrittenOffNat
  <2>2. Reserved(j) <= OnHand(j) + WrittenOff(j)
    BY DEF InventoryInv, CommitmentsCovered
  <2>3. Reserved(j)' = Reserved(j) + (IF j = i THEN n ELSE 0)
    BY <1>2, <1>5, <1>6, <1>7
  <2>4. QED
    BY <1>2, <1>7, <2>1, <2>2, <2>3 DEF Available
<1>13. IssuedMatchesLedger'
  <2>1. \A s \in ReservationIds : NetIssued(s)' = NetIssued(s)
    BY <1>2 DEF NetIssued
  <2>2. NoReservation.issued = 0
    BY DEF NoReservation
  <2>3. QED
    BY <1>1, <1>2, <1>4, <2>1, <2>2 DEF InventoryInv, IssuedMatchesLedger
<1>14. ReturnsWithinIssue'
  BY <1>2 DEF InventoryInv, ReturnsWithinIssue, Returned
<1>15. DemandNotExceeded'
  <2> SUFFICES ASSUME NEW p \in Requirements
               PROVE  IssuedFor(reservations', p) + HeldFor(reservations', p)
                        <= Approved[p]
    BY DEF DemandNotExceeded
  <2>1. Approved[p] \in Int
    BY InventoryAssumption
  <2>2. /\ IssuedFor(reservations', p) = IssuedFor(reservations, p) + 0 - 0
        /\ HeldFor(reservations', p) =
             HeldFor(reservations, p) + (IF p = q THEN n ELSE 0) - 0
    BY <1>5, <1>6
  <2>3. CASE p = q
    BY <1>2, <1>7, <2>1, <2>2, <2>3 DEF RemainingDemand
  <2>4. CASE p # q
    BY <1>7, <2>1, <2>2, <2>4 DEF InventoryInv, DemandNotExceeded
  <2>5. QED
    BY <2>3, <2>4
<1>16. QED
  BY <1>8, <1>9, <1>10, <1>11, <1>12, <1>13, <1>14, <1>15 DEF InventoryInv

\* Releasing gives back what an open reservation still held.
LEMMA ReleaseInv ==
  ASSUME InventoryInv, NEW r \in ReservationIds, ReleaseStockReservation(r)
  PROVE  InventoryInv'
<1> DEFINE row == reservations[r]
           new == AfterRelease(row)
           q   == row.requirement
<1>1. /\ reservations \in [ReservationIds -> Reservation]
      /\ ledger \in [MovementIds -> Movement]
      /\ RowsWellFormed /\ LedgerWellFormed /\ WellFormed
      /\ row \in Reservation /\ RowOK(row)
  BY DEF InventoryInv, WellFormed, TypeOK, RowsWellFormed
<1>2. /\ IsActive(row) /\ Remaining(row) > 0
      /\ reservations' = [reservations EXCEPT ![r] = new]
      /\ SyncRequirement(q)
      /\ UNCHANGED <<locations, items, productActive, orderStatus, ledger>>
  BY DEF ReleaseStockReservation
<1>3. /\ new \in Reservation /\ RowOK(new) /\ new # NoReservation
      /\ new.item = row.item /\ new.requirement = q /\ new.issued = row.issued
      /\ Remaining(new) = 0
  BY <1>1, <1>2, ReleasedRow
<1>4. q \in Requirements /\ Remaining(row) \in Int /\ row.issued \in Int
  BY <1>1, <1>2, BlankRow, RowHolds DEF RowOK, Reservation
<1> HIDE DEF new, row, q
<1>5. /\ \A j \in Items : /\ Holds(new, j) = 0
                          /\ Holds(row, j) \in Int /\ Holds(row, j) >= 0
      /\ \A p \in Requirements :
           /\ HeldTo(new, p) = 0
           /\ HeldTo(row, p) \in Int /\ HeldTo(row, p) >= 0
           /\ IssuedTo(new, p) = IssuedTo(row, p)
           /\ IssuedTo(row, p) \in Int
  BY <1>1, <1>3, RowHolds DEF IssuedTo, q
<1>6. /\ reservations' \in [ReservationIds -> Reservation]
      /\ RowsWellFormed'
      /\ \A j \in Items :
           Reserved(j)' = Reserved(j) + Holds(new, j) - Holds(row, j)
      /\ \A p \in Requirements :
           /\ IssuedFor(reservations', p) =
                IssuedFor(reservations, p) + IssuedTo(new, p) - IssuedTo(row, p)
           /\ HeldFor(reservations', p) =
                HeldFor(reservations, p) + HeldTo(new, p) - HeldTo(row, p)
  BY <1>1, <1>2, <1>3, ReplacedTotals DEF row
<1>7. /\ \A j \in Items : /\ OnHand(j) \in Int /\ WrittenOff(j) \in Int
                          /\ Reserved(j) \in Int
                          /\ OnHand(j)' = OnHand(j)
                          /\ WrittenOff(j)' = WrittenOff(j)
      /\ \A p \in Requirements :
           IssuedFor(reservations, p) \in Int /\ HeldFor(reservations, p) \in Int
  BY <1>1, <1>2, LedgerTotals, ReservationTotals DEF OnHand, WrittenOff
<1>8. DemandStatusInSync' /\ demandStatus' \in [Requirements -> DemandStatuses]
  <2>1. reservations[r].requirement = q
    BY DEF row, q
  <2>2. QED
    BY <1>1, <1>2, <1>3, <1>4, <2>1, DemandSynced DEF InventoryInv
<1>9. WellFormed'
  <2>1. TypeOK'
    BY <1>2, <1>6, <1>8 DEF InventoryInv, WellFormed, TypeOK
  <2>2. RowsKept
    BY <1>1, <1>2, <1>3 DEF RowsKept, row
  <2>3. LedgerWellFormed'
    BY <1>1, <1>2, <2>2, LedgerKept
  <2>4. QED
    BY <1>6, <2>1, <2>3 DEF WellFormed
<1>10. OneActiveReservation'
  <2>1. ~ IsActive(new)
    BY <1>3, BlankRow DEF RowOK
  <2>2. QED
    BY <1>1, <1>2, <2>1, StillOneActive DEF InventoryInv
<1>11. StockNeverNegative'
  BY <1>7 DEF InventoryInv, StockNeverNegative
<1>12. CommitmentsCovered'
  BY <1>5, <1>6, <1>7 DEF InventoryInv, CommitmentsCovered
<1>13. IssuedMatchesLedger'
  <2>1. \A s \in ReservationIds : NetIssued(s)' = NetIssued(s)
    BY <1>2 DEF NetIssued
  <2>2. QED
    BY <1>1, <1>2, <1>3, <2>1 DEF InventoryInv, IssuedMatchesLedger, row
<1>14. ReturnsWithinIssue'
  BY <1>2 DEF InventoryInv, ReturnsWithinIssue, Returned
<1>15. DemandNotExceeded'
  <2> SUFFICES ASSUME NEW p \in Requirements
               PROVE  IssuedFor(reservations', p) + HeldFor(reservations', p)
                        <= Approved[p]
    BY DEF DemandNotExceeded
  <2>1. Approved[p] \in Int
    BY InventoryAssumption
  <2>2. IssuedFor(reservations, p) + HeldFor(reservations, p) <= Approved[p]
    BY DEF InventoryInv, DemandNotExceeded
  <2>3. QED
    BY <1>5, <1>6, <1>7, <2>1, <2>2
<1>16. QED
  BY <1>8, <1>9, <1>10, <1>11, <1>12, <1>13, <1>14, <1>15 DEF InventoryInv

\* Issues and returns are one exchange seen from two sides: d is what leaves
\* the shelf for the workshop (negative for a return), and it moves in the
\* same step from held to issued and out of the ledger's balance.
LEMMA ExchangeInv ==
  ASSUME InventoryInv, NEW r \in ReservationIds, NEW m \in MovementIds,
         NEW move \in Movement, NEW new \in Reservation, NEW d \in Int,
         reservations[r] # NoReservation,
         RowOK(new), new # NoReservation,
         new.item = reservations[r].item,
         new.requirement = reservations[r].requirement,
         new.issued = reservations[r].issued + d,
         Remaining(new) = Remaining(reservations[r]) - d,
         IsActive(new) => ~ AnotherActive(new.item, new.requirement, r),
         move.item = reservations[r].item, move.reservation = r,
         Signed(move) = 0 - d, move.kind # "ADJUSTMENT_OUT",
         MovementOK(move)',
         d <= OnHand(reservations[r].item),
         Record(m, move),
         reservations' = [reservations EXCEPT ![r] = new],
         SyncRequirement(reservations[r].requirement),
         UNCHANGED <<locations, items, productActive, orderStatus>>,
         ReturnsWithinIssue'
  PROVE  InventoryInv'
<1> DEFINE row == reservations[r]
           i   == row.item
           q   == row.requirement
<1>1. /\ reservations \in [ReservationIds -> Reservation]
      /\ ledger \in [MovementIds -> Movement]
      /\ RowsWellFormed /\ LedgerWellFormed /\ WellFormed
      /\ row \in Reservation /\ RowOK(row)
  BY DEF InventoryInv, WellFormed, TypeOK, RowsWellFormed
<1>2. /\ i \in Items /\ q \in Requirements
      /\ Remaining(row) \in Int /\ row.issued \in Int
  BY <1>1, RowHolds DEF RowOK, Reservation
<1>3. /\ new.item = i /\ new.requirement = q /\ new.issued = row.issued + d
      /\ Remaining(new) = Remaining(row) - d
      /\ reservations[r].requirement = q
      /\ move.item = i
  OBVIOUS
<1> HIDE DEF row, i, q
<1>4. /\ \A j \in Items :
           /\ Holds(new, j) = IF j = i THEN Remaining(row) - d ELSE 0
           /\ Holds(row, j) = IF j = i THEN Remaining(row) ELSE 0
      /\ \A p \in Requirements :
           /\ HeldTo(new, p) = IF p = q THEN Remaining(row) - d ELSE 0
           /\ HeldTo(row, p) = IF p = q THEN Remaining(row) ELSE 0
           /\ IssuedTo(new, p) = IF p = q THEN row.issued + d ELSE 0
           /\ IssuedTo(row, p) = IF p = q THEN row.issued ELSE 0
  <2>1. \A j \in Items :
           /\ Holds(new, j) = IF new.item = j THEN Remaining(new) ELSE 0
           /\ Holds(row, j) = IF row.item = j THEN Remaining(row) ELSE 0
    BY <1>1, RowHolds
  <2>2. \A p \in Requirements :
           /\ HeldTo(new, p) = IF new.requirement = p THEN Remaining(new) ELSE 0
           /\ HeldTo(row, p) = IF row.requirement = p THEN Remaining(row) ELSE 0
    BY <1>1, RowHolds
  <2>3. row.item = i /\ row.requirement = q
    BY DEF i, q
  <2>4. QED
    BY <1>3, <2>1, <2>2, <2>3 DEF IssuedTo
<1>5. /\ reservations' \in [ReservationIds -> Reservation]
      /\ RowsWellFormed'
      /\ \A j \in Items :
           Reserved(j)' = Reserved(j) + Holds(new, j) - Holds(row, j)
      /\ \A p \in Requirements :
           /\ IssuedFor(reservations', p) =
                IssuedFor(reservations, p) + IssuedTo(new, p) - IssuedTo(row, p)
           /\ HeldFor(reservations', p) =
                HeldFor(reservations, p) + HeldTo(new, p) - HeldTo(row, p)
  BY <1>1, ReplacedTotals DEF row
<1>6. /\ ledger' \in [MovementIds -> Movement]
      /\ \A j \in Items : /\ OnHand(j)' = OnHand(j) + Moves(move, j)
                          /\ WrittenOff(j)' = WrittenOff(j) + WritesOff(move, j)
      /\ \A s \in ReservationIds :
           NetIssued(s)' = NetIssued(s) + IssuesTo(move, s)
  BY <1>1, RecordedTotals
<1>7. /\ \A j \in Items : OnHand(j) \in Int /\ WrittenOff(j) \in Int
                          /\ Reserved(j) \in Int
      /\ \A p \in Requirements :
           IssuedFor(reservations, p) \in Int /\ HeldFor(reservations, p) \in Int
      /\ \A s \in ReservationIds : NetIssued(s) \in Int
  BY <1>1, LedgerTotals, ReservationTotals
<1>8. /\ \A j \in Items : /\ Moves(move, j) = IF j = i THEN 0 - d ELSE 0
                          /\ WritesOff(move, j) = 0
      /\ \A s \in ReservationIds : IssuesTo(move, s) = IF s = r THEN d ELSE 0
  <2>1. -Signed(move) = 0 - Signed(move)
    BY MovementContributions
  <2>2. -Signed(move) = d
    BY <2>1
  <2>3. QED
    BY <1>3, <2>2 DEF Moves, WritesOff, IssuesTo
<1>9. DemandStatusInSync' /\ demandStatus' \in [Requirements -> DemandStatuses]
  <2>1. SyncRequirement(q)
    BY DEF row, q
  <2>2. QED
    BY <1>1, <1>2, <1>3, <2>1, DemandSynced DEF InventoryInv
<1>10. WellFormed'
  <2>1. TypeOK'
    BY <1>5, <1>6, <1>9 DEF InventoryInv, WellFormed, TypeOK
  <2>2. RowsKept
    BY <1>1 DEF RowsKept
  <2>3. LedgerWellFormed'
    BY <1>1, <2>2, LedgerAppended
  <2>4. QED
    BY <1>5, <2>1, <2>3 DEF WellFormed
<1>11. OneActiveReservation'
  BY <1>1, StillOneActive DEF InventoryInv
<1>12. StockNeverNegative'
  <2> SUFFICES ASSUME NEW j \in Items PROVE OnHand(j)' >= 0
    BY DEF StockNeverNegative
  <2>1. d <= OnHand(i)
    BY DEF row, i
  <2>2. OnHand(j) >= 0
    BY DEF InventoryInv, StockNeverNegative
  <2>3. QED
    BY <1>2, <1>6, <1>7, <1>8, <2>1, <2>2
<1>13. CommitmentsCovered'
  <2> SUFFICES ASSUME NEW j \in Items
               PROVE  Reserved(j)' <= OnHand(j)' + WrittenOff(j)'
    BY DEF CommitmentsCovered
  <2>1. Reserved(j) <= OnHand(j) + WrittenOff(j)
    BY DEF InventoryInv, CommitmentsCovered
  <2>2. Reserved(j)' = Reserved(j) - (IF j = i THEN d ELSE 0)
    BY <1>2, <1>4, <1>5, <1>7
  <2>3. OnHand(j)' = OnHand(j) - (IF j = i THEN d ELSE 0)
    BY <1>6, <1>7, <1>8
  <2>4. WrittenOff(j)' = WrittenOff(j)
    BY <1>6, <1>7, <1>8
  <2>5. QED
    BY <1>7, <2>1, <2>2, <2>3, <2>4
<1>14. IssuedMatchesLedger'
  <2> SUFFICES ASSUME NEW s \in ReservationIds
               PROVE  reservations'[s].issued = NetIssued(s)'
    BY DEF IssuedMatchesLedger
  <2>1. reservations[s].issued = NetIssued(s)
    BY DEF InventoryInv, IssuedMatchesLedger
  <2>2. CASE s = r
    BY <1>1, <1>3, <1>6, <1>7, <1>8, <2>1, <2>2 DEF row
  <2>3. CASE s # r
    BY <1>1, <1>6, <1>7, <1>8, <2>1, <2>3
  <2>4. QED
    BY <2>2, <2>3
<1>15. DemandNotExceeded'
  <2> SUFFICES ASSUME NEW p \in Requirements
               PROVE  IssuedFor(reservations', p) + HeldFor(reservations', p)
                        <= Approved[p]
    BY DEF DemandNotExceeded
  <2>1. Approved[p] \in Int
    BY InventoryAssumption
  <2>2. IssuedFor(reservations, p) + HeldFor(reservations, p) <= Approved[p]
    BY DEF InventoryInv, DemandNotExceeded
  <2>3. /\ IssuedFor(reservations', p) =
             IssuedFor(reservations, p) + IssuedTo(new, p) - IssuedTo(row, p)
        /\ HeldFor(reservations', p) =
             HeldFor(reservations, p) + HeldTo(new, p) - HeldTo(row, p)
    BY <1>5
  <2>4. IssuedFor(reservations, p) \in Int /\ HeldFor(reservations, p) \in Int
    BY <1>7
  <2>5. CASE p = q
    <3>1. /\ HeldTo(new, p) = Remaining(row) - d /\ HeldTo(row, p) = Remaining(row)
          /\ IssuedTo(new, p) = row.issued + d /\ IssuedTo(row, p) = row.issued
      BY <1>4, <2>5
    <3>2. QED
      BY <1>2, <2>1, <2>2, <2>3, <2>4, <3>1
  <2>6. CASE p # q
    <3>1. /\ HeldTo(new, p) = 0 /\ HeldTo(row, p) = 0
          /\ IssuedTo(new, p) = 0 /\ IssuedTo(row, p) = 0
      BY <1>4, <2>6
    <3>2. QED
      BY <2>1, <2>2, <2>3, <2>4, <3>1
  <2>7. QED
    BY <2>5, <2>6
<1>16. QED
  BY <1>9, <1>10, <1>11, <1>12, <1>13, <1>14, <1>15 DEF InventoryInv

\* Issuing draws on what an open reservation holds.
LEMMA IssueInv ==
  ASSUME InventoryInv, NEW r \in ReservationIds, NEW n \in Quantities,
         NEW m \in MovementIds, IssueReservedStock(r, n, m)
  PROVE  InventoryInv'
<1> DEFINE row == reservations[r]
<1>a. PICK new : new = AfterIssue(row, n)
  OBVIOUS
<1>b. PICK move : move = NewMovement("ISSUE", row.item, n, r, 0)
  OBVIOUS
<1>1. /\ ledger \in [MovementIds -> Movement]
      /\ reservations \in [ReservationIds -> Reservation]
      /\ WellFormed /\ row \in Reservation /\ RowOK(row)
  BY DEF InventoryInv, WellFormed, TypeOK, RowsWellFormed
<1>2. /\ n > 0 /\ IsActive(row) /\ n <= Remaining(row) /\ n <= OnHand(row.item)
      /\ Record(m, move)
      /\ reservations' = [reservations EXCEPT ![r] = new]
      /\ SyncRequirement(row.requirement)
      /\ UNCHANGED <<locations, items, productActive, orderStatus>>
  BY <1>a, <1>b DEF IssueReservedStock
<1>3. row # NoReservation /\ row.item \in Items
  BY <1>1, <1>2, BlankRow DEF RowOK
<1>4. /\ new \in Reservation /\ RowOK(new) /\ new # NoReservation
      /\ new.item = row.item /\ new.requirement = row.requirement
      /\ new.issued = row.issued + n
      /\ Remaining(new) = Remaining(row) - n
  BY <1>1, <1>2, <1>a, IssuedRow
<1>5. n \in Int /\ n \in Quantities \ {0}
  BY <1>2 DEF Quantities
<1>6. /\ move \in Movement
      /\ move.kind = "ISSUE" /\ move.item = row.item /\ move.quantity = n
      /\ move.reservation = r
  BY <1>3, <1>5, <1>b DEF NewMovement, Movement, NegativeTypes
<1>7. Signed(move) = 0 - n
  BY <1>5, <1>6 DEF Signed, PositiveTypes, NegativeTypes
<1>8. MovementOK(move)'
  <2>1. reservations'[move.reservation] = new
    BY <1>1, <1>2, <1>6
  <2>2. QED
    BY <1>3, <1>4, <1>5, <1>6, <2>1 DEF MovementOK
<1>9. ~ AnotherActive(new.item, new.requirement, r)
  BY <1>2, <1>4 DEF InventoryInv, OneActiveReservation, AnotherActive
<1>10. ReturnsWithinIssue'
  <2>1. /\ ledger[m] = NoMovement
        /\ ledger' = [ledger EXCEPT ![m] = move]
    BY <1>2 DEF Record, NextKey
  <2>2. \A s \in MovementIds : /\ Returned(s)' = Returned(s) + Reverses(move, s)
                               /\ Returned(s) \in Int
    BY <1>1, <1>2, <1>6, RecordedTotals, LedgerTotals
  <2>3. \A s \in MovementIds : Reverses(move, s) = 0
    BY <1>6 DEF Reverses
  <2>4. \A s \in MovementIds : Returned(s)' = Returned(s)
    BY <2>2, <2>3
  <2> SUFFICES ASSUME NEW s \in MovementIds, ledger'[s].kind = "ISSUE"
               PROVE  Returned(s)' <= ledger'[s].quantity
    BY DEF ReturnsWithinIssue
  <2>5. CASE s = m
    <3>1. Returned(m) = 0
      BY <1>1, <2>1, NothingReturned
    <3>2. ledger'[m].quantity = n
      BY <1>1, <1>6, <2>1
    <3>3. QED
      BY <1>2, <1>5, <2>4, <2>5, <3>1, <3>2
  <2>6. CASE s # m
    BY <1>1, <2>1, <2>4, <2>6 DEF InventoryInv, ReturnsWithinIssue
  <2>7. QED
    BY <2>5, <2>6
<1>11. /\ InventoryInv /\ r \in ReservationIds /\ m \in MovementIds
       /\ move \in Movement /\ new \in Reservation /\ n \in Int
       /\ reservations[r] # NoReservation
       /\ RowOK(new) /\ new # NoReservation
       /\ new.item = reservations[r].item
       /\ new.requirement = reservations[r].requirement
       /\ new.issued = reservations[r].issued + n
       /\ Remaining(new) = Remaining(reservations[r]) - n
       /\ IsActive(new) => ~ AnotherActive(new.item, new.requirement, r)
       /\ move.item = reservations[r].item /\ move.reservation = r
       /\ Signed(move) = 0 - n /\ move.kind # "ADJUSTMENT_OUT"
       /\ MovementOK(move)'
       /\ n <= OnHand(reservations[r].item)
       /\ Record(m, move)
       /\ reservations' = [reservations EXCEPT ![r] = new]
       /\ SyncRequirement(reservations[r].requirement)
       /\ UNCHANGED <<locations, items, productActive, orderStatus>>
       /\ ReturnsWithinIssue'
  BY <1>1, <1>2, <1>3, <1>4, <1>5, <1>6, <1>7, <1>8, <1>9, <1>10
<1> HIDE DEF row
<1>12. QED
  BY <1>11, ExchangeInv

\* Returning reopens the reservation the issue drew on.
LEMMA ReturnInv ==
  ASSUME InventoryInv, NEW s \in MovementIds, NEW n \in Quantities,
         NEW m \in MovementIds, ReturnIssuedStock(s, n, m)
  PROVE  InventoryInv'
<1>a. PICK r : r = ledger[s].reservation
  OBVIOUS
<1> DEFINE row == reservations[r]
           d   == 0 - n
<1>b. PICK new : new = AfterReturn(row, n)
  OBVIOUS
<1>c. PICK move : move = NewMovement("RETURN", row.item, n, r, s)
  OBVIOUS
<1>1. /\ ledger \in [MovementIds -> Movement]
      /\ reservations \in [ReservationIds -> Reservation]
      /\ WellFormed /\ RowsWellFormed /\ LedgerWellFormed
  BY DEF InventoryInv, WellFormed, TypeOK
<1>2. /\ n > 0 /\ ledger[s].kind = "ISSUE"
      /\ n <= Returnable(s) /\ n <= row.issued
      /\ ~ AnotherActive(row.item, row.requirement, r)
      /\ Record(m, move)
      /\ reservations' = [reservations EXCEPT ![r] = new]
      /\ SyncRequirement(row.requirement)
      /\ UNCHANGED <<locations, items, productActive, orderStatus>>
  BY <1>a, <1>b, <1>c DEF ReturnIssuedStock
<1>3. /\ r \in ReservationIds /\ row # NoReservation
      /\ row \in Reservation /\ RowOK(row) /\ row.item \in Items
  <2>1. MovementOK(ledger[s]) /\ ledger[s] # NoMovement
    BY <1>1, <1>2 DEF LedgerWellFormed, NoMovement
  <2>2. r \in ReservationIds /\ row # NoReservation
    BY <1>2, <1>a, <2>1 DEF MovementOK
  <2>3. QED
    BY <1>1, <2>2 DEF RowsWellFormed, RowOK
<1>4. n \in Int /\ n \in Quantities \ {0} /\ d \in Int
  BY <1>2 DEF Quantities
<1>5. /\ new \in Reservation /\ RowOK(new) /\ new # NoReservation
      /\ new.item = row.item /\ new.requirement = row.requirement
      /\ new.issued = row.issued + d
      /\ Remaining(new) = Remaining(row) - d
  <2>1. /\ new \in Reservation /\ RowOK(new) /\ new # NoReservation
        /\ new.item = row.item /\ new.requirement = row.requirement
        /\ new.issued = row.issued - n
        /\ Remaining(new) = Remaining(row) + n
    BY <1>2, <1>3, <1>b, ReturnedRow
  <2>2. row.issued \in Int /\ Remaining(row) \in Int
    BY <1>3, RowHolds DEF Reservation
  <2>3. QED
    BY <1>4, <2>1, <2>2
<1>6. /\ move \in Movement
      /\ move.kind = "RETURN" /\ move.item = row.item /\ move.quantity = n
      /\ move.reservation = r /\ move.source = s
  BY <1>3, <1>4, <1>c DEF NewMovement, Movement, PositiveTypes
<1>7. Signed(move) = 0 - d
  <2>1. Signed(move) = n
    BY <1>4, <1>6 DEF Signed, PositiveTypes, NegativeTypes
  <2>2. 0 - d = n
    BY <1>4
  <2>3. QED
    BY <2>1, <2>2
<1>8. /\ ledger[m] = NoMovement
      /\ ledger' = [ledger EXCEPT ![m] = move]
  BY <1>2 DEF Record, NextKey
<1>9. s # m /\ ledger'[s] = ledger[s]
  BY <1>1, <1>2, <1>8 DEF NoMovement
<1>10. MovementOK(move)'
  <2>1. /\ ledger'[move.source].kind = "ISSUE"
        /\ ledger'[move.source].reservation = move.reservation
    BY <1>2, <1>6, <1>9, <1>a
  <2>2. QED
    BY <1>3, <1>4, <1>6, <2>1 DEF MovementOK
<1>11. d <= OnHand(row.item)
  <2>1. OnHand(row.item) \in Int /\ OnHand(row.item) >= 0
    BY <1>1, <1>3, LedgerTotals DEF InventoryInv, StockNeverNegative
  <2>2. QED
    BY <1>2, <1>4, <2>1
<1>12. ReturnsWithinIssue'
  <2>1. \A t \in MovementIds : /\ Returned(t)' = Returned(t) + Reverses(move, t)
                               /\ Returned(t) \in Int
    BY <1>1, <1>2, <1>6, RecordedTotals, LedgerTotals
  <2>2. \A t \in MovementIds : Reverses(move, t) = IF t = s THEN n ELSE 0
    BY <1>6 DEF Reverses
  <2> SUFFICES ASSUME NEW t \in MovementIds, ledger'[t].kind = "ISSUE"
               PROVE  Returned(t)' <= ledger'[t].quantity
    BY DEF ReturnsWithinIssue
  <2>3. CASE t = s
    <3>1. ledger[s].quantity \in Int
      BY <1>1 DEF Movement
    <3>2. QED
      BY <1>2, <1>4, <1>9, <2>1, <2>2, <2>3, <3>1 DEF Returnable
  <2>4. CASE t # s
    <3>1. t # m
      BY <1>1, <1>6, <1>8
    <3>2. Returned(t)' = Returned(t)
      BY <2>1, <2>2, <2>4
    <3>3. QED
      BY <1>1, <1>8, <3>1, <3>2 DEF InventoryInv, ReturnsWithinIssue
  <2>5. QED
    BY <2>3, <2>4
<1>13. move.kind # "ADJUSTMENT_OUT"
  BY <1>6
<1> HIDE DEF d
<1>14. /\ InventoryInv /\ r \in ReservationIds /\ m \in MovementIds
       /\ move \in Movement /\ new \in Reservation /\ d \in Int
       /\ reservations[r] # NoReservation
       /\ RowOK(new) /\ new # NoReservation
       /\ new.item = reservations[r].item
       /\ new.requirement = reservations[r].requirement
       /\ new.issued = reservations[r].issued + d
       /\ Remaining(new) = Remaining(reservations[r]) - d
       /\ IsActive(new) => ~ AnotherActive(new.item, new.requirement, r)
       /\ move.item = reservations[r].item /\ move.reservation = r
       /\ Signed(move) = 0 - d /\ move.kind # "ADJUSTMENT_OUT"
       /\ MovementOK(move)'
       /\ d <= OnHand(reservations[r].item)
       /\ Record(m, move)
       /\ reservations' = [reservations EXCEPT ![r] = new]
       /\ SyncRequirement(reservations[r].requirement)
       /\ UNCHANGED <<locations, items, productActive, orderStatus>>
       /\ ReturnsWithinIssue'
  BY <1>1, <1>2, <1>3, <1>4, <1>5, <1>6, <1>7, <1>10, <1>11, <1>12, <1>13
<1> HIDE DEF row
<1>15. QED
  BY <1>14, ExchangeInv

-----------------------------------------------------------------------------
(* The theorems *)

\* Nothing has happened yet: every balance is zero.
LEMMA InventoryInit ==
  ASSUME Init
  PROVE  /\ InventoryInv
         /\ \A i \in Items : OnHand(i) = 0 /\ Reserved(i) = 0
<1>1. /\ \A r \in ReservationIds : reservations[r] = NoReservation
      /\ \A m \in MovementIds : ledger[m] = NoMovement
      /\ reservations \in [ReservationIds -> Reservation]
      /\ ledger \in [MovementIds -> Movement]
  BY BlankRow, BlankMovement DEF Init
<1>2. ASSUME NEW f \in [MovementIds -> Int], \A k \in MovementIds : f[k] = 0
      PROVE  Total(f, MaxMovements) = 0
  BY <1>2, InventoryAssumption, TableZero DEF MovementIds
<1>3. ASSUME NEW f \in [ReservationIds -> Int], \A k \in ReservationIds : f[k] = 0
      PROVE  Total(f, MaxReservations) = 0
  BY <1>3, InventoryAssumption, TableZero DEF ReservationIds
<1>4. /\ \A i \in Items : OnHand(i) = 0 /\ WrittenOff(i) = 0
      /\ \A r \in ReservationIds : NetIssued(r) = 0
  <2>1. ASSUME NEW i \in Items PROVE OnHand(i) = 0 /\ WrittenOff(i) = 0
    <3>1. \A k \in MovementIds :
            Moves(ledger[k], i) = 0 /\ WritesOff(ledger[k], i) = 0
      BY <1>1, BlankMovement
    <3>2. QED
      BY <1>2, <3>1 DEF OnHand, WrittenOff
  <2>2. ASSUME NEW r \in ReservationIds PROVE NetIssued(r) = 0
    <3>1. \A k \in MovementIds : IssuesTo(ledger[k], r) = 0
      BY <1>1, BlankMovement
    <3>2. QED
      BY <1>2, <3>1 DEF NetIssued
  <2>3. QED
    BY <2>1, <2>2
<1>5. ASSUME NEW i \in Items PROVE Reserved(i) = 0
  <2>1. \A r \in ReservationIds : Holds(reservations[r], i) = 0
    BY <1>1, BlankRow DEF Holds
  <2>2. QED
    BY <1>3, <2>1 DEF Reserved
<1>6. ASSUME NEW q \in Requirements
      PROVE  IssuedFor(reservations, q) = 0 /\ HeldFor(reservations, q) = 0
  <2>1. \A r \in ReservationIds : /\ IssuedTo(reservations[r], q) = 0
                                  /\ HeldTo(reservations[r], q) = 0
    BY <1>1, BlankRow DEF IssuedTo, HeldTo, NoReservation
  <2>2. QED
    BY <1>3, <2>1 DEF IssuedFor, HeldFor
<1>7. WellFormed
  <2>1. TypeOK
    BY <1>1, InventoryAssumption
       DEF Init, TypeOK, OrderStatuses, DemandStatuses
  <2>2. RowsWellFormed /\ LedgerWellFormed
    BY <1>1 DEF RowsWellFormed, RowOK, LedgerWellFormed, MovementOK
  <2>3. QED
    BY <2>1, <2>2 DEF WellFormed
<1>8. OneActiveReservation
  BY <1>1, BlankRow DEF OneActiveReservation
<1>9. StockNeverNegative /\ CommitmentsCovered
  BY <1>4, <1>5 DEF StockNeverNegative, CommitmentsCovered
<1>10. IssuedMatchesLedger
  BY <1>1, <1>4 DEF IssuedMatchesLedger, NoReservation
<1>11. ReturnsWithinIssue
  BY <1>1 DEF ReturnsWithinIssue, NoMovement
<1>12. DemandNotExceeded /\ DemandStatusInSync
  <2> SUFFICES ASSUME NEW q \in Requirements
               PROVE  /\ IssuedFor(reservations, q) + HeldFor(reservations, q)
                           <= Approved[q]
                      /\ demandStatus[q] = ExpectedStatus(reservations, q)
    BY DEF DemandNotExceeded, DemandStatusInSync
  <2>1. Approved[q] \in Nat \ {0} /\ OrderOf[q] \in Orders
    BY InventoryAssumption
  <2>2. orderStatus[OrderOf[q]] = "PLANNED" /\ demandStatus[q] = "NOT_RESERVED"
    BY <2>1 DEF Init
  <2>3. QED
    BY <1>6, <2>1, <2>2 DEF ExpectedStatus
<1>13. QED
  BY <1>4, <1>5, <1>7, <1>8, <1>9, <1>10, <1>11, <1>12 DEF InventoryInv

\* Every service, and every step of the neighbouring applications, keeps the
\* invariant.
LEMMA InventoryStep ==
  ASSUME InventoryInv, [Next]_inventoryVars
  PROVE  InventoryInv'
<1>1. TypeOK
  BY DEF InventoryInv, WellFormed
<1>2. CASE UNCHANGED inventoryVars
  <2>1. TypeOK'
    BY <1>1, <1>2 DEF inventoryVars, TypeOK
  <2>2. QED
    BY <1>2, <2>1, UnrelatedInv DEF inventoryVars
<1>3. ASSUME NEW l \in Locations, CreateStockLocation(l) PROVE InventoryInv'
  <2>1. TypeOK'
    BY <1>1, <1>3 DEF CreateStockLocation, TypeOK
  <2>2. QED
    BY <1>3, <2>1, UnrelatedInv DEF CreateStockLocation
<1>4. ASSUME NEW i \in Items, CreateInventoryItem(i) PROVE InventoryInv'
  <2>1. TypeOK'
    BY <1>1, <1>4 DEF CreateInventoryItem, TypeOK
  <2>2. QED
    BY <1>4, <2>1, UnrelatedInv DEF CreateInventoryItem
<1>5. ASSUME NEW i \in Items, NEW n \in Quantities, NEW m \in MovementIds,
             ReceiveStock(i, n, m)
      PROVE  InventoryInv'
  BY <1>5, BookedInv DEF ReceiveStock, Adjustable
<1>6. ASSUME NEW i \in Items, NEW kind \in {"ADJUSTMENT_IN", "ADJUSTMENT_OUT"},
             NEW n \in Quantities, NEW m \in MovementIds,
             AdjustStock(i, kind, n, m)
      PROVE  InventoryInv'
  BY <1>6, BookedInv DEF AdjustStock
<1>7. ASSUME NEW o \in Orders, WorkOrderMoves(o) PROVE InventoryInv'
  <2>1. TypeOK'
    BY <1>1, <1>7 DEF WorkOrderMoves, OrderMoves, OrderStatuses, TypeOK
  <2>2. \A w \in Orders : /\ orderStatus'[w] = "CANCELLED"
                             <=> orderStatus[w] = "CANCELLED"
    BY <1>1, <1>7 DEF WorkOrderMoves, OrderMoves, TypeOK
  <2>3. QED
    BY <1>7, <2>1, <2>2, UnrelatedInv DEF WorkOrderMoves
<1>8. ASSUME NEW p \in Products, ProductToggled(p) PROVE InventoryInv'
  <2>1. TypeOK'
    BY <1>1, <1>8 DEF ProductToggled, TypeOK
  <2>2. QED
    BY <1>8, <2>1, UnrelatedInv DEF ProductToggled
<1>9. QED
  BY <1>2, <1>3, <1>4, <1>5, <1>6, <1>7, <1>8, ReserveInv, ReleaseInv, IssueInv,
     ReturnInv DEF Next

\* InventoryInv is inductive.
THEOREM InventoryInvariant == Spec => []InventoryInv
<1>1. Init => InventoryInv
  BY InventoryInit
<1>2. InventoryInv /\ [Next]_inventoryVars => InventoryInv'
  BY InventoryStep
<1>3. QED
  BY <1>1, <1>2, PTL DEF Spec

\* Every table holds well-formed rows and every status column one of its
\* choices, whatever the services do.
THEOREM InventoryTyped == Spec => []TypeOK
<1>1. InventoryInv => TypeOK
  BY DEF InventoryInv, WellFormed
<1>2. QED
  BY <1>1, InventoryInvariant, PTL

\* The movement ledger never adds up to a negative balance.
THEOREM ShelfNeverNegative == Spec => []StockNeverNegative
<1>1. InventoryInv => StockNeverNegative
  BY DEF InventoryInv
<1>2. QED
  BY <1>1, InventoryInvariant, PTL

\* Stock promised to workshop demand is on the shelf, but for what stock
\* counts have written off.
THEOREM PromisesCovered == Spec => []CommitmentsCovered
<1>1. InventoryInv => CommitmentsCovered
  BY DEF InventoryInv
<1>2. QED
  BY <1>1, InventoryInvariant, PTL

\* The issued column of a reservation and the ledger never disagree.
THEOREM LedgerExplainsReservations == Spec => []IssuedMatchesLedger
<1>1. InventoryInv => IssuedMatchesLedger
  BY DEF InventoryInv
<1>2. QED
  BY <1>1, InventoryInvariant, PTL

\* No issue is returned more than once over.
THEOREM ReturnsBounded == Spec => []ReturnsWithinIssue
<1>1. InventoryInv => ReturnsWithinIssue
  BY DEF InventoryInv
<1>2. QED
  BY <1>1, InventoryInvariant, PTL

\* Held and issued stock together never exceed the approved quantity.
THEOREM DemandBounded == Spec => []DemandNotExceeded
<1>1. InventoryInv => DemandNotExceeded
  BY DEF InventoryInv
<1>2. QED
  BY <1>1, InventoryInvariant, PTL

\* A reservation is open exactly when it still holds stock.
THEOREM OpenReservationsHoldStock == Spec => []OpenIffHoldsStock
<1>1. InventoryInv => OpenIffHoldsStock
  <2> SUFFICES ASSUME InventoryInv, NEW r \in ReservationIds
               PROVE  IsActive(reservations[r]) <=> Remaining(reservations[r]) > 0
    BY DEF OpenIffHoldsStock
  <2>1. RowOK(reservations[r])
    BY DEF InventoryInv, WellFormed, RowsWellFormed
  <2>2. Remaining(NoReservation) = 0
    BY DEF NoReservation, Remaining
  <2>3. QED
    BY <2>1, <2>2, BlankRow DEF RowOK
<1>2. QED
  BY <1>1, InventoryInvariant, PTL

\* An item has at most one open reservation for a requirement.
THEOREM OpenReservationsUnique == Spec => []OneActiveReservation
<1>1. InventoryInv => OneActiveReservation
  BY DEF InventoryInv
<1>2. QED
  BY <1>1, InventoryInvariant, PTL

\* The stored status of a requirement is what its reservations say.
THEOREM RequirementStatusTrue == Spec => []DemandStatusInSync
<1>1. InventoryInv => DemandStatusInSync
  BY DEF InventoryInv
<1>2. QED
  BY <1>1, InventoryInvariant, PTL

-----------------------------------------------------------------------------
(* What a step does to the balances *)

\* A movement that mentions a reservation mentions one in use.
LEMMA MentionsRows ==
  ASSUME WellFormed, NEW k \in MovementIds
  PROVE  \/ ledger[k].reservation = 0
         \/ /\ ledger[k].reservation \in ReservationIds
            /\ reservations[ledger[k].reservation] # NoReservation
<1>1. MovementOK(ledger[k])
  BY DEF WellFormed, LedgerWellFormed
<1>2. CASE ledger[k] = NoMovement
  BY <1>2 DEF NoMovement
<1>3. CASE ledger[k].kind = "RETURN" /\ ledger[k] # NoMovement
  <2>1. /\ ledger[k].source \in MovementIds
        /\ ledger[ledger[k].source].kind = "ISSUE"
        /\ ledger[ledger[k].source].reservation = ledger[k].reservation
    BY <1>1, <1>3 DEF MovementOK
  <2>2. MovementOK(ledger[ledger[k].source])
    BY <2>1 DEF WellFormed, LedgerWellFormed
  <2>3. ledger[ledger[k].source] # NoMovement
    BY <2>1 DEF NoMovement
  <2>4. QED
    BY <2>1, <2>2, <2>3 DEF MovementOK
<1>4. CASE ledger[k].kind # "RETURN" /\ ledger[k] # NoMovement
  BY <1>1, <1>4 DEF MovementOK
<1>5. QED
  BY <1>2, <1>3, <1>4

\* Every reservation row in use stays for the same requirement.
DemandKept ==
  \A s \in ReservationIds :
    reservations[s] # NoReservation =>
      reservations'[s].requirement = reservations[s].requirement

\* What a movement consumes is a number, and stays what it is.
LEMMA ConsumptionKept ==
  ASSUME WellFormed, DemandKept, NEW k \in MovementIds, NEW p \in Requirements
  PROVE  /\ ConsumedBy(ledger[k], p) \in Int
         /\ ledger'[k] = ledger[k]
              => ConsumedBy(ledger[k], p)' = ConsumedBy(ledger[k], p)
<1>1. Signed(ledger[k]) \in Int
  BY MovementContributions DEF WellFormed, TypeOK
<1>2. \/ ledger[k].reservation = 0
      \/ reservations'[ledger[k].reservation].requirement =
           reservations[ledger[k].reservation].requirement
  BY MentionsRows DEF DemandKept
<1>3. QED
  BY <1>1, <1>2 DEF ConsumedBy

\* What is consumed is a number; it stays when the ledger does, ...
LEMMA NothingConsumed ==
  ASSUME WellFormed, DemandKept, NEW p \in Requirements
  PROVE  /\ NetConsumed(p) \in Int
         /\ UNCHANGED ledger => NetConsumed(p)' = NetConsumed(p)
<1> DEFINE f == [k \in MovementIds |-> ConsumedBy(ledger[k], p)]
<1>1. f \in [MovementIds -> Int]
  BY ConsumptionKept
<1>2. NetConsumed(p) = Total(f, MaxMovements)
  BY DEF NetConsumed
<1>3. Total(f, MaxMovements) \in Int
  BY <1>1, LedgerTotal
<1>4. ASSUME UNCHANGED ledger PROVE NetConsumed(p)' = NetConsumed(p)
  <2>1. \A k \in MovementIds :
          ConsumedBy(ledger[k], p)' = ConsumedBy(ledger[k], p)
    BY <1>4, ConsumptionKept
  <2>2. [k \in MovementIds |-> ConsumedBy(ledger[k], p)'] = f
    BY <2>1
  <2>3. QED
    BY <2>2 DEF NetConsumed
<1>5. QED
  BY <1>2, <1>3, <1>4

\* ... and otherwise changes by what the recorded movement says.
LEMMA RecordedConsumed ==
  ASSUME WellFormed, DemandKept, NEW m \in MovementIds, NEW row \in Movement,
         Record(m, row), NEW p \in Requirements, ConsumedBy(row, p)' \in Int
  PROVE  NetConsumed(p)' = NetConsumed(p) + ConsumedBy(row, p)'
<1> DEFINE f == [k \in MovementIds |-> ConsumedBy(ledger[k], p)]
           g == [k \in MovementIds |-> ConsumedBy(ledger[k], p)']
<1>1. /\ ledger \in [MovementIds -> Movement]
      /\ ledger[m] = NoMovement
      /\ ledger' = [ledger EXCEPT ![m] = row]
  BY DEF WellFormed, TypeOK, Record, NextKey
<1>2. ledger'[m] = row /\ \A k \in MovementIds : k # m => ledger'[k] = ledger[k]
  BY <1>1
<1>3. \A k \in MovementIds : k # m => g[k] = f[k]
  BY <1>2, ConsumptionKept
<1>4. f \in [MovementIds -> Int]
  BY ConsumptionKept
<1>5. g[m] = ConsumedBy(row, p)' /\ g[m] \in Int
  BY <1>2 DEF ConsumedBy
<1>6. f[m] = 0
  BY <1>1 DEF ConsumedBy, NoMovement
<1>7. g \in [MovementIds -> Int]
  BY <1>3, <1>4, <1>5
<1>8. NetConsumed(p) = Total(f, MaxMovements) /\ NetConsumed(p)' = Total(g, MaxMovements)
  BY DEF NetConsumed
<1> HIDE DEF f, g
<1>9. Total(g, MaxMovements) = Total(f, MaxMovements) + g[m] - f[m]
  BY <1>3, <1>4, <1>7, LedgerChange
<1>10. Total(f, MaxMovements) \in Int
  BY <1>4, LedgerTotal
<1>11. QED
  BY <1>5, <1>6, <1>8, <1>9, <1>10

\* Receipts and adjustments move shelf stock of one item and nothing else.
LEMMA BookedEffect ==
  ASSUME InventoryInv,
         NEW kind \in {"RECEIPT", "ADJUSTMENT_IN", "ADJUSTMENT_OUT"},
         NEW i \in Items, NEW n \in Quantities, NEW m \in MovementIds,
         Record(m, NewMovement(kind, i, n, 0, 0)),
         UNCHANGED <<reservations>>
  PROVE  /\ \A j \in Items :
              /\ OnHand(j)' =
                   IF j # i THEN OnHand(j)
                   ELSE IF kind = "ADJUSTMENT_OUT" THEN OnHand(j) - n
                                                   ELSE OnHand(j) + n
              /\ Reserved(j)' = Reserved(j)
         /\ \A p \in Requirements :
              /\ IssuedFor(reservations', p) = IssuedFor(reservations, p)
              /\ NetConsumed(p)' = NetConsumed(p)
<1>1. PICK row : row = NewMovement(kind, i, n, 0, 0)
  OBVIOUS
<1>2. WellFormed /\ ledger \in [MovementIds -> Movement] /\ n \in Int
  BY DEF InventoryInv, WellFormed, TypeOK, Quantities
<1>3. /\ row \in Movement
      /\ row.kind = kind /\ row.item = i /\ row.quantity = n
      /\ row.reservation = 0
  BY <1>1, <1>2 DEF NewMovement, Movement, PositiveTypes, NegativeTypes
<1>4. \A j \in Items : /\ OnHand(j)' = OnHand(j) + Moves(row, j)
                       /\ OnHand(j) \in Int
  BY <1>1, <1>2, <1>3, RecordedTotals, LedgerTotals
<1>5. \A j \in Items :
        Moves(row, j) = IF j # i THEN 0
                        ELSE IF kind = "ADJUSTMENT_OUT" THEN 0 - n ELSE n
  BY <1>2, <1>3 DEF Moves, Signed, PositiveTypes, NegativeTypes
<1>6. \A j \in Items : Reserved(j)' = Reserved(j)
  BY DEF Reserved
<1>7. DemandKept
  BY DEF DemandKept
<1>8. \A p \in Requirements : ConsumedBy(row, p)' = 0
  BY <1>3 DEF ConsumedBy
<1>9. \A p \in Requirements : NetConsumed(p)' = NetConsumed(p)
  BY <1>1, <1>2, <1>3, <1>7, <1>8, RecordedConsumed, NothingConsumed
<1>10. QED
  BY <1>2, <1>4, <1>5, <1>6, <1>9

\* Reserving commits stock of one item.
LEMMA ReserveEffect ==
  ASSUME InventoryInv, NEW i \in Items, NEW q \in Requirements,
         NEW n \in Quantities, NEW r \in ReservationIds, ReserveStock(i, q, n, r)
  PROVE  /\ \A j \in Items :
              /\ OnHand(j)' = OnHand(j)
              /\ Reserved(j)' = Reserved(j) + (IF j = i THEN n ELSE 0)
         /\ \A p \in Requirements :
              /\ IssuedFor(reservations', p) = IssuedFor(reservations, p)
              /\ NetConsumed(p)' = NetConsumed(p)
<1>1. PICK new : new = NewReservation(i, q, n)
  OBVIOUS
<1>2. /\ reservations \in [ReservationIds -> Reservation]
      /\ RowsWellFormed /\ WellFormed
  BY DEF InventoryInv, WellFormed, TypeOK
<1>3. /\ n > 0 /\ n \in Int /\ UNCHANGED ledger
      /\ reservations[r] = NoReservation
      /\ reservations' = [reservations EXCEPT ![r] = new]
  BY <1>1 DEF ReserveStock, NextKey, Quantities
<1>4. /\ new \in Reservation /\ RowOK(new) /\ Remaining(new) = n
      /\ new.item = i /\ new.issued = 0
  BY <1>1, <1>3, NewRow DEF NewReservation
<1>5. /\ \A j \in Items : /\ Holds(new, j) = IF j = i THEN n ELSE 0
                          /\ Holds(NoReservation, j) = 0
      /\ \A p \in Requirements :
           IssuedTo(new, p) = 0 /\ IssuedTo(NoReservation, p) = 0
  <2>1. NoReservation.issued = 0 /\ ~ IsActive(NoReservation)
    BY BlankRow DEF NoReservation
  <2>2. QED
    BY <1>4, <2>1, RowHolds DEF Holds, IssuedTo
<1>6. /\ \A j \in Items :
           Reserved(j)' = Reserved(j) + Holds(new, j) - Holds(reservations[r], j)
      /\ \A p \in Requirements :
           IssuedFor(reservations', p) = IssuedFor(reservations, p)
             + IssuedTo(new, p) - IssuedTo(reservations[r], p)
      /\ \A j \in Items : Reserved(j) \in Int
      /\ \A p \in Requirements : IssuedFor(reservations, p) \in Int
  BY <1>2, <1>3, <1>4, ReplacedTotals, ReservationTotals
<1>7. DemandKept
  BY <1>2, <1>3 DEF DemandKept
<1>8. \A p \in Requirements : NetConsumed(p)' = NetConsumed(p)
  BY <1>2, <1>3, <1>7, NothingConsumed
<1>9. \A j \in Items : OnHand(j)' = OnHand(j)
  BY <1>3 DEF OnHand
<1>10. \A j \in Items : Reserved(j)' = Reserved(j) + (IF j = i THEN n ELSE 0)
  <2>1. n \in Int /\ reservations[r] = NoReservation
    BY <1>3
  <2>2. QED
    BY <1>5, <1>6, <2>1
<1>11. \A p \in Requirements :
         IssuedFor(reservations', p) = IssuedFor(reservations, p)
  <2>1. reservations[r] = NoReservation
    BY <1>3
  <2>2. QED
    BY <1>5, <1>6, <2>1
<1>12. QED
  BY <1>8, <1>9, <1>10, <1>11

\* Releasing gives up what the reservation still holds.
LEMMA ReleaseEffect ==
  ASSUME InventoryInv, NEW r \in ReservationIds, ReleaseStockReservation(r)
  PROVE  /\ reservations[r].item \in Items
         /\ Remaining(reservations[r]) \in 1..MaxQuantity
         /\ Remaining(reservations[r]) <= Reserved(reservations[r].item)
         /\ \A j \in Items :
              /\ OnHand(j)' = OnHand(j)
              /\ Reserved(j)' = Reserved(j) -
                   (IF j = reservations[r].item THEN Remaining(reservations[r]) ELSE 0)
         /\ \A p \in Requirements :
              /\ IssuedFor(reservations', p) = IssuedFor(reservations, p)
              /\ NetConsumed(p)' = NetConsumed(p)
<1>1. PICK row : row = reservations[r]
  OBVIOUS
<1>2. PICK new : new = AfterRelease(row)
  OBVIOUS
<1>3. /\ reservations \in [ReservationIds -> Reservation]
      /\ RowsWellFormed /\ WellFormed
      /\ row \in Reservation /\ RowOK(row)
  BY <1>1 DEF InventoryInv, WellFormed, TypeOK, RowsWellFormed
<1>4. /\ IsActive(row) /\ Remaining(row) > 0 /\ UNCHANGED ledger
      /\ reservations' = [reservations EXCEPT ![r] = new]
  BY <1>1, <1>2 DEF ReleaseStockReservation
<1>5. /\ new \in Reservation /\ RowOK(new)
      /\ new.item = row.item /\ new.requirement = row.requirement
      /\ new.issued = row.issued /\ Remaining(new) = 0
  BY <1>2, <1>3, <1>4, ReleasedRow
<1>6. /\ row.item \in Items /\ row.issued \in Int /\ row.released \in Int
      /\ row.reserved \in Quantities /\ row.issued >= 0 /\ row.released >= 0
      /\ Remaining(row) \in Int
  BY <1>3, <1>4, BlankRow, RowHolds DEF RowOK, Reservation
<1>7. Remaining(row) \in 1..MaxQuantity
  BY <1>4, <1>6, InventoryAssumption DEF Remaining, Quantities
<1>8. /\ \A j \in Items :
           /\ Holds(new, j) = 0
           /\ Holds(row, j) = IF j = row.item THEN Remaining(row) ELSE 0
      /\ \A p \in Requirements : /\ IssuedTo(new, p) = IssuedTo(row, p)
                                 /\ IssuedTo(row, p) \in Int
  BY <1>3, <1>5, RowHolds DEF IssuedTo
<1>9. /\ \A j \in Items :
           /\ Reserved(j)' = Reserved(j) + Holds(new, j) - Holds(row, j)
           /\ Reserved(j) \in Int /\ Holds(row, j) <= Reserved(j)
      /\ \A p \in Requirements :
           /\ IssuedFor(reservations', p) = IssuedFor(reservations, p)
                + IssuedTo(new, p) - IssuedTo(row, p)
           /\ IssuedFor(reservations, p) \in Int
  BY <1>1, <1>3, <1>4, <1>5, ReplacedTotals, ReservationTotals
<1>10. DemandKept
  BY <1>1, <1>3, <1>4, <1>5 DEF DemandKept
<1>11. \A p \in Requirements : NetConsumed(p)' = NetConsumed(p)
  BY <1>3, <1>4, <1>10, NothingConsumed
<1>12. \A j \in Items : OnHand(j)' = OnHand(j)
  BY <1>4 DEF OnHand
<1>13. QED
  BY <1>1, <1>6, <1>7, <1>8, <1>9, <1>11, <1>12

\* Issuing d (returning, where d is negative) moves as much of the item's
\* shelf stock, of what is committed, and of what the requirement consumed.
LEMMA ExchangeEffect ==
  ASSUME InventoryInv, NEW r \in ReservationIds, NEW m \in MovementIds,
         NEW move \in Movement, NEW new \in Reservation, NEW d \in Int,
         reservations[r] # NoReservation, RowOK(new),
         new.item = reservations[r].item,
         new.requirement = reservations[r].requirement,
         new.issued = reservations[r].issued + d,
         Remaining(new) = Remaining(reservations[r]) - d,
         move.item = reservations[r].item, move.reservation = r,
         Signed(move) = 0 - d,
         Record(m, move),
         reservations' = [reservations EXCEPT ![r] = new]
  PROVE  /\ \A j \in Items :
              LET x == IF j = reservations[r].item THEN d ELSE 0 IN
              /\ OnHand(j)' = OnHand(j) - x
              /\ Reserved(j)' = Reserved(j) - x
         /\ \A p \in Requirements :
              LET x == IF p = reservations[r].requirement THEN d ELSE 0 IN
              /\ IssuedFor(reservations', p) = IssuedFor(reservations, p) + x
              /\ NetConsumed(p)' = NetConsumed(p) + x
<1>1. PICK row : row = reservations[r]
  OBVIOUS
<1>2. /\ reservations \in [ReservationIds -> Reservation]
      /\ ledger \in [MovementIds -> Movement]
      /\ RowsWellFormed /\ WellFormed
      /\ row \in Reservation /\ RowOK(row)
      /\ Remaining(row) \in Int /\ row.issued \in Int
  BY <1>1, RowHolds DEF InventoryInv, WellFormed, TypeOK, RowsWellFormed,
                        Reservation
<1>3. /\ \A j \in Items :
           /\ Holds(new, j) = IF j = row.item THEN Remaining(row) - d ELSE 0
           /\ Holds(row, j) = IF j = row.item THEN Remaining(row) ELSE 0
      /\ \A p \in Requirements :
           /\ IssuedTo(new, p) = IF p = row.requirement THEN row.issued + d ELSE 0
           /\ IssuedTo(row, p) = IF p = row.requirement THEN row.issued ELSE 0
  BY <1>1, <1>2, RowHolds DEF IssuedTo
<1>4. /\ \A j \in Items :
           /\ Reserved(j)' = Reserved(j) + Holds(new, j) - Holds(row, j)
           /\ Reserved(j) \in Int
      /\ \A p \in Requirements :
           /\ IssuedFor(reservations', p) =
                IssuedFor(reservations, p) + IssuedTo(new, p) - IssuedTo(row, p)
           /\ IssuedFor(reservations, p) \in Int
  <2>1. /\ \A j \in Items :
             Reserved(j)' = Reserved(j) + Holds(new, j) - Holds(reservations[r], j)
        /\ \A p \in Requirements :
             IssuedFor(reservations', p) = IssuedFor(reservations, p)
               + IssuedTo(new, p) - IssuedTo(reservations[r], p)
    BY <1>2, ReplacedTotals
  <2>2. QED
    BY <1>1, <1>2, <2>1, ReservationTotals
<1>5. \A j \in Items : /\ OnHand(j)' = OnHand(j) + Moves(move, j)
                       /\ OnHand(j) \in Int
  BY <1>2, RecordedTotals, LedgerTotals
<1>6. \A j \in Items : Moves(move, j) = IF j = row.item THEN 0 - d ELSE 0
  BY <1>1 DEF Moves
<1>7. DemandKept
  BY <1>1, <1>2 DEF DemandKept
<1>8. ASSUME NEW p \in Requirements
      PROVE  ConsumedBy(move, p)' = IF p = row.requirement THEN d ELSE 0
  <2>1. reservations'[move.reservation].requirement = row.requirement
    BY <1>1, <1>2
  <2>2. -(0 - d) = d
    OBVIOUS
  <2>3. move.reservation # 0
    BY InventoryAssumption DEF ReservationIds
  <2>4. Signed(move)' = 0 - d
    BY DEF Signed
  <2>5. QED
    BY <2>1, <2>2, <2>3, <2>4 DEF ConsumedBy
<1>9. \A p \in Requirements :
        /\ NetConsumed(p)' = NetConsumed(p) + ConsumedBy(move, p)'
        /\ NetConsumed(p) \in Int
  BY <1>2, <1>7, <1>8, RecordedConsumed, NothingConsumed
<1>10. ASSUME NEW j \in Items
       PROVE  LET x == IF j = reservations[r].item THEN d ELSE 0 IN
              /\ OnHand(j)' = OnHand(j) - x
              /\ Reserved(j)' = Reserved(j) - x
  <2>1. /\ Remaining(row) \in Int /\ Reserved(j) \in Int /\ OnHand(j) \in Int
        /\ reservations[r].item = row.item
    BY <1>1, <1>2, <1>4, <1>5
  <2>2. QED
    BY <1>3, <1>4, <1>5, <1>6, <2>1
<1>11. ASSUME NEW p \in Requirements
       PROVE  LET x == IF p = reservations[r].requirement THEN d ELSE 0 IN
              /\ IssuedFor(reservations', p) = IssuedFor(reservations, p) + x
              /\ NetConsumed(p)' = NetConsumed(p) + x
  <2>1. /\ row.issued \in Int /\ IssuedFor(reservations, p) \in Int
        /\ reservations[r].requirement = row.requirement
    BY <1>1, <1>2, <1>4
  <2>2. IssuedFor(reservations', p) = IssuedFor(reservations, p) +
          (IF p = row.requirement THEN d ELSE 0)
    <3>1. IssuedFor(reservations', p) =
            IssuedFor(reservations, p) + IssuedTo(new, p) - IssuedTo(row, p)
      BY <1>4
    <3>2. /\ IssuedTo(new, p) = IF p = row.requirement THEN row.issued + d ELSE 0
          /\ IssuedTo(row, p) = IF p = row.requirement THEN row.issued ELSE 0
      BY <1>3
    <3>3. QED
      BY <2>1, <3>1, <3>2
  <2>3. QED
    BY <1>8, <1>9, <2>1, <2>2
<1>12. QED
  BY <1>10, <1>11

\* A row's part in what its requirement holds and has been issued.
LEMMA RowBounds ==
  ASSUME InventoryInv, NEW p \in Requirements
  PROVE  /\ HeldFor(reservations, p) >= 0 /\ IssuedFor(reservations, p) >= 0
         /\ \A r \in ReservationIds :
              /\ HeldTo(reservations[r], p) <= HeldFor(reservations, p)
              /\ IssuedTo(reservations[r], p) <= IssuedFor(reservations, p)
<1> DEFINE f == [k \in ReservationIds |-> HeldTo(reservations[k], p)]
           g == [k \in ReservationIds |-> IssuedTo(reservations[k], p)]
<1>1. \A k \in ReservationIds :
        reservations[k] \in Reservation /\ RowOK(reservations[k])
  BY DEF InventoryInv, WellFormed, TypeOK, RowsWellFormed
<1>2. /\ f \in [ReservationIds -> Int] /\ \A k \in ReservationIds : f[k] >= 0
      /\ g \in [ReservationIds -> Int] /\ \A k \in ReservationIds : g[k] >= 0
  BY <1>1, RowHolds
<1>3. /\ HeldFor(reservations, p) = Total(f, MaxReservations)
      /\ IssuedFor(reservations, p) = Total(g, MaxReservations)
      /\ \A r \in ReservationIds : /\ HeldTo(reservations[r], p) = f[r]
                                   /\ IssuedTo(reservations[r], p) = g[r]
  BY DEF HeldFor, IssuedFor
<1> HIDE DEF f, g
<1>4. QED
  BY <1>2, <1>3, ReservationBounds, TableBounds, InventoryAssumption
     DEF ReservationIds

\* What an issue takes is committed, on the shelf and held for its
\* requirement, whose order is open for it.
LEMMA IssueEffect ==
  ASSUME InventoryInv, NEW r \in ReservationIds, NEW n \in Quantities,
         NEW m \in MovementIds, IssueReservedStock(r, n, m)
  PROVE  \E i \in Items, q \in Requirements :
           /\ n \in 1..MaxQuantity
           /\ n <= Reserved(i) /\ n <= OnHand(i)
           /\ n <= HeldFor(reservations, q)
           /\ orderStatus[OrderOf[q]] \in IssuableStatuses
           /\ UNCHANGED orderStatus
           /\ \A j \in Items :
                LET x == IF j = i THEN n ELSE 0 IN
                /\ OnHand(j)' = OnHand(j) - x
                /\ Reserved(j)' = Reserved(j) - x
           /\ \A p \in Requirements :
                LET x == IF p = q THEN n ELSE 0 IN
                /\ IssuedFor(reservations', p) = IssuedFor(reservations, p) + x
                /\ NetConsumed(p)' = NetConsumed(p) + x
<1>1. PICK row : row = reservations[r]
  OBVIOUS
<1>2. PICK new : new = AfterIssue(row, n)
  OBVIOUS
<1>3. PICK move : move = NewMovement("ISSUE", row.item, n, r, 0)
  OBVIOUS
<1>4. /\ WellFormed /\ RowsWellFormed
      /\ reservations \in [ReservationIds -> Reservation]
      /\ row \in Reservation /\ RowOK(row)
  BY <1>1 DEF InventoryInv, WellFormed, TypeOK, RowsWellFormed
<1>5. /\ n > 0 /\ IsActive(row) /\ n <= Remaining(row) /\ n <= OnHand(row.item)
      /\ orderStatus[OrderOf[row.requirement]] \in IssuableStatuses
      /\ UNCHANGED orderStatus
      /\ Record(m, move)
      /\ reservations' = [reservations EXCEPT ![r] = new]
  BY <1>1, <1>2, <1>3 DEF IssueReservedStock
<1>6. /\ row # NoReservation /\ row.item \in Items
      /\ row.requirement \in Requirements
  BY <1>4, <1>5, BlankRow DEF RowOK
<1>7. /\ new \in Reservation /\ RowOK(new)
      /\ new.item = row.item /\ new.requirement = row.requirement
      /\ new.issued = row.issued + n
      /\ Remaining(new) = Remaining(row) - n
  BY <1>2, <1>4, <1>5, IssuedRow
<1>8. n \in Int /\ n \in 1..MaxQuantity
  BY <1>5, InventoryAssumption DEF Quantities
<1>9. /\ move \in Movement
      /\ move.item = row.item /\ move.reservation = r
      /\ Signed(move) = 0 - n
  BY <1>3, <1>6, <1>8
     DEF NewMovement, Movement, Signed, PositiveTypes, NegativeTypes
<1>10. /\ \A j \in Items :
            LET x == IF j = row.item THEN n ELSE 0 IN
            /\ OnHand(j)' = OnHand(j) - x
            /\ Reserved(j)' = Reserved(j) - x
       /\ \A p \in Requirements :
            LET x == IF p = row.requirement THEN n ELSE 0 IN
            /\ IssuedFor(reservations', p) = IssuedFor(reservations, p) + x
            /\ NetConsumed(p)' = NetConsumed(p) + x
  <2>1. /\ r \in ReservationIds /\ m \in MovementIds
        /\ move \in Movement /\ new \in Reservation /\ n \in Int
        /\ reservations[r] # NoReservation /\ RowOK(new)
        /\ new.item = reservations[r].item
        /\ new.requirement = reservations[r].requirement
        /\ new.issued = reservations[r].issued + n
        /\ Remaining(new) = Remaining(reservations[r]) - n
        /\ move.item = reservations[r].item /\ move.reservation = r
        /\ Signed(move) = 0 - n
        /\ Record(m, move)
        /\ reservations' = [reservations EXCEPT ![r] = new]
    BY <1>1, <1>5, <1>6, <1>7, <1>8, <1>9
  <2>2. /\ \A j \in Items :
             LET x == IF j = reservations[r].item THEN n ELSE 0 IN
             /\ OnHand(j)' = OnHand(j) - x
             /\ Reserved(j)' = Reserved(j) - x
        /\ \A p \in Requirements :
             LET x == IF p = reservations[r].requirement THEN n ELSE 0 IN
             /\ IssuedFor(reservations', p) = IssuedFor(reservations, p) + x
             /\ NetConsumed(p)' = NetConsumed(p) + x
    BY <2>1, ExchangeEffect
  <2>3. QED
    BY <1>1, <2>2
<1>11. n <= Reserved(row.item) /\ n <= HeldFor(reservations, row.requirement)
  <2>1. /\ Holds(row, row.item) = Remaining(row)
        /\ HeldTo(row, row.requirement) = Remaining(row)
        /\ Remaining(row) \in Int
    BY <1>4, <1>6, RowHolds
  <2>2. /\ Holds(row, row.item) <= Reserved(row.item)
        /\ Reserved(row.item) \in Int
        /\ HeldFor(reservations, row.requirement) \in Int
    BY <1>1, <1>4, <1>6, ReservationTotals
  <2>3. HeldTo(row, row.requirement) <= HeldFor(reservations, row.requirement)
    BY <1>1, <1>6, RowBounds
  <2>4. QED
    BY <1>5, <1>8, <2>1, <2>2, <2>3
<1>12. QED
  BY <1>5, <1>6, <1>8, <1>10, <1>11

\* What a return brings back had been issued to its requirement.
LEMMA ReturnEffect ==
  ASSUME InventoryInv, NEW s \in MovementIds, NEW n \in Quantities,
         NEW m \in MovementIds, ReturnIssuedStock(s, n, m)
  PROVE  \E i \in Items, q \in Requirements :
           /\ n \in 1..MaxQuantity
           /\ n <= IssuedFor(reservations, q)
           /\ UNCHANGED orderStatus
           /\ \A j \in Items :
                LET x == IF j = i THEN n ELSE 0 IN
                /\ OnHand(j)' = OnHand(j) + x
                /\ Reserved(j)' = Reserved(j) + x
           /\ \A p \in Requirements :
                LET x == IF p = q THEN n ELSE 0 IN
                /\ IssuedFor(reservations', p) = IssuedFor(reservations, p) - x
                /\ NetConsumed(p)' = NetConsumed(p) - x
<1>a. PICK r : r = ledger[s].reservation
  OBVIOUS
<1>1. PICK row : row = reservations[r]
  OBVIOUS
<1>2. PICK new : new = AfterReturn(row, n)
  OBVIOUS
<1>3. PICK move : move = NewMovement("RETURN", row.item, n, r, s)
  OBVIOUS
<1>b. PICK d : d = 0 - n
  OBVIOUS
<1>4. /\ WellFormed /\ RowsWellFormed
      /\ reservations \in [ReservationIds -> Reservation]
      /\ ledger \in [MovementIds -> Movement]
  BY DEF InventoryInv, WellFormed, TypeOK
<1>5. /\ n > 0 /\ ledger[s].kind = "ISSUE" /\ n <= row.issued
      /\ UNCHANGED orderStatus
      /\ Record(m, move)
      /\ reservations' = [reservations EXCEPT ![r] = new]
  BY <1>a, <1>1, <1>2, <1>3 DEF ReturnIssuedStock
<1>6. /\ r \in ReservationIds /\ row # NoReservation
      /\ row \in Reservation /\ RowOK(row)
      /\ row.item \in Items /\ row.requirement \in Requirements
      /\ row.issued \in Int /\ Remaining(row) \in Int
  <2>1. MovementOK(ledger[s]) /\ ledger[s] # NoMovement
    BY <1>4, <1>5 DEF WellFormed, LedgerWellFormed, NoMovement
  <2>2. r \in ReservationIds /\ row # NoReservation
    BY <1>a, <1>1, <1>5, <2>1 DEF MovementOK
  <2>3. row \in Reservation /\ RowOK(row)
    BY <1>1, <1>4, <2>2 DEF RowsWellFormed
  <2>4. QED
    BY <2>2, <2>3, RowHolds DEF RowOK, Reservation
<1>8. n \in Int /\ n \in 1..MaxQuantity /\ d \in Int
  BY <1>5, <1>b, InventoryAssumption DEF Quantities
<1>7. /\ new \in Reservation /\ RowOK(new)
      /\ new.item = row.item /\ new.requirement = row.requirement
      /\ new.issued = row.issued + d
      /\ Remaining(new) = Remaining(row) - d
  <2>1. /\ new \in Reservation /\ RowOK(new)
        /\ new.item = row.item /\ new.requirement = row.requirement
        /\ new.issued = row.issued - n
        /\ Remaining(new) = Remaining(row) + n
    BY <1>2, <1>5, <1>6, ReturnedRow
  <2>2. QED
    BY <1>6, <1>8, <1>b, <2>1
<1>9. /\ move \in Movement
      /\ move.item = row.item /\ move.reservation = r
      /\ Signed(move) = 0 - d
  <2>1. /\ move \in Movement
        /\ move.item = row.item /\ move.reservation = r
        /\ Signed(move) = n
    BY <1>3, <1>6, <1>8
       DEF NewMovement, Movement, Signed, PositiveTypes, NegativeTypes
  <2>2. 0 - d = n
    BY <1>8, <1>b
  <2>3. QED
    BY <2>1, <2>2
<1>10. /\ \A j \in Items :
            LET x == IF j = row.item THEN d ELSE 0 IN
            /\ OnHand(j)' = OnHand(j) - x
            /\ Reserved(j)' = Reserved(j) - x
       /\ \A p \in Requirements :
            LET x == IF p = row.requirement THEN d ELSE 0 IN
            /\ IssuedFor(reservations', p) = IssuedFor(reservations, p) + x
            /\ NetConsumed(p)' = NetConsumed(p) + x
  <2>1. /\ r \in ReservationIds /\ m \in MovementIds
        /\ move \in Movement /\ new \in Reservation /\ d \in Int
        /\ reservations[r] # NoReservation /\ RowOK(new)
        /\ new.item = reservations[r].item
        /\ new.requirement = reservations[r].requirement
        /\ new.issued = reservations[r].issued + d
        /\ Remaining(new) = Remaining(reservations[r]) - d
        /\ move.item = reservations[r].item /\ move.reservation = r
        /\ Signed(move) = 0 - d
        /\ Record(m, move)
        /\ reservations' = [reservations EXCEPT ![r] = new]
    BY <1>1, <1>5, <1>6, <1>7, <1>8, <1>9
  <2>2. /\ \A j \in Items :
             LET x == IF j = reservations[r].item THEN d ELSE 0 IN
             /\ OnHand(j)' = OnHand(j) - x
             /\ Reserved(j)' = Reserved(j) - x
        /\ \A p \in Requirements :
             LET x == IF p = reservations[r].requirement THEN d ELSE 0 IN
             /\ IssuedFor(reservations', p) = IssuedFor(reservations, p) + x
             /\ NetConsumed(p)' = NetConsumed(p) + x
    BY <2>1, ExchangeEffect
  <2>3. QED
    BY <1>1, <2>2
<1>11. /\ \A j \in Items : OnHand(j) \in Int /\ Reserved(j) \in Int
       /\ \A p \in Requirements :
            IssuedFor(reservations, p) \in Int /\ NetConsumed(p) \in Int
  <2>1. DemandKept
    BY <1>1, <1>4, <1>5, <1>6, <1>7 DEF DemandKept
  <2>2. QED
    BY <1>4, <2>1, LedgerTotals, ReservationTotals, NothingConsumed
<1>12. /\ \A j \in Items :
            LET x == IF j = row.item THEN n ELSE 0 IN
            /\ OnHand(j)' = OnHand(j) + x
            /\ Reserved(j)' = Reserved(j) + x
       /\ \A p \in Requirements :
            LET x == IF p = row.requirement THEN n ELSE 0 IN
            /\ IssuedFor(reservations', p) = IssuedFor(reservations, p) - x
            /\ NetConsumed(p)' = NetConsumed(p) - x
  BY <1>8, <1>b, <1>10, <1>11
<1>13. n <= IssuedFor(reservations, row.requirement)
  <2>1. IssuedTo(row, row.requirement) = row.issued
    BY DEF IssuedTo
  <2>2. IssuedTo(row, row.requirement) <= IssuedFor(reservations, row.requirement)
    BY <1>1, <1>6, RowBounds
  <2>3. QED
    BY <1>5, <1>6, <1>8, <1>11, <2>1, <2>2
<1>14. QED
  BY <1>5, <1>6, <1>8, <1>12, <1>13

-----------------------------------------------------------------------------
(* The abstract account *)

Shelf    == [i \in Items |-> OnHand(i)]
Promised == [i \in Items |-> Reserved(i)]

\* A balance of one item that changes by x is the abstract one with x added.
LEMMA OneItem ==
  ASSUME InventoryInv, NEW i \in Items, NEW x \in Int
  PROVE  /\ (\A j \in Items : OnHand(j)' = OnHand(j) + IF j = i THEN x ELSE 0)
              => Shelf' = Account!Add(Shelf, i, x)
         /\ (\A j \in Items : Reserved(j)' = Reserved(j) + IF j = i THEN x ELSE 0)
              => Promised' = Account!Add(Promised, i, x)
<1>1. \A j \in Items : OnHand(j) \in Int /\ Reserved(j) \in Int
  BY LedgerTotals, ReservationTotals DEF InventoryInv, WellFormed, TypeOK
<1>2. ASSUME \A j \in Items : OnHand(j)' = OnHand(j) + IF j = i THEN x ELSE 0
      PROVE  Shelf' = Account!Add(Shelf, i, x)
  <2>1. \A j \in Items : OnHand(j)' = IF j = i THEN OnHand(j) + x ELSE OnHand(j)
    BY <1>1, <1>2
  <2>2. QED
    BY <2>1 DEF Shelf, Account!Add
<1>3. ASSUME \A j \in Items : Reserved(j)' = Reserved(j) + IF j = i THEN x ELSE 0
      PROVE  Promised' = Account!Add(Promised, i, x)
  <2>1. \A j \in Items : Reserved(j)' = IF j = i THEN Reserved(j) + x ELSE Reserved(j)
    BY <1>1, <1>3
  <2>2. QED
    BY <2>1 DEF Promised, Account!Add
<1>4. QED
  BY <1>2, <1>3

\* Every service is the abstract operation on the item's balances that its
\* name suggests, or leaves them alone.
LEMMA AccountStep ==
  ASSUME InventoryInv, [Next]_inventoryVars
  PROVE  Account!AccountNext \/ UNCHANGED <<Shelf, Promised>>
<1>0. \A j \in Items : OnHand(j) \in Int /\ Reserved(j) \in Int
  BY LedgerTotals, ReservationTotals DEF InventoryInv, WellFormed, TypeOK
<1>1. ASSUME UNCHANGED <<reservations, ledger>>
      PROVE  UNCHANGED <<Shelf, Promised>>
  BY <1>1 DEF Shelf, Promised, OnHand, Reserved
<1>2. ASSUME NEW i \in Items,
             NEW kind \in {"RECEIPT", "ADJUSTMENT_IN", "ADJUSTMENT_OUT"},
             NEW n \in Quantities, NEW m \in MovementIds,
             n > 0, Adjustable(i, kind, n),
             Record(m, NewMovement(kind, i, n, 0, 0)), UNCHANGED reservations
      PROVE  Account!AccountNext
  <2>1. n \in Int /\ n \in 1..MaxQuantity
    BY <1>2, InventoryAssumption DEF Quantities
  <2>2. UNCHANGED Promised
    BY <1>2 DEF Promised, Reserved
  <2>3. CASE kind = "ADJUSTMENT_OUT"
    <3>1. \A j \in Items : OnHand(j)' = OnHand(j) + IF j = i THEN -n ELSE 0
      BY <1>0, <1>2, <2>1, <2>3, BookedEffect
    <3>2. Shelf' = Account!Add(Shelf, i, -n)
      BY <2>1, <3>1, OneItem
    <3>3. n <= Shelf[i]
      BY <1>2, <2>3 DEF Adjustable, Shelf
    <3>4. Account!WriteOff(i, n)
      BY <2>2, <3>2, <3>3 DEF Account!WriteOff, Shelf, Promised
    <3>5. QED
      BY <2>1, <3>4 DEF Account!AccountNext
  <2>4. CASE kind # "ADJUSTMENT_OUT"
    <3>1. \A j \in Items : OnHand(j)' = OnHand(j) + IF j = i THEN n ELSE 0
      BY <1>0, <1>2, <2>1, <2>4, BookedEffect
    <3>2. Shelf' = Account!Add(Shelf, i, n)
      BY <2>1, <3>1, OneItem
    <3>3. Account!Deposit(i, n)
      BY <2>2, <3>2 DEF Account!Deposit, Shelf, Promised
    <3>4. QED
      BY <2>1, <3>3 DEF Account!AccountNext
  <2>5. QED
    BY <2>3, <2>4
<1>3. ASSUME NEW i \in Items, NEW q \in Requirements, NEW n \in Quantities,
             NEW r \in ReservationIds, ReserveStock(i, q, n, r)
      PROVE  Account!AccountNext
  <2>1. n > 0 /\ n <= Available(i) /\ UNCHANGED ledger
    BY <1>3 DEF ReserveStock
  <2>2. n \in Int /\ n \in 1..MaxQuantity
    BY <2>1, InventoryAssumption DEF Quantities
  <2>3. \A j \in Items : Reserved(j)' = Reserved(j) + IF j = i THEN n ELSE 0
    BY <1>3, ReserveEffect
  <2>4. Promised' = Account!Add(Promised, i, n)
    BY <2>2, <2>3, OneItem
  <2>5. UNCHANGED Shelf
    BY <2>1 DEF Shelf, OnHand
  <2>6. n <= Shelf[i] - Promised[i]
    BY <2>1 DEF Available, Shelf, Promised
  <2>7. Account!Commit(i, n)
    BY <2>4, <2>5, <2>6 DEF Account!Commit, Shelf, Promised
  <2>8. QED
    BY <2>2, <2>7 DEF Account!AccountNext
<1>4. ASSUME NEW r \in ReservationIds, ReleaseStockReservation(r)
      PROVE  Account!AccountNext
  <2>1. PICK i \in Items, n \in 1..MaxQuantity :
          /\ n <= Reserved(i)
          /\ \A j \in Items :
               Reserved(j)' = Reserved(j) - (IF j = i THEN n ELSE 0)
    BY <1>4, ReleaseEffect
  <2>2. n \in Int
    BY InventoryAssumption
  <2>3. \A j \in Items : Reserved(j)' = Reserved(j) + IF j = i THEN -n ELSE 0
    BY <1>0, <2>1, <2>2
  <2>4. Promised' = Account!Add(Promised, i, -n)
    BY <2>2, <2>3, OneItem
  <2>5. UNCHANGED Shelf
    BY <1>4 DEF ReleaseStockReservation, Shelf, OnHand
  <2>6. n <= Promised[i]
    BY <2>1 DEF Promised
  <2>7. Account!Uncommit(i, n)
    BY <2>4, <2>5, <2>6 DEF Account!Uncommit, Shelf, Promised
  <2>8. QED
    BY <2>7 DEF Account!AccountNext
<1>5. ASSUME NEW r \in ReservationIds, NEW n \in Quantities,
             NEW m \in MovementIds, IssueReservedStock(r, n, m)
      PROVE  Account!AccountNext
  <2>1. PICK i \in Items :
          /\ n \in 1..MaxQuantity
          /\ n <= Reserved(i) /\ n <= OnHand(i)
          /\ \A j \in Items :
               LET x == IF j = i THEN n ELSE 0 IN
               /\ OnHand(j)' = OnHand(j) - x
               /\ Reserved(j)' = Reserved(j) - x
    BY <1>5, IssueEffect
  <2>2. n \in Int
    BY DEF Quantities
  <2>3. /\ \A j \in Items : OnHand(j)' = OnHand(j) + IF j = i THEN -n ELSE 0
        /\ \A j \in Items : Reserved(j)' = Reserved(j) + IF j = i THEN -n ELSE 0
    BY <1>0, <2>1, <2>2
  <2>4. /\ Shelf' = Account!Add(Shelf, i, -n)
        /\ Promised' = Account!Add(Promised, i, -n)
    BY <2>2, <2>3, OneItem
  <2>5. n <= Promised[i] /\ n <= Shelf[i]
    BY <2>1 DEF Promised, Shelf
  <2>6. Account!Withdraw(i, n)
    BY <2>4, <2>5 DEF Account!Withdraw, Shelf, Promised
  <2>7. QED
    BY <2>1, <2>6 DEF Account!AccountNext
<1>6. ASSUME NEW s \in MovementIds, NEW n \in Quantities,
             NEW m \in MovementIds, ReturnIssuedStock(s, n, m)
      PROVE  Account!AccountNext
  <2>1. PICK i \in Items :
          /\ n \in 1..MaxQuantity
          /\ \A j \in Items :
               LET x == IF j = i THEN n ELSE 0 IN
               /\ OnHand(j)' = OnHand(j) + x
               /\ Reserved(j)' = Reserved(j) + x
    BY <1>6, ReturnEffect
  <2>2. n \in Int
    BY DEF Quantities
  <2>3. /\ Shelf' = Account!Add(Shelf, i, n)
        /\ Promised' = Account!Add(Promised, i, n)
    BY <2>1, <2>2, OneItem
  <2>4. Account!Restore(i, n)
    BY <2>3 DEF Account!Restore, Shelf, Promised
  <2>5. QED
    BY <2>1, <2>4 DEF Account!AccountNext
<1>7. CASE UNCHANGED inventoryVars
  BY <1>1, <1>7 DEF inventoryVars
<1>8. CASE Next
  <2>1. ASSUME NEW i \in Items, NEW n \in Quantities, NEW m \in MovementIds,
               \/ ReceiveStock(i, n, m)
               \/ \E kind \in {"ADJUSTMENT_IN", "ADJUSTMENT_OUT"} :
                    AdjustStock(i, kind, n, m)
        PROVE  Account!AccountNext
    BY <1>2, <2>1 DEF ReceiveStock, AdjustStock, Adjustable
  <2>2. ASSUME \/ \E l \in Locations : CreateStockLocation(l)
               \/ \E i \in Items : CreateInventoryItem(i)
               \/ \E o \in Orders : WorkOrderMoves(o)
               \/ \E p \in Products : ProductToggled(p)
        PROVE  UNCHANGED <<Shelf, Promised>>
    BY <1>1, <2>2 DEF CreateStockLocation, CreateInventoryItem,
                      WorkOrderMoves, ProductToggled
  <2>3. QED
    BY <1>3, <1>4, <1>5, <1>6, <1>8, <2>1, <2>2 DEF Next
<1>9. QED
  BY <1>7, <1>8

\* The tables of stock control implement the account of each item: stock
\* leaves only against a promise, and is promised only where it is free.
THEOREM InventoryIsAnAccount == Spec => ImplementsStockAccount
<1>1. Init => Account!AccountInit
  BY InventoryInit DEF Account!AccountInit
<1>2. InventoryInv /\ [Next]_inventoryVars
        => [Account!AccountNext]_(Account!accountVars)
  BY AccountStep DEF Account!accountVars, Shelf, Promised
<1>3. QED
  BY <1>1, <1>2, InventoryInvariant, PTL
     DEF Spec, ImplementsStockAccount, Account!AccountSpec

-----------------------------------------------------------------------------
(* What billing sees *)

\* The two ways to tell what a requirement has consumed, by the ledger and by
\* the reservations, agree.
ConsumptionAgrees ==
  \A q \in Requirements : NetConsumed(q) = IssuedFor(reservations, q)

Consumed == [q \in Requirements |-> NetConsumed(q)]

\* Initially nothing is consumed.
LEMMA StoresInit ==
  ASSUME Init
  PROVE  ConsumptionAgrees /\ Stores!ConsumptionInit
<1>1. InventoryInv
  BY InventoryInit
<1>2. /\ \A m \in MovementIds : ledger[m] = NoMovement
      /\ \A r \in ReservationIds : reservations[r] = NoReservation
      /\ orderStatus = [o \in Orders |-> "PLANNED"]
  BY DEF Init
<1>3. ASSUME NEW q \in Requirements
      PROVE  NetConsumed(q) = 0 /\ IssuedFor(reservations, q) = 0
  <2> DEFINE f == [m \in MovementIds |-> ConsumedBy(ledger[m], q)]
             g == [r \in ReservationIds |-> IssuedTo(reservations[r], q)]
  <2>1. /\ f \in [MovementIds -> Int] /\ \A m \in MovementIds : f[m] = 0
        /\ g \in [ReservationIds -> Int] /\ \A r \in ReservationIds : g[r] = 0
    BY <1>2 DEF ConsumedBy, IssuedTo, NoMovement, NoReservation
  <2>2. /\ NetConsumed(q) = Total(f, MaxMovements)
        /\ IssuedFor(reservations, q) = Total(g, MaxReservations)
    BY DEF NetConsumed, IssuedFor
  <2> HIDE DEF f, g
  <2>3. Total(f, MaxMovements) = 0
    BY <2>1, InventoryAssumption, TableZero DEF MovementIds
  <2>4. Total(g, MaxReservations) = 0
    BY <2>1, InventoryAssumption, TableZero DEF ReservationIds
  <2>5. QED
    BY <2>2, <2>3, <2>4
<1>4. QED
  BY <1>2, <1>3 DEF ConsumptionAgrees, Stores!ConsumptionInit

\* A step that moves no stock consumes nothing.
LEMMA NoStockMoved ==
  ASSUME InventoryInv, ConsumptionAgrees, UNCHANGED <<reservations, ledger>>
  PROVE  ConsumptionAgrees' /\ UNCHANGED Consumed
<1>1. DemandKept
  BY DEF DemandKept
<1>2. \A q \in Requirements : NetConsumed(q)' = NetConsumed(q)
  BY <1>1, NothingConsumed DEF InventoryInv
<1>3. \A q \in Requirements :
        IssuedFor(reservations, q)' = IssuedFor(reservations, q)
  BY DEF IssuedFor
<1>4. QED
  BY <1>2, <1>3 DEF ConsumptionAgrees, Consumed

\* A step that changes both totals alike keeps their agreement.
LEMMA BothChange ==
  ASSUME ConsumptionAgrees,
         NEW d, \A p \in Requirements :
           /\ IssuedFor(reservations', p) = IssuedFor(reservations, p) + d[p]
           /\ NetConsumed(p)' = NetConsumed(p) + d[p]
  PROVE  ConsumptionAgrees'
<1>1. \A p \in Requirements :
        IssuedFor(reservations, p)' = IssuedFor(reservations', p)
  BY DEF IssuedFor
<1>2. QED
  BY <1>1 DEF ConsumptionAgrees

\* Every service consumes for a requirement what the abstract steps allow, or
\* nothing; and the two ways to tell go on agreeing.
LEMMA StoresStep ==
  ASSUME InventoryInv, ConsumptionAgrees, [Next]_inventoryVars
  PROVE  /\ ConsumptionAgrees'
         /\ Stores!ConsumptionNext \/ UNCHANGED <<orderStatus, Consumed>>
<1>0. \A p \in Requirements :
        /\ IssuedFor(reservations, p) \in Int /\ IssuedFor(reservations, p) >= 0
        /\ HeldFor(reservations, p) \in Int
        /\ NetConsumed(p) = IssuedFor(reservations, p)
        /\ IssuedFor(reservations, p) + HeldFor(reservations, p) <= Approved[p]
        /\ Approved[p] \in Nat
  <2> SUFFICES ASSUME NEW p \in Requirements
               PROVE  /\ IssuedFor(reservations, p) \in Int
                      /\ IssuedFor(reservations, p) >= 0
                      /\ HeldFor(reservations, p) \in Int
                      /\ NetConsumed(p) = IssuedFor(reservations, p)
                      /\ IssuedFor(reservations, p) + HeldFor(reservations, p)
                           <= Approved[p]
                      /\ Approved[p] \in Nat
    OBVIOUS
  <2>1. reservations \in [ReservationIds -> Reservation] /\ RowsWellFormed
    BY DEF InventoryInv, WellFormed, TypeOK
  <2>2. QED
    BY <2>1, RowBounds, ReservationTotals, InventoryAssumption
       DEF InventoryInv, DemandNotExceeded, ConsumptionAgrees
<1>1. ASSUME \A p \in Requirements :
               /\ IssuedFor(reservations', p) = IssuedFor(reservations, p)
               /\ NetConsumed(p)' = NetConsumed(p)
      PROVE  ConsumptionAgrees' /\ UNCHANGED Consumed
  <2>1. \A p \in Requirements :
          IssuedFor(reservations, p)' = IssuedFor(reservations', p)
    BY DEF IssuedFor
  <2>2. QED
    BY <1>1, <2>1 DEF ConsumptionAgrees, Consumed
<1>2. ASSUME NEW r \in ReservationIds, NEW n \in Quantities,
             NEW m \in MovementIds, IssueReservedStock(r, n, m)
      PROVE  ConsumptionAgrees' /\ Stores!ConsumptionNext
  <2>1. PICK q \in Requirements :
          /\ n \in 1..MaxQuantity
          /\ n <= HeldFor(reservations, q)
          /\ orderStatus[OrderOf[q]] \in IssuableStatuses
          /\ UNCHANGED orderStatus
          /\ \A p \in Requirements :
               LET x == IF p = q THEN n ELSE 0 IN
               /\ IssuedFor(reservations', p) = IssuedFor(reservations, p) + x
               /\ NetConsumed(p)' = NetConsumed(p) + x
    BY <1>2, IssueEffect
  <2>2. n \in Int /\ n > 0
    BY <2>1, InventoryAssumption
  <2>3. ConsumptionAgrees'
    <3> DEFINE d == [p \in Requirements |-> IF p = q THEN n ELSE 0]
    <3>1. \A p \in Requirements :
            /\ IssuedFor(reservations', p) = IssuedFor(reservations, p) + d[p]
            /\ NetConsumed(p)' = NetConsumed(p) + d[p]
      BY <2>1
    <3> HIDE DEF d
    <3>2. QED
      BY <3>1, BothChange
  <2>4. Consumed' = [Consumed EXCEPT ![q] = @ + n]
    <3>1. \A p \in Requirements :
            NetConsumed(p)' = IF p = q THEN NetConsumed(p) + n ELSE NetConsumed(p)
      BY <1>0, <2>1, <2>2
    <3>2. QED
      BY <3>1 DEF Consumed
  <2>5. n <= Approved[q] - Consumed[q] /\ n \in 1..Approved[q]
    <3>1. Consumed[q] = NetConsumed(q)
      BY DEF Consumed
    <3>2. QED
      BY <1>0, <2>1, <2>2, <3>1
  <2>6. Stores!Consume(q, n)
    BY <2>1, <2>4, <2>5
       DEF Stores!Consume, Stores!OpenForIssue, IssuableStatuses, Consumed
  <2>7. QED
    BY <2>3, <2>5, <2>6 DEF Stores!ConsumptionNext
<1>3. ASSUME NEW s \in MovementIds, NEW n \in Quantities,
             NEW m \in MovementIds, ReturnIssuedStock(s, n, m)
      PROVE  ConsumptionAgrees' /\ Stores!ConsumptionNext
  <2>1. PICK q \in Requirements :
          /\ n \in 1..MaxQuantity
          /\ n <= IssuedFor(reservations, q)
          /\ UNCHANGED orderStatus
          /\ \A p \in Requirements :
               LET x == IF p = q THEN n ELSE 0 IN
               /\ IssuedFor(reservations', p) = IssuedFor(reservations, p) - x
               /\ NetConsumed(p)' = NetConsumed(p) - x
    BY <1>3, ReturnEffect
  <2>2. n \in Int /\ n > 0
    BY <2>1, InventoryAssumption
  <2>3. ConsumptionAgrees'
    <3> DEFINE d == [p \in Requirements |-> IF p = q THEN 0 - n ELSE 0]
    <3>1. \A p \in Requirements :
            /\ IssuedFor(reservations', p) = IssuedFor(reservations, p) + d[p]
            /\ NetConsumed(p)' = NetConsumed(p) + d[p]
      BY <1>0, <2>1, <2>2
    <3> HIDE DEF d
    <3>2. QED
      BY <3>1, BothChange
  <2>4. Consumed' = [Consumed EXCEPT ![q] = @ - n]
    <3>1. \A p \in Requirements :
            NetConsumed(p)' = IF p = q THEN NetConsumed(p) - n ELSE NetConsumed(p)
      BY <1>0, <2>1, <2>2
    <3>2. QED
      BY <3>1 DEF Consumed
  <2>5. n <= Consumed[q] /\ n \in 1..Approved[q]
    <3>1. Consumed[q] = NetConsumed(q) /\ HeldFor(reservations, q) >= 0
      BY RowBounds DEF Consumed
    <3>2. QED
      BY <1>0, <2>1, <2>2, <3>1
  <2>6. Stores!GiveBack(q, n)
    BY <2>1, <2>4, <2>5 DEF Stores!GiveBack, Consumed
  <2>7. QED
    BY <2>3, <2>5, <2>6 DEF Stores!ConsumptionNext
<1>4. ASSUME NEW o \in Orders, WorkOrderMoves(o)
      PROVE  ConsumptionAgrees' /\ Stores!ConsumptionNext
  <2>1. ConsumptionAgrees' /\ UNCHANGED Consumed
    BY <1>4, NoStockMoved DEF WorkOrderMoves
  <2>2. Stores!OrderGoesOn(o)
    BY <1>4, <2>1 DEF WorkOrderMoves, Stores!OrderGoesOn, Stores!OrderMoves,
                      OrderMoves, Consumed
  <2>3. QED
    BY <2>1, <2>2 DEF Stores!ConsumptionNext
<1>5. ASSUME UNCHANGED <<orderStatus, reservations, ledger>>
      PROVE  ConsumptionAgrees' /\ UNCHANGED <<orderStatus, Consumed>>
  BY <1>5, NoStockMoved
<1>6. ASSUME NEW i \in Items, NEW n \in Quantities, NEW m \in MovementIds,
             \/ ReceiveStock(i, n, m)
             \/ \E kind \in {"ADJUSTMENT_IN", "ADJUSTMENT_OUT"} :
                  AdjustStock(i, kind, n, m)
      PROVE  ConsumptionAgrees' /\ UNCHANGED <<orderStatus, Consumed>>
  <2>1. PICK kind \in {"RECEIPT", "ADJUSTMENT_IN", "ADJUSTMENT_OUT"} :
          /\ Record(m, NewMovement(kind, i, n, 0, 0))
          /\ UNCHANGED <<reservations, orderStatus>>
    BY <1>6 DEF ReceiveStock, AdjustStock
  <2>2. \A p \in Requirements :
          /\ IssuedFor(reservations', p) = IssuedFor(reservations, p)
          /\ NetConsumed(p)' = NetConsumed(p)
    BY <2>1, BookedEffect
  <2>3. QED
    BY <1>1, <2>1, <2>2
<1>7. ASSUME NEW i \in Items, NEW q \in Requirements, NEW n \in Quantities,
             NEW r \in ReservationIds, ReserveStock(i, q, n, r)
      PROVE  ConsumptionAgrees' /\ UNCHANGED <<orderStatus, Consumed>>
  <2>1. \A p \in Requirements :
          /\ IssuedFor(reservations', p) = IssuedFor(reservations, p)
          /\ NetConsumed(p)' = NetConsumed(p)
    BY <1>7, ReserveEffect
  <2>2. UNCHANGED orderStatus
    BY <1>7 DEF ReserveStock
  <2>3. QED
    BY <1>1, <2>1, <2>2
<1>8. ASSUME NEW r \in ReservationIds, ReleaseStockReservation(r)
      PROVE  ConsumptionAgrees' /\ UNCHANGED <<orderStatus, Consumed>>
  <2>1. \A p \in Requirements :
          /\ IssuedFor(reservations', p) = IssuedFor(reservations, p)
          /\ NetConsumed(p)' = NetConsumed(p)
    BY <1>8, ReleaseEffect
  <2>2. UNCHANGED orderStatus
    BY <1>8 DEF ReleaseStockReservation
  <2>3. QED
    BY <1>1, <2>1, <2>2
<1>9. CASE UNCHANGED inventoryVars
  BY <1>5, <1>9 DEF inventoryVars
<1>10. CASE Next
  <2>1. ASSUME \/ \E l \in Locations : CreateStockLocation(l)
               \/ \E i \in Items : CreateInventoryItem(i)
               \/ \E p \in Products : ProductToggled(p)
        PROVE  UNCHANGED <<orderStatus, reservations, ledger>>
    BY <2>1 DEF CreateStockLocation, CreateInventoryItem, ProductToggled
  <2>2. QED
    BY <1>2, <1>3, <1>4, <1>5, <1>6, <1>7, <1>8, <1>10, <2>1 DEF Next
<1>11. QED
  BY <1>9, <1>10

\* Stock control gives billing what it relies on: stock is consumed up to the
\* approved quantity while the order is open for it, and given back.
THEOREM InventorySuppliesConsumption == Spec => ImplementsConsumption
<1>1. Init => ConsumptionAgrees /\ Stores!ConsumptionInit
  BY StoresInit
<1>2. InventoryInv /\ ConsumptionAgrees /\ [Next]_inventoryVars
        => ConsumptionAgrees'
  BY StoresStep
<1>3. InventoryInv /\ ConsumptionAgrees /\ [Next]_inventoryVars
        => [Stores!ConsumptionNext]_(Stores!consumptionVars)
  BY StoresStep DEF Stores!consumptionVars, Consumed
<1>4. QED
  BY <1>1, <1>2, <1>3, InventoryInvariant, PTL
     DEF Spec, ImplementsConsumption, Stores!ConsumptionSpec

-----------------------------------------------------------------------------
(* The pages *)

\* The pages of stock control only ask for what its services do.
LEMMA PagesAskServices == items \subseteq Items /\ PagesNext => Next
<1>0. SUFFICES ASSUME items \subseteq Items, PagesNext PROVE Next
  OBVIOUS
<1>1. ASSUME NEW u \in Staff, NEW l \in Locations, StockLocationCreate(u, l) PROVE Next
  BY <1>1 DEF StockLocationCreate, Next
<1>2. ASSUME NEW u \in Staff, InventoryItemCreate(u) PROVE Next
  BY <1>2 DEF InventoryItemCreate, InventoryItemForm, Next
<1>3. PositiveQuantities \subseteq Quantities
  BY DEF PositiveQuantities
<1>4. ASSUME NEW u \in Staff, NEW i \in Items, NEW m \in MovementIds,
             StockReceive(u, i, m) \/ StockAdjust(u, i, m)
      PROVE  Next
  BY <1>3, <1>4 DEF StockReceive, StockAdjust, AdjustStockForm, Next
<1>5. ASSUME NEW u \in Staff, NEW q \in Requirements, NEW r \in ReservationIds,
             StockReserve(u, q, r)
      PROVE  Next
  <2>1. PICK f \in ReserveStockForm(q) : ReserveStock(f[1], q, f[2], r)
    BY <1>5 DEF StockReserve
  <2>2. f[1] \in Items /\ f[2] \in Quantities
    BY <1>0, <1>3 DEF ReserveStockForm
  <2>3. QED
    BY <2>1, <2>2 DEF Next
<1>6. ASSUME NEW u \in Staff, NEW r \in ReservationIds, ReservationRelease(u, r)
      PROVE  Next
  BY <1>6 DEF ReservationRelease, Next
<1>7. ASSUME NEW u \in Staff, NEW r \in ReservationIds, NEW m \in MovementIds,
             StockIssue(u, r, m)
      PROVE  Next
  BY <1>3, <1>7 DEF StockIssue, Next
<1>8. ASSUME NEW u \in Staff, NEW s \in MovementIds, NEW m \in MovementIds,
             StockReturn(u, s, m)
      PROVE  Next
  BY <1>3, <1>8 DEF StockReturn, Next
<1>9. QED
  BY <1>0, <1>1, <1>2, <1>4, <1>5, <1>6, <1>7, <1>8 DEF PagesNext, Elsewhere, Next

LEMMA ItemsStayOnFile ==
  ASSUME items \subseteq Items, [Next]_inventoryVars
  PROVE  items' \subseteq Items
BY DEF Next, inventoryVars, CreateStockLocation, CreateInventoryItem, ReceiveStock,
       AdjustStock, ReserveStock, ReleaseStockReservation, IssueReservedStock,
       ReturnIssuedStock, WorkOrderMoves, ProductToggled

\* Whatever holds of the services holds of the pages that call them.
THEOREM PagesImplementServices == PagesSpec => Spec
<1>1. Init => items \subseteq Items
  BY DEF Init
<1>2. items \subseteq Items /\ [PagesNext]_inventoryVars => [Next]_inventoryVars
  BY PagesAskServices
<1>3. items \subseteq Items /\ [Next]_inventoryVars => (items \subseteq Items)'
  BY ItemsStayOnFile
<1>4. QED
  BY <1>1, <1>2, <1>3, PTL DEF PagesSpec, Spec

=============================================================================
