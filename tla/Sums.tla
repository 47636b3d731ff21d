-------------------------------- MODULE Sums --------------------------------
(***************************************************************************)
(* Totals over the rows of a table.  A table is a function whose keys are  *)
(* row numbers 1, 2, ...; the database's Sum("quantity") and the services' *)
(* sum(... for row in rows) are both Total(f, n), where f gives each row's *)
(* contribution and n bounds the row numbers.  The total is a recursive    *)
(* function along the row numbers (not a fold over a set), because that is *)
(* the form whose recursion equation ArithmeticProofs can establish.       *)
(***************************************************************************)
EXTENDS Integers

\* What row k contributes to a total of f: rows that do not exist add nothing.
Entry(f, k) == IF k \in DOMAIN f THEN f[k] ELSE 0

\* All the partial sums of f.
PartialSums(f) ==
  LET s[k \in Nat] == IF k = 0 THEN 0 ELSE s[k - 1] + Entry(f, k)
  IN  s

\* The sum of f over the rows 1..n.
Total(f, n) == PartialSums(f)[n]

=============================================================================
