-------------------------- MODULE ArithmeticProofs --------------------------
(***************************************************************************)
(* Facts about totals (Sums) and amounts (Money) that the invariance       *)
(* proofs cite.  The induction rules of the library take an operator       *)
(* parameter and cannot be instantiated; NatSet below is induction for a   *)
(* SET of numbers, obtained from the fact that < is well founded on Nat,   *)
(* and everything else about totals follows from it.  About amounts,       *)
(* rounding never turns less into more.                                    *)
(***************************************************************************)
EXTENDS Sums, Money, TLAPS, WellFoundedInduction

\* A table of integers: row numbers to contributions.
IsTable(f) == DOMAIN f \subseteq Nat /\ \A k \in DOMAIN f : f[k] \in Int

LessPairs == {p \in Nat \X Nat : p[1] < p[2]}

\* The order < on the natural numbers has no infinite descent.
LEMMA LessWellFounded == IsWellFoundedOn(LessPairs, Nat)
  BY NatLessThanWellFounded, Zenon DEF OpToRel, LessPairs

\* A set of natural numbers that holds any holds a least one.
LEMMA LeastNumber ==
  ASSUME NEW T \in SUBSET Nat, T # {}
  PROVE  \E x \in T : \A y \in T : x <= y
<1>1. PICK x \in T : \A y \in T : ~ (<<y, x>> \in LessPairs)
  BY LessWellFounded, WFMin, Zenon
<1>2. ASSUME NEW y \in T PROVE x <= y
  <2>1. <<y, x>> \in LessPairs <=> y < x
    BY DEF LessPairs
  <2>2. QED
    BY <1>1, <2>1
<1>3. QED
  BY <1>2

\* Induction for a set: a set of numbers that holds 0 and the successor of
\* each of its members holds every natural number.
LEMMA NatSet ==
  ASSUME NEW S \in SUBSET Nat, 0 \in S, \A n \in S : n + 1 \in S
  PROVE  S = Nat
<1> DEFINE T == Nat \ S
<1>1. SUFFICES ASSUME T # {} PROVE FALSE
  OBVIOUS
<1>2. PICK x \in T : \A y \in T : ~(<<y, x>> \in LessPairs)
  BY LessWellFounded, WFMin, <1>1, Zenon
<1>3. x \in Nat /\ x # 0 /\ x - 1 \in Nat
  OBVIOUS
<1>4. <<x - 1, x>> \in LessPairs
  BY <1>3 DEF LessPairs
<1>5. x - 1 \in S
  BY <1>2, <1>3, <1>4
<1>6. QED
  BY <1>5, <1>3

\* Approximations of the partial sums, defined on 0..n only.
Approx(f, n) ==
  {s \in [0..n -> Int] :
     s[0] = 0 /\ \A k \in 1..n : s[k] = s[k - 1] + Entry(f, k)}

LEMMA EntryInt ==
  ASSUME NEW f, IsTable(f), NEW k
  PROVE  Entry(f, k) \in Int
  BY DEF IsTable, Entry

\* Approximations of every length exist.
LEMMA ApproxExists ==
  ASSUME NEW f, IsTable(f)
  PROVE  \A n \in Nat : Approx(f, n) # {}
<1> DEFINE S == {n \in Nat : Approx(f, n) # {}}
<1>1. 0 \in S
  <2>1. [k \in 0..0 |-> 0] \in Approx(f, 0)
    BY DEF Approx
  <2>2. QED
    BY <2>1
<1>2. ASSUME NEW n \in S PROVE n + 1 \in S
  <2>1. PICK s : s \in Approx(f, n)
    OBVIOUS
  <2> DEFINE t == [k \in 0..(n + 1) |->
                     IF k = n + 1 THEN s[n] + Entry(f, k) ELSE s[k]]
  <2>2. s \in [0..n -> Int] /\ s[0] = 0
        /\ \A k \in 1..n : s[k] = s[k - 1] + Entry(f, k)
    BY <2>1 DEF Approx
  <2>3. t \in [0..(n + 1) -> Int]
    BY <2>2, EntryInt
  <2>4. t[0] = 0
    BY <2>2
  <2>5. ASSUME NEW k \in 1..(n + 1) PROVE t[k] = t[k - 1] + Entry(f, k)
    <3>1. CASE k = n + 1
      BY <3>1
    <3>2. CASE k # n + 1
      <4>1. k \in 1..n /\ k - 1 \in 0..n
        BY <3>2
      <4>2. QED
        BY <4>1, <2>2
    <3>3. QED
      BY <3>1, <3>2
  <2>6. t \in Approx(f, n + 1)
    BY <2>3, <2>4, <2>5 DEF Approx
  <2>7. QED
    BY <2>6
<1> HIDE DEF S
<1>3. S = Nat
  <2>1. S \in SUBSET Nat
    BY DEF S
  <2>2. QED
    BY <1>1, <1>2, <2>1, NatSet
<1>4. QED
  BY <1>3 DEF S

\* Two approximations agree wherever both are defined.
LEMMA ApproxAgree ==
  ASSUME NEW f, IsTable(f), NEW m \in Nat, NEW n \in Nat,
         NEW s \in Approx(f, m), NEW t \in Approx(f, n)
  PROVE  \A k \in Nat : k <= m /\ k <= n => s[k] = t[k]
<1> DEFINE S == {k \in Nat : k <= m /\ k <= n => s[k] = t[k]}
<1>1. 0 \in S
  BY DEF Approx
<1>2. ASSUME NEW k \in S PROVE k + 1 \in S
  <2>1. SUFFICES ASSUME k + 1 <= m, k + 1 <= n PROVE s[k + 1] = t[k + 1]
    OBVIOUS
  <2>2. s[k] = t[k]
    BY <2>1
  <2>3. k + 1 \in 1..m /\ k + 1 \in 1..n /\ (k + 1) - 1 = k
    BY <2>1
  <2>4. s[k + 1] = s[(k + 1) - 1] + Entry(f, k + 1)
    BY <2>3 DEF Approx
  <2>5. t[k + 1] = t[(k + 1) - 1] + Entry(f, k + 1)
    BY <2>3 DEF Approx
  <2>6. QED
    BY <2>2, <2>3, <2>4, <2>5
<1> HIDE DEF S
<1>3. S = Nat
  <2>1. S \in SUBSET Nat
    BY DEF S
  <2>2. QED
    BY <1>1, <1>2, <2>1, NatSet
<1>4. QED
  BY <1>3 DEF S

\* The recursion equation of PartialSums has a solution, so PartialSums(f)
\* satisfies it.
LEMMA PartialSumsEquation ==
  ASSUME NEW f, IsTable(f)
  PROVE  PartialSums(f) = [k \in Nat |->
           IF k = 0 THEN 0 ELSE PartialSums(f)[k - 1] + Entry(f, k)]
<1> DEFINE a(n) == CHOOSE s : s \in Approx(f, n)
           g == [k \in Nat |-> a(k)[k]]
           Eq(s) == s = [k \in Nat |-> IF k = 0 THEN 0 ELSE s[k - 1] + Entry(f, k)]
<1>1. \A n \in Nat : a(n) \in Approx(f, n)
  BY ApproxExists
<1>2. ASSUME NEW k \in Nat
      PROVE  g[k] = IF k = 0 THEN 0 ELSE g[k - 1] + Entry(f, k)
  <2>1. a(k) \in Approx(f, k)
    BY <1>1
  <2>2. CASE k = 0
    BY <2>1, <2>2 DEF Approx
  <2>3. CASE k # 0
    <3>1. k - 1 \in Nat /\ k \in 1..k
      BY <2>3
    <3>2. a(k - 1) \in Approx(f, k - 1)
      BY <1>1, <3>1
    <3>3. a(k)[k] = a(k)[k - 1] + Entry(f, k)
      BY <2>1, <3>1 DEF Approx
    <3>4. a(k)[k - 1] = a(k - 1)[k - 1]
      <4> HIDE DEF a
      <4>1. QED
        BY <2>1, <3>2, <3>1, ApproxAgree
    <3>5. QED
      BY <2>3, <3>1, <3>3, <3>4
  <2>4. QED
    BY <2>2, <2>3
<1>3. g = [k \in Nat |-> IF k = 0 THEN 0 ELSE g[k - 1] + Entry(f, k)]
  <2> HIDE DEF a
  <2>1. QED
    BY <1>2
<1>4. Eq(g)
  BY <1>3, Zenon
<1>5. PartialSums(f) = CHOOSE s : Eq(s)
  BY DEF PartialSums
<1> HIDE DEF g
<1>6. Eq(CHOOSE s : Eq(s))
  BY <1>4, Zenon
<1>7. QED
  BY <1>5, <1>6, Zenon
\* Total, one row at a time.
LEMMA TotalRec ==
  ASSUME NEW f, IsTable(f)
  PROVE  /\ Total(f, 0) = 0
         /\ \A n \in Nat : Total(f, n + 1) = Total(f, n) + Entry(f, n + 1)
<1> DEFINE p == PartialSums(f)
<1>1. p = [k \in Nat |-> IF k = 0 THEN 0 ELSE p[k - 1] + Entry(f, k)]
  BY PartialSumsEquation
<1> HIDE DEF p
<1>2. p[0] = 0
  BY <1>1
<1>3. ASSUME NEW n \in Nat PROVE p[n + 1] = p[n] + Entry(f, n + 1)
  <2>1. n + 1 \in Nat /\ n + 1 # 0 /\ (n + 1) - 1 = n
    OBVIOUS
  <2>2. p[n + 1] = p[(n + 1) - 1] + Entry(f, n + 1)
    BY <1>1, <2>1
  <2>3. QED
    BY <2>1, <2>2
<1>4. QED
  BY <1>2, <1>3 DEF Total, p

\* The total of a table of integers is an integer.
LEMMA TotalInt ==
  ASSUME NEW f, IsTable(f)
  PROVE  \A n \in Nat : Total(f, n) \in Int
<1> DEFINE S == {n \in Nat : Total(f, n) \in Int}
<1>1. 0 \in S
  BY TotalRec
<1>2. ASSUME NEW n \in S PROVE n + 1 \in S
  <2>1. Total(f, n + 1) = Total(f, n) + Entry(f, n + 1)
    BY TotalRec
  <2>2. QED
    BY <2>1, EntryInt
<1>3. S = Nat
  <2> HIDE DEF S
  <2>1. S \in SUBSET Nat
    BY DEF S
  <2>2. QED
    BY <1>1, <1>2, <2>1, NatSet
<1>4. QED
  BY <1>3

\* Two tables that agree row by row have the same total.
LEMMA TotalSame ==
  ASSUME NEW f, NEW g, IsTable(f), IsTable(g), NEW n \in Nat,
         \A k \in 1..n : Entry(f, k) = Entry(g, k)
  PROVE  Total(f, n) = Total(g, n)
<1> DEFINE S == {m \in Nat : m <= n => Total(f, m) = Total(g, m)}
<1>1. 0 \in S
  BY TotalRec
<1>2. ASSUME NEW m \in S PROVE m + 1 \in S
  <2>1. Total(f, m + 1) = Total(f, m) + Entry(f, m + 1)
    BY TotalRec
  <2>2. Total(g, m + 1) = Total(g, m) + Entry(g, m + 1)
    BY TotalRec
  <2>3. QED
    BY <2>1, <2>2
<1>3. S = Nat
  <2> HIDE DEF S
  <2>1. S \in SUBSET Nat
    BY DEF S
  <2>2. QED
    BY <1>1, <1>2, <2>1, NatSet
<1>4. QED
  BY <1>3

\* Changing row j alone changes the total by the change of that row.
LEMMA TotalChange ==
  ASSUME NEW f, NEW g, IsTable(f), IsTable(g), NEW n \in Nat, NEW j \in 1..n,
         \A k \in 1..n : k # j => Entry(f, k) = Entry(g, k)
  PROVE  Total(g, n) = Total(f, n) + Entry(g, j) - Entry(f, j)
<1> DEFINE S == {m \in Nat : m <= n =>
                   Total(g, m) = Total(f, m) +
                     (IF j <= m THEN Entry(g, j) - Entry(f, j) ELSE 0)}
<1>1. 0 \in S
  BY TotalRec
<1>2. ASSUME NEW m \in S PROVE m + 1 \in S
  <2>1. SUFFICES ASSUME m + 1 <= n
                 PROVE  Total(g, m + 1) = Total(f, m + 1) +
                          (IF j <= m + 1 THEN Entry(g, j) - Entry(f, j) ELSE 0)
    OBVIOUS
  <2>2. Total(f, m + 1) = Total(f, m) + Entry(f, m + 1)
    BY TotalRec
  <2>3. Total(g, m + 1) = Total(g, m) + Entry(g, m + 1)
    BY TotalRec
  <2>4. /\ Total(f, m) \in Int /\ Total(g, m) \in Int
        /\ Entry(f, m + 1) \in Int /\ Entry(g, m + 1) \in Int
        /\ Entry(f, j) \in Int /\ Entry(g, j) \in Int
    BY TotalInt, EntryInt
  <2>5. Total(g, m) = Total(f, m) + (IF j <= m THEN Entry(g, j) - Entry(f, j) ELSE 0)
    BY <2>1
  <2>6. CASE m + 1 = j
    BY <2>2, <2>3, <2>4, <2>5, <2>6
  <2>7. CASE m + 1 # j
    <3>1. Entry(f, m + 1) = Entry(g, m + 1)
      BY <2>1, <2>7
    <3>2. QED
      BY <2>2, <2>3, <2>4, <2>5, <2>7, <3>1
  <2>8. QED
    BY <2>6, <2>7
<1>3. S = Nat
  <2> HIDE DEF S
  <2>1. S \in SUBSET Nat
    BY DEF S
  <2>2. QED
    BY <1>1, <1>2, <2>1, NatSet
<1>4. n \in S
  BY <1>3
<1>5. Total(f, n) \in Int /\ Entry(f, j) \in Int /\ Entry(g, j) \in Int
  BY TotalInt, EntryInt
<1>6. QED
  BY <1>4, <1>5

\* The total of non-negative rows is at least each of them, and so at least 0.
LEMMA TotalBoundsRow ==
  ASSUME NEW f, IsTable(f), NEW n \in Nat, \A k \in 1..n : Entry(f, k) >= 0
  PROVE  /\ Total(f, n) >= 0
         /\ \A k \in 1..n : Entry(f, k) <= Total(f, n)
<1> DEFINE S == {m \in Nat : m <= n =>
                   /\ Total(f, m) >= 0
                   /\ \A k \in 1..m : Entry(f, k) <= Total(f, m)}
<1>1. 0 \in S
  BY TotalRec
<1>2. ASSUME NEW m \in S PROVE m + 1 \in S
  <2>1. SUFFICES ASSUME m + 1 <= n
                 PROVE  /\ Total(f, m + 1) >= 0
                        /\ \A k \in 1..(m + 1) : Entry(f, k) <= Total(f, m + 1)
    OBVIOUS
  <2>2. Total(f, m + 1) = Total(f, m) + Entry(f, m + 1)
    BY TotalRec
  <2>3. Total(f, m) \in Int /\ \A k \in 1..n : Entry(f, k) \in Int
    BY TotalInt, EntryInt
  <2>4. /\ Total(f, m) >= 0 /\ Entry(f, m + 1) >= 0
        /\ \A k \in 1..m : Entry(f, k) <= Total(f, m)
    BY <2>1
  <2>5. ASSUME NEW k \in 1..(m + 1) PROVE Entry(f, k) <= Total(f, m + 1)
    <3>1. Entry(f, k) \in Int /\ Entry(f, m + 1) \in Int
      BY EntryInt
    <3>2. CASE k = m + 1
      BY <2>2, <2>3, <2>4, <3>1, <3>2
    <3>3. CASE k # m + 1
      <4>1. k \in 1..m
        BY <3>3
      <4>2. QED
        BY <2>2, <2>3, <2>4, <3>1, <4>1
    <3>4. QED
      BY <3>2, <3>3
  <2>6. QED
    BY <2>2, <2>3, <2>4, <2>5, EntryInt
<1>3. S = Nat
  <2> HIDE DEF S
  <2>1. S \in SUBSET Nat
    BY DEF S
  <2>2. QED
    BY <1>1, <1>2, <2>1, NatSet
<1>4. QED
  BY <1>3

-----------------------------------------------------------------------------
(* The same facts for a table with rows 1..n, in the form the modules use.  *)

LEMMA TableEntries ==
  ASSUME NEW n \in Nat, NEW f \in [1..n -> Int]
  PROVE  /\ IsTable(f)
         /\ \A k \in 1..n : Entry(f, k) = f[k]
  BY DEF IsTable, Entry

\* The total of a table of integers is an integer.
LEMMA TableInt ==
  ASSUME NEW n \in Nat, NEW f \in [1..n -> Int]
  PROVE  Total(f, n) \in Int
  BY TableEntries, TotalInt

\* A table of zeros totals zero.
LEMMA TableZero ==
  ASSUME NEW n \in Nat, NEW f \in [1..n -> Int], \A k \in 1..n : f[k] = 0
  PROVE  Total(f, n) = 0
<1> DEFINE S == {m \in Nat : m <= n => Total(f, m) = 0}
<1>1. IsTable(f) /\ \A k \in 1..n : Entry(f, k) = 0
  BY TableEntries
<1>2. 0 \in S
  BY <1>1, TotalRec
<1>3. ASSUME NEW m \in S PROVE m + 1 \in S
  <2>1. Total(f, m + 1) = Total(f, m) + Entry(f, m + 1)
    BY <1>1, TotalRec
  <2>2. QED
    BY <1>1, <2>1
<1>4. S = Nat
  <2> HIDE DEF S
  <2>1. S \in SUBSET Nat
    BY DEF S
  <2>2. QED
    BY <1>2, <1>3, <2>1, NatSet
<1>5. QED
  BY <1>4

\* Changing row j changes the total by the change of that row.
LEMMA TableChange ==
  ASSUME NEW n \in Nat, NEW f \in [1..n -> Int], NEW g \in [1..n -> Int],
         NEW j \in 1..n, \A k \in 1..n : k # j => g[k] = f[k]
  PROVE  Total(g, n) = Total(f, n) + g[j] - f[j]
<1>1. IsTable(f) /\ IsTable(g)
  BY TableEntries
<1>2. \A k \in 1..n : Entry(f, k) = f[k] /\ Entry(g, k) = g[k]
  BY TableEntries
<1>3. \A k \in 1..n : k # j => Entry(f, k) = Entry(g, k)
  BY <1>2
<1>4. Total(g, n) = Total(f, n) + Entry(g, j) - Entry(f, j)
  BY <1>1, <1>3, TotalChange
<1>5. QED
  BY <1>2, <1>4

\* A table of non-negative rows totals at least each of its rows.
LEMMA TableBounds ==
  ASSUME NEW n \in Nat, NEW f \in [1..n -> Int], \A k \in 1..n : f[k] >= 0
  PROVE  /\ Total(f, n) >= 0
         /\ \A k \in 1..n : f[k] <= Total(f, n)
<1>1. IsTable(f) /\ \A k \in 1..n : Entry(f, k) = f[k]
  BY TableEntries
<1>2. QED
  BY <1>1, TotalBoundsRow

\* A table whose every row is at most another's has at most its total.
LEMMA TableMonotone ==
  ASSUME NEW n \in Nat, NEW f \in [1..n -> Int], NEW g \in [1..n -> Int],
         \A k \in 1..n : f[k] <= g[k]
  PROVE  Total(f, n) <= Total(g, n)
<1> DEFINE S == {m \in Nat : m <= n => Total(f, m) <= Total(g, m)}
<1>1. /\ IsTable(f) /\ IsTable(g)
      /\ \A k \in 1..n : Entry(f, k) = f[k] /\ Entry(g, k) = g[k]
  BY TableEntries
<1>2. 0 \in S
  BY <1>1, TotalRec
<1>3. ASSUME NEW m \in S PROVE m + 1 \in S
  <2>1. SUFFICES ASSUME m + 1 <= n
                 PROVE  Total(f, m + 1) <= Total(g, m + 1)
    OBVIOUS
  <2>2. /\ Total(f, m + 1) = Total(f, m) + Entry(f, m + 1)
        /\ Total(g, m + 1) = Total(g, m) + Entry(g, m + 1)
    BY <1>1, TotalRec
  <2>3. Entry(f, m + 1) = f[m + 1] /\ Entry(g, m + 1) = g[m + 1]
    BY <1>1, <2>1
  <2>4. /\ Total(f, m) \in Int /\ Total(g, m) \in Int
        /\ f[m + 1] \in Int /\ g[m + 1] \in Int /\ f[m + 1] <= g[m + 1]
    BY <1>1, <2>1, TotalInt
  <2>5. Total(f, m) <= Total(g, m)
    BY <2>1
  <2>6. QED
    BY <2>2, <2>3, <2>4, <2>5
<1>4. S = Nat
  <2> HIDE DEF S
  <2>1. S \in SUBSET Nat
    BY DEF S
  <2>2. QED
    BY <1>2, <1>3, <2>1, NatSet
<1>5. QED
  BY <1>4

-----------------------------------------------------------------------------
(* Amounts *)

\* Rounding to a thousandth or a ten-thousandth is monotone, never negative,
\* and moves whole units through unchanged.
LEMMA HalfUpThousand ==
  ASSUME NEW m \in Nat, NEW n \in Nat, m <= n
  PROVE  /\ HalfUp(m, 1000) \in Nat
         /\ HalfUp(m, 1000) <= HalfUp(n, 1000)
  BY DEF HalfUp

LEMMA HalfUpTenThousand ==
  ASSUME NEW m \in Nat, NEW n \in Nat, NEW k \in Nat, n <= m + 10000 * k
  PROVE  /\ HalfUp(m, 10000) \in Nat
         /\ HalfUp(n, 10000) <= HalfUp(m, 10000) + k
  BY DEF HalfUp

\* More of a product never costs less.
LEMMA LineTotalMonotone ==
  ASSUME NEW a \in Nat, NEW b \in Nat, a <= b, NEW price \in Nat
  PROVE  /\ LineTotal(a, price) \in Nat
         /\ LineTotal(a, price) <= LineTotal(b, price)
<1>1. a * price \in Nat /\ b * price \in Nat /\ a * price <= b * price
  OBVIOUS
<1>2. QED
  BY <1>1, HalfUpThousand DEF LineTotal

\* A percentage of an amount lies between nothing and the amount, and grows
\* with it, but never faster.
LEMMA PercentOfBounds ==
  ASSUME NEW a \in Nat, NEW b \in Nat, a <= b, NEW p \in Percentages
  PROVE  /\ PercentOf(a, p) \in 0..a
         /\ PercentOf(a, p) <= PercentOf(b, p)
         /\ PercentOf(b, p) - PercentOf(a, p) <= b - a
<1>1. p \in Nat /\ p <= 10000
  BY DEF Percentages
<1>2. PICK k \in Nat : b = a + k
  <2>1. b - a \in Nat /\ b = a + (b - a)
    OBVIOUS
  <2>2. QED
    BY <2>1
<1>3. /\ a * p \in Nat /\ b * p \in Nat /\ k * p \in Nat
      /\ b * p = a * p + k * p
      /\ k * p <= 10000 * k /\ a * p <= 10000 * a
  BY <1>1, <1>2
<1>4. HalfUp(b * p, 10000) <= HalfUp(a * p, 10000) + k
  <2>1. b * p <= a * p + 10000 * k
    BY <1>3
  <2>2. QED
    BY <1>3, <2>1, HalfUpTenThousand
<1>5. HalfUp(a * p, 10000) <= HalfUp(b * p, 10000) + 0
  <2>1. a * p <= b * p + 10000 * 0
    BY <1>3
  <2>2. QED
    BY <1>3, <2>1, HalfUpTenThousand
<1>6. HalfUp(a * p, 10000) <= HalfUp(0, 10000) + a
  <2>1. a * p <= 0 + 10000 * a
    BY <1>3
  <2>2. QED
    BY <1>3, <2>1, HalfUpTenThousand
<1>7. HalfUp(0, 10000) = 0
  BY DEF HalfUp
<1>8. HalfUp(a * p, 10000) \in Nat /\ HalfUp(b * p, 10000) \in Nat
  <2>1. a * p <= a * p + 10000 * 0 /\ b * p <= b * p + 10000 * 0
    BY <1>3
  <2>2. QED
    BY <1>3, <2>1, HalfUpTenThousand
<1>9. QED
  BY <1>2, <1>4, <1>5, <1>6, <1>7, <1>8 DEF PercentOf

\* The two copies of the formula agree.
LEMMA SameFormula ==
  ASSUME NEW subtotal, NEW discount, NEW tax
  PROVE  QuotationSum(subtotal, discount, tax)
           = InvoiceSum(subtotal, discount, tax)
  BY DEF QuotationSum, InvoiceSum, Taxable

\* An invoice over a smaller subtotal never comes to more, whatever the
\* discount and the tax and however each step rounds.
THEOREM InvoiceSumMonotone ==
  ASSUME NEW a \in Nat, NEW b \in Nat, a <= b,
         NEW discount \in Percentages, NEW tax \in Percentages
  PROVE  /\ InvoiceSum(a, discount, tax) \in Nat
         /\ InvoiceSum(a, discount, tax) <= InvoiceSum(b, discount, tax)
<1> DEFINE x == Taxable(a, discount)
           y == Taxable(b, discount)
<1>1. x \in Nat /\ y \in Nat /\ x <= y
  <2>1. /\ PercentOf(a, discount) \in 0..a
        /\ PercentOf(b, discount) - PercentOf(a, discount) <= b - a
    BY PercentOfBounds
  <2>2. PercentOf(b, discount) \in 0..b
    BY PercentOfBounds
  <2>3. QED
    BY <2>1, <2>2 DEF Taxable
<1> HIDE DEF x, y
<1>2. /\ PercentOf(x, tax) \in 0..x
      /\ PercentOf(x, tax) <= PercentOf(y, tax)
  BY <1>1, PercentOfBounds
<1>3. PercentOf(y, tax) \in 0..y
  BY <1>1, PercentOfBounds
<1>4. QED
  BY <1>1, <1>2, <1>3 DEF InvoiceSum, x, y

=============================================================================
