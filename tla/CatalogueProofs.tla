--------------------------- MODULE CatalogueProofs ---------------------------
(***************************************************************************)
(* What is on offer can be quoted, at one price at a time, for any items,  *)
(* prices and lengths of the history, whatever the clock does.             *)
(*                                                                         *)
(* The argument: a price change only touches the last period of a chain    *)
(* and adds one that begins where it ends (PriceChange); so an item that   *)
(* was ever offered has a current price, and the rest of what makes an     *)
(* offer usable is kept by the services that could take it away.           *)
(***************************************************************************)
EXTENDS Catalogue, SequenceTheorems, TLAPS

-----------------------------------------------------------------------------
(* The strengthening *)

\* A product is filed under a category from the day it is created.
Filed == \A p \in Products : status[p] # "ABSENT" => category[p] \in Categories

CatalogueInv == TypeOK /\ Filed /\ OnePriceAtATime /\ OffersUsable

\* Periods that follow each other, only the last of them open.
Chain(s) ==
  \A k \in DOMAIN s :
    /\ s[k].from < s[k].until
    /\ s[k].until = IF k = Len(s) THEN Forever ELSE s[k + 1].from

-----------------------------------------------------------------------------
(* One history *)

\* Only the last period is open.
LEMMA OpenIsLast ==
  ASSUME NEW s \in Seq(Period), Chain(s),
         NEW k \in DOMAIN s, s[k].until = Forever
  PROVE  k = Len(s)
<1>1. DOMAIN s = 1..Len(s) /\ Len(s) \in Nat /\ MaxTime \in Nat
  BY CatalogueAssumption
<1>2. SUFFICES ASSUME k # Len(s) PROVE FALSE
  OBVIOUS
<1>3. k + 1 \in 1..Len(s)
  BY <1>1, <1>2
<1>4. s[k + 1] \in Period
  BY <1>3
<1>5. s[k].until = s[k + 1].from
  BY <1>2 DEF Chain
<1>6. QED
  BY <1>1, <1>4, <1>5 DEF Period, Now, Forever

\* A chain, once it has begun, has an open period.
LEMMA LastIsOpen ==
  ASSUME NEW s \in Seq(Period), Chain(s), Len(s) > 0
  PROVE  /\ Len(s) \in DOMAIN s
         /\ s[Len(s)].until = Forever
<1>1. DOMAIN s = 1..Len(s) /\ Len(s) \in Nat
  OBVIOUS
<1>2. Len(s) \in DOMAIN s
  BY <1>1
<1>3. QED
  BY <1>2 DEF Chain

\* The first price is a chain of its own.
LEMMA FirstPeriod ==
  ASSUME NEW x \in Prices, NEW t \in Now
  PROVE  /\ <<From(x, t)>> \in Seq(Period)
         /\ Len(<<From(x, t)>>) = 1
         /\ Chain(<<From(x, t)>>)
<1>1. From(x, t) \in Period
  BY DEF From, Period
<1>2. t < Forever
  BY CatalogueAssumption DEF Now, Forever
<1>3. QED
  BY <1>1, <1>2 DEF From, Chain

\* Ending the open period at t and beginning another keeps the chain.
LEMMA PriceChange ==
  ASSUME NEW s \in Seq(Period), Chain(s),
         NEW x \in Prices, NEW t \in Now,
         NEW k \in DOMAIN s, s[k].until = Forever,
         NEW ended, ended = [s[k] EXCEPT !.until = t], Valid(ended),
         NEW n, n = Append([s EXCEPT ![k] = ended], From(x, t))
  PROVE  n \in Seq(Period) /\ Len(n) > 0 /\ Chain(n)
<1> DEFINE e == [s EXCEPT ![k] = ended]
<1>1. k = Len(s) /\ DOMAIN s = 1..Len(s) /\ Len(s) \in Nat /\ s[k] \in Period
  BY OpenIsLast
<1>2. ended \in Period /\ ended.from = s[k].from /\ ended.until = t
      /\ ended.from < t
  BY <1>1 DEF Period, Valid
<1>3. /\ e \in Seq(Period) /\ Len(e) = Len(s)
      /\ \A j \in 1..Len(s) : e[j] = IF j = k THEN ended ELSE s[j]
  BY <1>1, <1>2, ExceptSeq
<1>4. From(x, t) \in Period /\ From(x, t).from = t /\ From(x, t).until = Forever
  BY DEF From, Period
<1> HIDE DEF e
<1>5. /\ n \in Seq(Period) /\ Len(n) = Len(s) + 1
      /\ \A j \in 1..Len(s) : n[j] = e[j]
      /\ n[Len(s) + 1] = From(x, t)
  BY <1>3, <1>4, AppendProperties DEF e
<1>6. DOMAIN n = 1..(Len(s) + 1)
  BY <1>5
<1>7. t < Forever
  BY CatalogueAssumption DEF Now, Forever
<1>8. ASSUME NEW j \in DOMAIN n
      PROVE  /\ n[j].from < n[j].until
             /\ n[j].until = IF j = Len(n) THEN Forever ELSE n[j + 1].from
  <2>1. CASE j = Len(s) + 1
    BY <2>1, <1>4, <1>5, <1>7
  <2>2. CASE j = Len(s)
    <3>1. n[j] = ended /\ n[j + 1] = From(x, t) /\ j # Len(n)
      BY <2>2, <1>1, <1>3, <1>5
    <3>2. QED
      BY <3>1, <1>2, <1>4
  <2>3. CASE j \in 1..(Len(s) - 1)
    <3>1. j \in 1..Len(s) /\ j + 1 \in 1..Len(s) /\ j # k /\ j # Len(s)
          /\ j # Len(n)
      BY <2>3, <1>1, <1>5
    <3>2. n[j] = s[j] /\ n[j].from < n[j].until /\ n[j].until = s[j + 1].from
      BY <3>1, <1>1, <1>3, <1>5 DEF Chain
    <3>3. n[j + 1].from = s[j + 1].from
      BY <3>1, <1>1, <1>2, <1>3, <1>5
    <3>4. QED
      BY <3>1, <3>2, <3>3
  <2>4. QED
    BY <1>1, <1>6, <2>1, <2>2, <2>3
<1>9. QED
  BY <1>1, <1>5, <1>8 DEF Chain

-----------------------------------------------------------------------------
(* The invariant *)

\* The histories of all items, as chains.
LEMMA Histories ==
  OnePriceAtATime <=>
    \A i \in Items : /\ status[i] # "ABSENT" => Len(prices[i]) > 0
                     /\ Chain(prices[i])
BY DEF OnePriceAtATime, Chain

LEMMA HistoriesNext ==
  OnePriceAtATime' <=>
    \A i \in Items : /\ status'[i] # "ABSENT" => Len(prices'[i]) > 0
                     /\ Chain(prices'[i])
BY DEF OnePriceAtATime, Chain, Forever

\* Whatever has been on offer has a current price.
LEMMA HasPrice ==
  ASSUME TypeOK, OnePriceAtATime, NEW i \in Items, status[i] # "ABSENT"
  PROVE  Open(i) # {}
<1>1. /\ prices[i] \in Seq(Period) /\ Chain(prices[i])
      /\ Len(prices[i]) > 0
  BY Histories DEF TypeOK
<1>2. QED
  BY <1>1, LastIsOpen DEF Open

\* A category comes, or goes with no active product in it.
LEMMA CategoryKeeps ==
  ASSUME CatalogueInv, NEW c \in Categories, NEW s \in Statuses,
         CategoryBecomes(c, s),
         s # "ACTIVE"
           => ~ \E p \in Products : category[p] = c /\ status[p] = "ACTIVE"
  PROVE  CatalogueInv'
<1>1. TypeOK' /\ Filed'
  BY DEF CatalogueInv, CategoryBecomes, TypeOK, Filed
<1>2. OnePriceAtATime'
  BY DEF CatalogueInv, CategoryBecomes, OnePriceAtATime, Forever
<1>3. ASSUME NEW p \in Products, status'[p] = "ACTIVE"
      PROVE  categories'[category'[p]] = "ACTIVE"
  <2>1. /\ status[p] = "ACTIVE" /\ category[p] \in Categories
        /\ categories[category[p]] = "ACTIVE"
    BY <1>3 DEF CatalogueInv, CategoryBecomes, Filed, OffersUsable
  <2>2. QED
    BY <2>1 DEF CatalogueInv, CategoryBecomes, TypeOK
<1>4. OffersUsable'
  BY <1>3 DEF CatalogueInv, CategoryBecomes, OffersUsable, Open, Forever
<1>5. QED
  BY <1>1, <1>2, <1>4 DEF CatalogueInv

\* An item on file changes its status; what makes it usable is in place.
LEMMA StatusKeeps ==
  ASSUME CatalogueInv, NEW i \in Items, status[i] # "ABSENT",
         NEW s \in {"ACTIVE", "INACTIVE"}, StatusBecomes(i, s),
         s = "ACTIVE" => /\ i \in Products => categories[category[i]] = "ACTIVE"
                         /\ i \in Services => applies[i] # {}
  PROVE  CatalogueInv'
<1>1. /\ status' = [status EXCEPT ![i] = s] /\ status \in [Items -> Statuses]
      /\ UNCHANGED <<categories, category, applies, prices, clock>>
  BY DEF CatalogueInv, StatusBecomes, TypeOK
<1>2. TypeOK' /\ Filed'
  BY <1>1 DEF CatalogueInv, TypeOK, Filed, Statuses, Items
<1>3. OnePriceAtATime'
  BY <1>1 DEF CatalogueInv, OnePriceAtATime, Forever
<1>4. \A j \in Items : status'[j] = "ACTIVE" => Open(j)' # {}
  <2> SUFFICES ASSUME NEW j \in Items, status'[j] = "ACTIVE"
               PROVE  Open(j) # {}
    BY <1>1 DEF Open, Forever
  <2>1. status[j] # "ABSENT"
    BY <1>1
  <2>2. QED
    BY <2>1, HasPrice DEF CatalogueInv
<1>5. /\ \A p \in Products :
           status'[p] = "ACTIVE" => categories'[category'[p]] = "ACTIVE"
      /\ \A v \in Services : status'[v] = "ACTIVE" => applies'[v] # {}
  BY <1>1 DEF CatalogueInv, OffersUsable, Items
<1>6. QED
  BY <1>2, <1>3, <1>4, <1>5 DEF CatalogueInv, OffersUsable

\* A new item begins its history; nobody else's changes.
LEMMA FirstPriceKeeps ==
  ASSUME CatalogueInv, NEW i \in Items, NEW x \in Prices, FirstPrice(i, x),
         status' = [status EXCEPT ![i] = "ACTIVE"]
  PROVE  /\ status' \in [Items -> Statuses]
         /\ prices' \in [Items -> Seq(Period)]
         /\ OnePriceAtATime'
         /\ \A j \in Items : status'[j] = "ACTIVE" => Open(j)' # {}
<1> DEFINE first == <<From(x, clock)>>
<1>1. first \in Seq(Period) /\ Len(first) = 1 /\ Chain(first)
  BY FirstPeriod DEF CatalogueInv, TypeOK
<1> HIDE DEF first
<1>2. /\ status \in [Items -> Statuses] /\ prices \in [Items -> Seq(Period)]
      /\ prices' = [prices EXCEPT ![i] = first]
  BY DEF CatalogueInv, TypeOK, FirstPrice, first
<1>3. status' \in [Items -> Statuses] /\ prices' \in [Items -> Seq(Period)]
  BY <1>1, <1>2 DEF Statuses
<1>4. ASSUME NEW j \in Items
      PROVE  /\ status'[j] # "ABSENT" => Len(prices'[j]) > 0
             /\ Chain(prices'[j])
  <2>1. CASE j = i
    <3>1. prices'[j] = first
      BY <2>1, <1>2
    <3>2. QED
      BY <3>1, <1>1
  <2>2. CASE j # i
    <3>1. prices'[j] = prices[j] /\ status'[j] = status[j]
      BY <2>2, <1>2
    <3>2. QED
      BY <3>1, Histories DEF CatalogueInv
  <2>3. QED
    BY <2>1, <2>2
<1>5. ASSUME NEW j \in Items, status'[j] = "ACTIVE"
      PROVE  Open(j)' # {}
  <2>1. prices'[j] \in Seq(Period)
    BY <1>3
  <2>2. /\ Len(prices'[j]) \in DOMAIN prices'[j]
        /\ prices'[j][Len(prices'[j])].until = Forever
    BY <1>4, <1>5, <2>1, LastIsOpen
  <2>3. QED
    BY <2>2 DEF Open, Forever
<1>6. QED
  BY <1>3, <1>4, <1>5, HistoriesNext

LEMMA CreateProductKeeps ==
  ASSUME CatalogueInv, NEW p \in Products, NEW c \in Categories,
         NEW x \in Prices, CreateProduct(p, c, x)
  PROVE  CatalogueInv'
<1>1. /\ status' \in [Items -> Statuses] /\ prices' \in [Items -> Seq(Period)]
      /\ OnePriceAtATime'
      /\ \A j \in Items : status'[j] = "ACTIVE" => Open(j)' # {}
  BY FirstPriceKeeps DEF CreateProduct, Items
<1>2. TypeOK'
  BY <1>1 DEF CatalogueInv, CreateProduct, TypeOK
<1>3. Filed'
  BY DEF CatalogueInv, CreateProduct, TypeOK, Filed, Items
<1>4. /\ \A q \in Products :
           status'[q] = "ACTIVE" => categories'[category'[q]] = "ACTIVE"
      /\ \A v \in Services : status'[v] = "ACTIVE" => applies'[v] # {}
  BY CatalogueAssumption
     DEF CatalogueInv, CreateProduct, TypeOK, OffersUsable, Items
<1>5. QED
  BY <1>1, <1>2, <1>3, <1>4 DEF CatalogueInv, OffersUsable

LEMMA CreateServiceKeeps ==
  ASSUME CatalogueInv, NEW v \in Services, NEW kinds \in SUBSET VehicleKinds,
         NEW x \in Prices, CreateService(v, kinds, x)
  PROVE  CatalogueInv'
<1>1. /\ status' \in [Items -> Statuses] /\ prices' \in [Items -> Seq(Period)]
      /\ OnePriceAtATime'
      /\ \A j \in Items : status'[j] = "ACTIVE" => Open(j)' # {}
  BY FirstPriceKeeps DEF CreateService, Items
<1>2. TypeOK'
  BY <1>1 DEF CatalogueInv, CreateService, TypeOK
<1>3. Filed'
  BY CatalogueAssumption
     DEF CatalogueInv, CreateService, TypeOK, Filed, Items
<1>4. /\ \A q \in Products :
           status'[q] = "ACTIVE" => categories'[category'[q]] = "ACTIVE"
      /\ \A w \in Services : status'[w] = "ACTIVE" => applies'[w] # {}
  BY CatalogueAssumption
     DEF CatalogueInv, CreateService, TypeOK, OffersUsable, Items
<1>5. QED
  BY <1>1, <1>2, <1>3, <1>4 DEF CatalogueInv, OffersUsable

\* The period in force ends when the next begins.
LEMMA ChangePriceKeeps ==
  ASSUME CatalogueInv, NEW i \in Items, NEW x \in Prices, ChangePrice(i, x)
  PROVE  CatalogueInv'
<1>1. PICK k \in Open(i) :
        /\ Valid(Ended(i, k))
        /\ prices' = [prices EXCEPT
             ![i] = Append([@ EXCEPT ![k] = Ended(i, k)], From(x, clock))]
  BY DEF ChangePrice
<1> DEFINE n == Append([prices[i] EXCEPT ![k] = Ended(i, k)], From(x, clock))
<1>2. /\ prices[i] \in Seq(Period) /\ clock \in Now /\ Chain(prices[i])
      /\ k \in DOMAIN prices[i] /\ prices[i][k].until = Forever
  BY <1>1, Histories DEF CatalogueInv, TypeOK, Open
<1>3. Ended(i, k) = [prices[i][k] EXCEPT !.until = clock]
  BY DEF Ended
<1>4. n \in Seq(Period) /\ Len(n) > 0 /\ Chain(n)
  BY <1>1, <1>2, <1>3, PriceChange
<1> HIDE DEF n
<1>5. /\ prices \in [Items -> Seq(Period)]
      /\ prices' = [prices EXCEPT ![i] = n]
      /\ UNCHANGED <<categories, status, category, applies, clock>>
  BY <1>1 DEF CatalogueInv, TypeOK, ChangePrice, n
<1>6. TypeOK' /\ Filed'
  BY <1>4, <1>5 DEF CatalogueInv, TypeOK, Filed
<1>7. ASSUME NEW j \in Items
      PROVE  /\ status'[j] # "ABSENT" => Len(prices'[j]) > 0
             /\ Chain(prices'[j])
  BY <1>4, <1>5, Histories DEF CatalogueInv
<1>8. ASSUME NEW j \in Items, status'[j] = "ACTIVE"
      PROVE  Open(j)' # {}
  <2>1. prices'[j] \in Seq(Period)
    BY <1>6 DEF TypeOK
  <2>2. /\ Len(prices'[j]) \in DOMAIN prices'[j]
        /\ prices'[j][Len(prices'[j])].until = Forever
    BY <1>7, <1>8, <2>1, LastIsOpen
  <2>3. QED
    BY <2>2 DEF Open, Forever
<1>9. OnePriceAtATime' /\ OffersUsable'
  BY <1>5, <1>7, <1>8, HistoriesNext DEF CatalogueInv, OffersUsable
<1>10. QED
  BY <1>6, <1>9 DEF CatalogueInv

\* A product is filed elsewhere; a service is for other vehicles.
LEMMA UpdateProductKeeps ==
  ASSUME CatalogueInv, NEW p \in Products, NEW c \in Categories,
         UpdateProduct(p, c)
  PROVE  CatalogueInv'
<1>1. TypeOK' /\ Filed'
  BY DEF CatalogueInv, UpdateProduct, TypeOK, Filed
<1>2. OnePriceAtATime'
  BY DEF CatalogueInv, UpdateProduct, OnePriceAtATime, Forever
<1>3. \A q \in Products :
        status'[q] = "ACTIVE" => categories'[category'[q]] = "ACTIVE"
  BY DEF CatalogueInv, UpdateProduct, Movable, TypeOK, OffersUsable
<1>4. OffersUsable'
  BY <1>3 DEF CatalogueInv, UpdateProduct, OffersUsable, Open, Forever
<1>5. QED
  BY <1>1, <1>2, <1>4 DEF CatalogueInv

LEMMA UpdateServiceKeeps ==
  ASSUME CatalogueInv, NEW v \in Services, NEW kinds \in SUBSET VehicleKinds,
         UpdateService(v, kinds)
  PROVE  CatalogueInv'
<1>1. TypeOK' /\ Filed'
  BY DEF CatalogueInv, UpdateService, TypeOK, Filed
<1>2. OnePriceAtATime'
  BY DEF CatalogueInv, UpdateService, OnePriceAtATime, Forever
<1>3. \A w \in Services : status'[w] = "ACTIVE" => applies'[w] # {}
  BY DEF CatalogueInv, UpdateService, TypeOK, OffersUsable
<1>4. OffersUsable'
  BY <1>3 DEF CatalogueInv, UpdateService, OffersUsable, Open, Forever
<1>5. QED
  BY <1>1, <1>2, <1>4 DEF CatalogueInv

-----------------------------------------------------------------------------
(* Every page keeps the invariant *)

LEMMA CatalogueInitial == Init => CatalogueInv
<1> SUFFICES ASSUME Init PROVE CatalogueInv
  OBVIOUS
<1>1. TypeOK
  BY CatalogueAssumption DEF Init, TypeOK, Statuses, Now
<1>2. QED
  BY <1>1 DEF Init, CatalogueInv, Filed, OnePriceAtATime, OffersUsable, Items

\* A page about a category.
LEMMA CategoryPages ==
  ASSUME CatalogueInv, NEW u \in Staff, NEW c \in Categories,
         \/ ProductCategoryCreate(u, c)
         \/ ProductCategoryDeactivate(u, c)
         \/ ProductCategoryReactivate(u, c)
  PROVE  CatalogueInv'
BY CategoryKeeps
   DEF ProductCategoryCreate, ProductCategoryDeactivate,
       ProductCategoryReactivate, CreateProductCategory,
       DeactivateProductCategory, ReactivateProductCategory, Statuses

\* A page about a product.
LEMMA ProductPages ==
  ASSUME CatalogueInv, NEW u \in Staff, NEW p \in Products,
         \/ ProductCreate(u, p) \/ ProductUpdate(u, p)
         \/ ProductChangePrice(u, p)
         \/ ProductDeactivate(u, p) \/ ProductReactivate(u, p)
  PROVE  CatalogueInv'
<1>1. p \in Items /\ p \notin Services /\ CategoriesOffered \subseteq Categories
  BY CatalogueAssumption DEF Items, CategoriesOffered
<1>2. CASE ProductCreate(u, p)
  BY <1>1, <1>2, CreateProductKeeps DEF ProductCreate
<1>3. CASE ProductUpdate(u, p)
  BY <1>1, <1>3, UpdateProductKeeps DEF ProductUpdate
<1>4. CASE ProductChangePrice(u, p)
  BY <1>1, <1>4, ChangePriceKeeps DEF ProductChangePrice
<1>5. CASE ProductDeactivate(u, p)
  BY <1>1, <1>5, StatusKeeps DEF ProductDeactivate, DeactivateProduct
<1>6. CASE ProductReactivate(u, p)
  BY <1>1, <1>6, StatusKeeps DEF ProductReactivate, ReactivateProduct
<1>7. QED
  BY <1>2, <1>3, <1>4, <1>5, <1>6

\* A page about a service.
LEMMA ServicePages ==
  ASSUME CatalogueInv, NEW u \in Staff, NEW v \in Services,
         \/ ServiceCreate(u, v) \/ ServiceUpdate(u, v)
         \/ ServiceChangePrice(u, v)
         \/ ServiceDeactivate(u, v) \/ ServiceReactivate(u, v)
  PROVE  CatalogueInv'
<1>1. v \in Items /\ v \notin Products /\ KindsForm \subseteq SUBSET VehicleKinds
  BY CatalogueAssumption DEF Items, KindsForm
<1>2. CASE ServiceCreate(u, v)
  BY <1>1, <1>2, CreateServiceKeeps DEF ServiceCreate
<1>3. CASE ServiceUpdate(u, v)
  BY <1>1, <1>3, UpdateServiceKeeps DEF ServiceUpdate
<1>4. CASE ServiceChangePrice(u, v)
  BY <1>1, <1>4, ChangePriceKeeps DEF ServiceChangePrice
<1>5. CASE ServiceDeactivate(u, v)
  BY <1>1, <1>5, StatusKeeps DEF ServiceDeactivate, DeactivateService
<1>6. CASE ServiceReactivate(u, v)
  BY <1>1, <1>6, StatusKeeps DEF ServiceReactivate, ReactivateService
<1>7. QED
  BY <1>2, <1>3, <1>4, <1>5, <1>6

LEMMA CatalogueStep ==
  CatalogueInv /\ [Next]_catalogueVars => CatalogueInv'
<1> SUFFICES ASSUME CatalogueInv, [Next]_catalogueVars PROVE CatalogueInv'
  OBVIOUS
<1>1. CASE ClockMoves \/ UNCHANGED catalogueVars
  <2>1. TypeOK' /\ Filed'
    BY <1>1 DEF CatalogueInv, ClockMoves, catalogueVars, TypeOK, Filed
  <2>2. OnePriceAtATime' /\ OffersUsable'
    BY <1>1 DEF CatalogueInv, ClockMoves, catalogueVars, OnePriceAtATime,
                OffersUsable, Open, Forever
  <2>3. QED
    BY <2>1, <2>2 DEF CatalogueInv
<1>2. CASE Next
  BY <1>1, <1>2, CategoryPages, ProductPages, ServicePages DEF Next
<1>3. QED
  BY <1>1, <1>2

-----------------------------------------------------------------------------

\* The inductive invariant: rows are well formed, products filed, histories
\* are chains and offers usable.
THEOREM CatalogueInvariant == Spec => []CatalogueInv
BY CatalogueInitial, CatalogueStep, PTL DEF Spec

\* Every table holds well-formed rows.
THEOREM CatalogueTyped == Spec => []TypeOK
<1>1. CatalogueInv => TypeOK
  BY DEF CatalogueInv
<1>2. QED
  BY <1>1, CatalogueInvariant, PTL

\* Whatever is on offer can be quoted, however products are moved, withdrawn
\* and brought back and their categories closed.
THEOREM OffersStayUsable == Spec => []OffersUsable
<1>1. CatalogueInv => OffersUsable
  BY DEF CatalogueInv
<1>2. QED
  BY <1>1, CatalogueInvariant, PTL

\* From its first offer on, an item has exactly one price at any time,
\* however often prices change and whatever the clock shows.
THEOREM OnePriceAlways == Spec => []OnePriceAtATime
<1>1. CatalogueInv => OnePriceAtATime
  BY DEF CatalogueInv
<1>2. QED
  BY <1>1, CatalogueInvariant, PTL

-----------------------------------------------------------------------------
(* What was charged stays on record *)

\* Periods are never removed or rewritten; one still open may only be ended.
PastStands ==
  [][\A i \in Items : \A k \in DOMAIN prices[i] :
       /\ k \in DOMAIN prices'[i]
       /\ prices'[i][k].price = prices[i][k].price
       /\ prices'[i][k].from = prices[i][k].from
       /\ prices[i][k].until # Forever
            => prices'[i][k].until = prices[i][k].until]_catalogueVars

\* What is not on file yet has no prices that its first one would replace.
Unpriced == \A i \in Items : status[i] = "ABSENT" => prices[i] = <<>>

\* The ways in which a step may touch the histories.
LEMMA HistorySteps ==
  ASSUME CatalogueInv, [Next]_catalogueVars
  PROVE  \/ /\ prices' = prices
            /\ \A i \in Items : status'[i] = "ABSENT" => status[i] = "ABSENT"
         \/ \E i \in Items, x \in Prices : ChangePrice(i, x)
         \/ \E i \in Items, x \in Prices :
              /\ FirstPrice(i, x)
              /\ status[i] = "ABSENT" /\ status' = [status EXCEPT ![i] = "ACTIVE"]
<1>1. ASSUME NEW u \in Staff, NEW c \in Categories,
             \/ ProductCategoryCreate(u, c)
             \/ ProductCategoryDeactivate(u, c)
             \/ ProductCategoryReactivate(u, c)
      PROVE  prices' = prices /\ status' = status
  BY <1>1 DEF ProductCategoryCreate, ProductCategoryDeactivate, ProductCategoryReactivate,
              CreateProductCategory, DeactivateProductCategory, ReactivateProductCategory,
              CategoryBecomes
<1>2. ASSUME NEW i \in Items, NEW s \in {"ACTIVE", "INACTIVE"}, StatusBecomes(i, s)
      PROVE  /\ prices' = prices
             /\ \A j \in Items : status'[j] = "ABSENT" => status[j] = "ABSENT"
  BY <1>2 DEF StatusBecomes, CatalogueInv, TypeOK
<1>3. ASSUME NEW u \in Staff, NEW p \in Products,
             ProductDeactivate(u, p) \/ ProductReactivate(u, p)
      PROVE  \E i \in Items, s \in {"ACTIVE", "INACTIVE"} : StatusBecomes(i, s)
  BY <1>3 DEF ProductDeactivate, DeactivateProduct, ProductReactivate, ReactivateProduct, Items
<1>4. ASSUME NEW u \in Staff, NEW v \in Services,
             ServiceDeactivate(u, v) \/ ServiceReactivate(u, v)
      PROVE  \E i \in Items, s \in {"ACTIVE", "INACTIVE"} : StatusBecomes(i, s)
  BY <1>4 DEF ServiceDeactivate, DeactivateService, ServiceReactivate, ReactivateService, Items
<1>5. ASSUME NEW u \in Staff,
             \/ \E p \in Products : ProductUpdate(u, p)
             \/ \E v \in Services : ServiceUpdate(u, v)
      PROVE  prices' = prices /\ status' = status
  BY <1>5 DEF ProductUpdate, UpdateProduct, ServiceUpdate, UpdateService
<1>6. ASSUME NEW u \in Staff,
             \/ \E p \in Products : ProductChangePrice(u, p)
             \/ \E v \in Services : ServiceChangePrice(u, v)
      PROVE  \E i \in Items, x \in Prices : ChangePrice(i, x)
  BY <1>6 DEF ProductChangePrice, ServiceChangePrice, Items
<1>7. ASSUME NEW u \in Staff,
             \/ \E p \in Products : ProductCreate(u, p)
             \/ \E v \in Services : ServiceCreate(u, v)
      PROVE  \E i \in Items, x \in Prices :
               /\ FirstPrice(i, x)
               /\ status[i] = "ABSENT" /\ status' = [status EXCEPT ![i] = "ACTIVE"]
  BY <1>7 DEF ProductCreate, CreateProduct, ServiceCreate, CreateService, Items
<1>8. CASE ClockMoves \/ UNCHANGED catalogueVars
  BY <1>8 DEF ClockMoves, catalogueVars
<1>9. CASE Next
  BY <1>1, <1>2, <1>3, <1>4, <1>5, <1>6, <1>7, <1>8, <1>9 DEF Next
<1>10. QED
  BY <1>8, <1>9

\* A price change keeps every period, ending only the open one.
LEMMA ChangeKeepsPast ==
  ASSUME CatalogueInv, NEW i \in Items, NEW x \in Prices, ChangePrice(i, x),
         NEW j \in Items, NEW k \in DOMAIN prices[j]
  PROVE  /\ k \in DOMAIN prices'[j]
         /\ prices'[j][k].price = prices[j][k].price
         /\ prices'[j][k].from = prices[j][k].from
         /\ prices[j][k].until # Forever => prices'[j][k].until = prices[j][k].until
<1>1. PICK o \in Open(i) :
        prices' = [prices EXCEPT
          ![i] = Append([@ EXCEPT ![o] = Ended(i, o)], From(x, clock))]
  BY DEF ChangePrice
<1> DEFINE s == prices[i]
           e == [s EXCEPT ![o] = Ended(i, o)]
           n == Append(e, From(x, clock))
<1>2. /\ prices \in [Items -> Seq(Period)] /\ s \in Seq(Period)
      /\ o \in DOMAIN s /\ s[o].until = Forever /\ s[o] \in Period /\ clock \in Now
  BY DEF CatalogueInv, TypeOK, Open
<1>3. /\ Ended(i, o) \in Period
      /\ Ended(i, o).price = s[o].price /\ Ended(i, o).from = s[o].from
  BY <1>2 DEF Ended, Period
<1>4. prices' = [prices EXCEPT ![i] = n]
  BY <1>1
<1>5. /\ e \in Seq(Period) /\ Len(e) = Len(s)
      /\ \A m \in 1..Len(s) : e[m] = IF m = o THEN Ended(i, o) ELSE s[m]
  BY <1>2, <1>3, ExceptSeq
<1>6. From(x, clock) \in Period
  BY <1>2 DEF From, Period
<1> HIDE DEF e
<1>7. /\ n \in Seq(Period) /\ Len(n) = Len(s) + 1
      /\ \A m \in 1..Len(s) : n[m] = e[m]
  BY <1>5, <1>6, AppendProperties
<1> HIDE DEF n
<1>8. CASE j # i
  BY <1>2, <1>4, <1>8
<1>9. CASE j = i
  <2>1. k \in 1..Len(s) /\ k \in DOMAIN n /\ prices'[j] = n
    BY <1>2, <1>4, <1>7, <1>9
  <2>2. n[k] = IF k = o THEN Ended(i, o) ELSE s[k]
    BY <1>5, <1>7, <2>1
  <2>3. QED
    BY <1>2, <1>3, <1>9, <2>1, <2>2
<1>10. QED
  BY <1>8, <1>9

\* What an item cost at a time that is over is never changed: no service
\* removes a period of a history, rewrites it, or ends it a second time.
THEOREM PastPricesStand == Spec => PastStands
<1>1. Init => Unpriced
  BY DEF Init, Unpriced
<1>2. CatalogueInv /\ Unpriced /\ [Next]_catalogueVars => Unpriced'
  <2> SUFFICES ASSUME CatalogueInv, Unpriced, [Next]_catalogueVars,
                      NEW j \in Items, status'[j] = "ABSENT"
               PROVE  prices'[j] = <<>>
    BY DEF Unpriced
  <2>1. ASSUME NEW i \in Items, NEW x \in Prices, ChangePrice(i, x)
        PROVE  i # j /\ status'[j] = status[j] /\ prices'[j] = prices[j]
    <3>1. status' = status /\ status[i] = "ACTIVE"
      BY <2>1 DEF ChangePrice
    <3>2. i # j
      BY <3>1
    <3>3. QED
      BY <2>1, <3>1, <3>2 DEF ChangePrice, CatalogueInv, TypeOK
  <2>2. ASSUME NEW i \in Items, NEW x \in Prices, FirstPrice(i, x),
               status' = [status EXCEPT ![i] = "ACTIVE"]
        PROVE  status'[j] = status[j] /\ prices'[j] = prices[j]
    BY <2>2 DEF FirstPrice, CatalogueInv, TypeOK
  <2>3. QED
    BY <2>1, <2>2, HistorySteps DEF Unpriced
<1>3. ASSUME CatalogueInv, Unpriced, [Next]_catalogueVars,
             NEW j \in Items, NEW k \in DOMAIN prices[j]
      PROVE  /\ k \in DOMAIN prices'[j]
             /\ prices'[j][k].price = prices[j][k].price
             /\ prices'[j][k].from = prices[j][k].from
             /\ prices[j][k].until # Forever => prices'[j][k].until = prices[j][k].until
  <2>1. ASSUME NEW i \in Items, NEW x \in Prices, FirstPrice(i, x), status[i] = "ABSENT"
        PROVE  prices'[j] = prices[j]
    <3>1. prices[i] = <<>>
      BY <1>3, <2>1 DEF Unpriced
    <3>2. i # j
      BY <1>3, <3>1
    <3>3. QED
      BY <1>3, <2>1, <3>2 DEF FirstPrice, CatalogueInv, TypeOK
  <2>2. CASE \E i \in Items, x \in Prices : ChangePrice(i, x)
    BY <1>3, <2>2, ChangeKeepsPast
  <2>3. CASE prices'[j] = prices[j]
    BY <1>3, <2>3
  <2>4. QED
    BY <1>3, <2>1, <2>2, <2>3, HistorySteps
<1>4. CatalogueInv /\ Unpriced /\ [Next]_catalogueVars =>
        [\A i \in Items : \A k \in DOMAIN prices[i] :
           /\ k \in DOMAIN prices'[i]
           /\ prices'[i][k].price = prices[i][k].price
           /\ prices'[i][k].from = prices[i][k].from
           /\ prices[i][k].until # Forever
                => prices'[i][k].until = prices[i][k].until]_catalogueVars
  BY <1>3
<1>5. QED
  BY <1>1, <1>2, <1>4, CatalogueInvariant, PTL DEF Spec, PastStands

=============================================================================
