----------------------------- MODULE Catalogue -----------------------------
(***************************************************************************)
(* What the garage offers (apps/product_catalogue, apps/service_catalogue):*)
(* products in categories, services with the kinds of vehicle they are     *)
(* for, and the prices of both, each a period of a history that is kept.   *)
(* The two applications keep prices in the same way, by copies of the same *)
(* code.                                                                   *)
(*                                                                         *)
(* A service is one transaction that locks the item before anything of it  *)
(* is read, and then the category: one action.  Periods are stamped with   *)
(* the server's clock, which runs on between transactions and may be set   *)
(* back.  Left out are codes, names and descriptions; a price stands for   *)
(* an amount with its currency.                                            *)
(***************************************************************************)
EXTENDS Policy, Naturals, Sequences

CONSTANTS
  Categories,      \* product categories
  Products,
  Services,
  VehicleKinds,    \* what a service may be for
  Prices,
  MaxPeriods,      \* bounds: periods of one item's price history
  MaxTime,         \* and what the clock shows
  None             \* a NULL foreign key

Items == Products \cup Services

ASSUME CatalogueAssumption ==
  /\ Products \cap Services = {}
  /\ None \notin Categories
  /\ MaxTime \in Nat
  /\ MaxPeriods \in Nat \ {0}

Now     == 0..MaxTime
Forever == MaxTime + 1   \* effective_until is NULL

VARIABLES
  categories,   \* category -> its status
  status,       \* product or service -> its status
  category,     \* product -> its category
  applies,      \* service -> the kinds of vehicle it is for
  prices,       \* item -> its price periods, oldest first
  clock         \* timezone.now()

catalogueVars == <<categories, status, category, applies, prices, clock>>

Statuses == {"ABSENT", "ACTIVE", "INACTIVE"}

Period == [price : Prices, from : Now, until : Now \cup {Forever}]

-----------------------------------------------------------------------------
(* Prices *)

\* get_current_product_price, get_current_service_price; the partial unique
\* index product_one_current_price (service_one_...) allows only one.
Open(i) == {k \in DOMAIN prices[i] : prices[i][k].until = Forever}

\* Mutant: the period may end when it began, or before.
ValidWhenever(period) == TRUE

\* ProductPrice.clean, ServicePrice.clean.
Valid(period) == period.until > period.from

From(price, t) == [price |-> price, from |-> t, until |-> Forever]

FirstPrice(i, price) == prices' = [prices EXCEPT ![i] = <<From(price, clock)>>]

\* The period in force ends at the moment the new one begins.
Ended(i, k) == [prices[i][k] EXCEPT !.until = clock]

\* (Without an open period the code would just begin one; an active item
\* always has one, by OffersUsable.)
ChangePrice(i, price) ==
  /\ status[i] = "ACTIVE"
  /\ Len(prices[i]) < MaxPeriods
  /\ \E k \in Open(i) :
       /\ prices[i][k].price # price
       /\ Valid(Ended(i, k))
       /\ prices' = [prices EXCEPT
            ![i] = Append([@ EXCEPT ![k] = Ended(i, k)], From(price, clock))]
  /\ UNCHANGED <<categories, status, category, applies, clock>>

-----------------------------------------------------------------------------
(* Product categories *)

CategoryBecomes(c, s) ==
  /\ categories' = [categories EXCEPT ![c] = s]
  /\ UNCHANGED <<status, category, applies, prices, clock>>

CreateProductCategory(c) ==
  categories[c] = "ABSENT" /\ CategoryBecomes(c, "ACTIVE")

DeactivateProductCategory(c) ==
  /\ categories[c] = "ACTIVE"
  /\ ~ \E p \in Products : category[p] = c /\ status[p] = "ACTIVE"
  /\ CategoryBecomes(c, "INACTIVE")

ReactivateProductCategory(c) ==
  categories[c] = "INACTIVE" /\ CategoryBecomes(c, "ACTIVE")

-----------------------------------------------------------------------------
(* Products *)

StatusBecomes(i, s) ==
  /\ status' = [status EXCEPT ![i] = s]
  /\ UNCHANGED <<categories, category, applies, prices, clock>>

CreateProduct(p, c, price) ==
  /\ status[p] = "ABSENT"
  /\ categories[c] = "ACTIVE"
  /\ status' = [status EXCEPT ![p] = "ACTIVE"]
  /\ category' = [category EXCEPT ![p] = c]
  /\ FirstPrice(p, price)
  /\ UNCHANGED <<categories, applies, clock>>

\* Mutant: the category is only checked for products that are out of use.
MovableAnywhere(p, c) == status[p] = "INACTIVE" => categories[c] = "ACTIVE"

\* An inactive product may be filed under an inactive category.
Movable(p, c) == status[p] = "ACTIVE" => categories[c] = "ACTIVE"

UpdateProduct(p, c) ==
  /\ status[p] # "ABSENT"
  /\ categories[c] # "ABSENT"
  /\ Movable(p, c)
  /\ category' = [category EXCEPT ![p] = c]
  /\ UNCHANGED <<categories, status, applies, prices, clock>>

ReactivateProduct(p) ==
  /\ status[p] = "INACTIVE"
  /\ categories[category[p]] = "ACTIVE"
  /\ Open(p) # {}
  /\ StatusBecomes(p, "ACTIVE")

-----------------------------------------------------------------------------
(* Services, and what both have in common *)

CreateService(s, kinds, price) ==
  /\ status[s] = "ABSENT"
  /\ kinds # {}
  /\ status' = [status EXCEPT ![s] = "ACTIVE"]
  /\ applies' = [applies EXCEPT ![s] = kinds]
  /\ FirstPrice(s, price)
  /\ UNCHANGED <<categories, category, clock>>

UpdateService(s, kinds) ==
  /\ status[s] # "ABSENT"
  /\ kinds # {}
  /\ applies' = [applies EXCEPT ![s] = kinds]
  /\ UNCHANGED <<categories, status, category, prices, clock>>

ReactivateService(s) ==
  /\ status[s] = "INACTIVE"
  /\ applies[s] # {}
  /\ Open(s) # {}
  /\ StatusBecomes(s, "ACTIVE")

DeactivateProduct(p) == status[p] = "ACTIVE" /\ StatusBecomes(p, "INACTIVE")
DeactivateService(s) == status[s] = "ACTIVE" /\ StatusBecomes(s, "INACTIVE")

-----------------------------------------------------------------------------
(* The pages *)

ProductCategoryCreate(u, c) ==
  May(u, "add_productcategory") /\ CreateProductCategory(c)

ProductCategoryDeactivate(u, c) ==
  May(u, "change_productcategory") /\ DeactivateProductCategory(c)

ProductCategoryReactivate(u, c) ==
  May(u, "change_productcategory") /\ ReactivateProductCategory(c)

\* The form lists active categories, and next to them the one the product is
\* in.  It was checked before the transaction began: by now any category on
\* file may be the one chosen.
CategoriesOffered == {c \in Categories : categories[c] # "ABSENT"}

\* At least one kind of vehicle.
KindsForm == (SUBSET VehicleKinds) \ {{}}

ProductCreate(u, p) ==
  /\ May(u, "add_product")
  /\ \E c \in CategoriesOffered, x \in Prices : CreateProduct(p, c, x)

ProductUpdate(u, p) ==
  /\ May(u, "change_product")
  /\ \E c \in CategoriesOffered : UpdateProduct(p, c)

ProductChangePrice(u, p) ==
  May(u, "change_product_price") /\ \E x \in Prices : ChangePrice(p, x)

ProductDeactivate(u, p) ==
  May(u, "deactivate_product") /\ DeactivateProduct(p)

ProductReactivate(u, p) ==
  May(u, "reactivate_product") /\ ReactivateProduct(p)

ServiceCreate(u, s) ==
  /\ May(u, "add_service")
  /\ \E kinds \in KindsForm, x \in Prices : CreateService(s, kinds, x)

ServiceUpdate(u, s) ==
  /\ May(u, "change_service")
  /\ \E kinds \in KindsForm : UpdateService(s, kinds)

ServiceChangePrice(u, s) ==
  May(u, "change_service_price") /\ \E x \in Prices : ChangePrice(s, x)

ServiceDeactivate(u, s) ==
  May(u, "deactivate_service") /\ DeactivateService(s)

ServiceReactivate(u, s) ==
  May(u, "reactivate_service") /\ ReactivateService(s)

-----------------------------------------------------------------------------

\* Time passes, or somebody sets the server's clock.
ClockMoves ==
  /\ clock' \in Now
  /\ UNCHANGED <<categories, status, category, applies, prices>>

Init ==
  /\ categories = [c \in Categories |-> "ABSENT"]
  /\ status     = [i \in Items |-> "ABSENT"]
  /\ category   = [p \in Products |-> None]
  /\ applies    = [s \in Services |-> {}]
  /\ prices     = [i \in Items |-> <<>>]
  /\ clock      = 0

Next ==
  \/ \E u \in Staff :
       \/ \E c \in Categories :
            \/ ProductCategoryCreate(u, c)
            \/ ProductCategoryDeactivate(u, c)
            \/ ProductCategoryReactivate(u, c)
       \/ \E p \in Products :
            \/ ProductCreate(u, p) \/ ProductUpdate(u, p)
            \/ ProductChangePrice(u, p)
            \/ ProductDeactivate(u, p) \/ ProductReactivate(u, p)
       \/ \E s \in Services :
            \/ ServiceCreate(u, s) \/ ServiceUpdate(u, s)
            \/ ServiceChangePrice(u, s)
            \/ ServiceDeactivate(u, s) \/ ServiceReactivate(u, s)
  \/ ClockMoves

Spec == Init /\ [][Next]_catalogueVars

-----------------------------------------------------------------------------
(* Properties *)

\* Tables hold well-formed rows.
TypeOK ==
  /\ categories \in [Categories -> Statuses]
  /\ status \in [Items -> Statuses]
  /\ category \in [Products -> Categories \cup {None}]
  /\ applies \in [Services -> SUBSET VehicleKinds]
  /\ prices \in [Items -> Seq(Period)]
  /\ clock \in Now

\* Whatever is on offer can be quoted: an active product is in an active
\* category, an active service is for some kind of vehicle, and both have a
\* current price (add_product_line, add_service_line).
OffersUsable ==
  /\ \A i \in Items : status[i] = "ACTIVE" => Open(i) # {}
  /\ \A p \in Products :
       status[p] = "ACTIVE" => categories[category[p]] = "ACTIVE"
  /\ \A s \in Services : status[s] = "ACTIVE" => applies[s] # {}

\* From the day it was first offered an item has exactly one price at any
\* time: periods follow each other without gap or overlap, whatever is done to
\* the clock, and only the last is open.
OnePriceAtATime ==
  \A i \in Items :
    /\ status[i] # "ABSENT" => Len(prices[i]) > 0
    /\ \A k \in DOMAIN prices[i] :
         /\ prices[i][k].from < prices[i][k].until
         /\ prices[i][k].until = IF k = Len(prices[i]) THEN Forever
                                 ELSE prices[i][k + 1].from

=============================================================================
