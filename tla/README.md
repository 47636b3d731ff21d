# OYERA Auto Service: formal models

TLA+ models of the OYERA workshop-management system (Django 5.2 over
PostgreSQL), the TLC runs that check them on small instances, and proofs,
checked by TLAPS, that hold for every value of the constants.  Paths below are
relative to `src/src/`; `services` stands for `apps/<app>/services/`.

## How the program executes, and what the models make of it

Browser requests go to views; a view checks a permission, cleans a form, builds
a command and calls one *service*.  Every service that changes state runs in one
database transaction (`@transaction.atomic`, READ COMMITTED), locks the rows it
acts on with `SELECT ... FOR UPDATE` before it looks at them, re-reads what it
needs, validates each row it saves (`full_clean`), and raises on the first
refusal, which rolls everything back.  From this the models take their grain:

* One service is one action.  Its guard is the conjunction of everything the
  service and the rows' `clean` check, its effect everything it writes, trailing
  synchronisation of status columns included.  A refused call changes nothing
  and is not a step.
* Above the services there is one action per *page* that changes state: the
  permission its decorator asks for, what its form lets through, the service it
  calls.  Of a form's checks those are kept that stay true until the service
  runs: the limits of an input, rows that are on file, fields that some
  employees are not shown.  What a form compares with the state of a row
  promises nothing, because the row may change before the transaction begins;
  the service asks again, and its guard is what counts.
* What runs concurrently are the calls: employees act in any order on any row,
  with pages as old as may be.  So an action is offered in *every* state in
  which its guard holds; nothing is said about who clicks what when.
* Row locks.  Where a service locks first the row that protects everything it
  reads, the order in which it acquires the others cannot be seen in the tables,
  and PostgreSQL's breaking of a deadlock is a call that was refused.  Customers
  and vehicles are the application of which this is not obvious (unlocked
  counts, locking joins, two lock orders); `RegistryCalls` therefore takes its
  services apart into statements, with row locks, stale copies and deadlock
  victims, and shows that they still behave as the one-action services of
  `Registry`.
* Scheduling.  The program retries and times out nothing.  Fairness is stated in
  `RegistryCalls` only: a worker that can go on does (strongly fair, since
  PostgreSQL queues those that wait for a row lock), and a deadlock is found
  (`deadlock_timeout`).  Requests need never come and jobs need never end.  The
  other applications are driven by people alone; there no fairness is justified
  and none assumed, and instead of liveness it is claimed that no reachable
  state is a dead end (`NoDeadEnd`, `OnlyKnownDeadEnds`).

Amounts of money are whole cents, quantities whole units in `Inventory`
and thousandths where their scale matters for rounding (`Money`, `Purchasing`).
Percentages are hundredths of a percent.  Names, descriptions, dates, contact
details and audit columns ("updated by") are left out.

## Components

| Application | State | Operations | Hard behaviour | Modelled in |
|---|---|---|---|---|
| inventory | locations, items, reservations, append-only stock ledger; balances are sums over rows | receive, adjust, reserve, release, issue, return | returns reopen reservations; hand-kept counters; status stored on another application's row | `Inventory`, `InventoryPages`, `StockAccount`, `Consumption` |
| workshop | work orders, tasks, technician assignments, notes | create, assign, remove, start, hold, resume and complete an order; start (or resume), block, submit and complete a task; add a note | stored summaries of many rows; interleaved tasks; deactivated accounts | `Workshop`, `WorkshopPages`, `WorkOrderLife`, `WorkOrderStatus` |
| billing | invoices with frozen lines, payments | create, issue, void an invoice; record, void a payment | rounding; status a summary of payments; consumption frozen at one moment | `Billing`, `BillingPages`, `Money`, `Receivable` |
| quotations | revisions of a job's quotation with their lines | create, add lines, submit, approve, reject, revise | a decision about a row others may be revising | `Quotations`, `FrontDesk`, `Agreement` |
| jobs | job cards, inspections, vehicle releases | open, inspect, cancel, release | depends on four other applications' rows | `JobFile`, `FrontDesk` |
| customers, vehicles | registry rows, ownership periods, activity | register, update, deactivate, reactivate, transfer | unlocked counts, locking joins, lock order | `Registry`, `RegistryCalls`; mileage in `JobFile` |
| purchasing | suppliers, purchase orders, goods receipts, supplier invoices and payments | draft, submit, approve, cancel, receive, match, post, pay, void | partial deliveries, three-way match, drafts that hold goods | `Purchasing`, `PurchasingPages`, `Receivable` |
| product and service catalogue | categories, products, services, price history | create, move, deactivate, reactivate, change price | one open price period, whatever the clock shows | `Catalogue` |
| accounts | users, roles, permissions | fixed tables | who may open which page | `Policy`; `userActive` in `Workshop` |
| views and forms | none | one page per service | pages out of date, forms checked before the transaction | the `...Pages` modules, `FrontDesk`, `RegistryCalls`, `Catalogue` |
| reports, core, config | none, or read only | | | not modelled |
| demo data, scripts, deployment | | | | not modelled |

They interact through shared rows, never through messages: a quotation that is
approved and current lets a work order be made from it (`services/work_orders.py`
of workshop), whose product requirements the inventory reserves and issues stock
for; a completed work order and the stock ledger determine the invoice; job card,
work order, invoice, payments and vehicle together decide about the release.
Each neighbour is represented, in the module of the application that depends on
it, by a small specification of what it promises, and the neighbour's own module
is shown to implement it:

    Workshop      --implements-->  WorkOrderLife  <--used by--  JobFile
    Inventory     --implements-->  Consumption    <--used by--  Billing
    Billing       --implements-->  Receivable     <--used by--  JobFile
    Purchasing    --implements-->  Receivable
    Inventory     --implements-->  StockAccount
    Quotations    --implements-->  Agreement
    JobFile       --implements-->  Quotations, WorkOrderLife, Receivable
    Billing       --implements-->  Consumption
    RegistryCalls --implements-->  Registry
    every page    --implies---->   the service it calls

`WorkOrderLife` and `OrderMoves` (in `WorkOrderStatus`) are also what `Inventory`
and `Consumption` use for the moves of the order underneath them.

## Modules

**Policy** is the permission table of `apps/accounts/policy.py`: what each role
may change.  `May(u, permission)` is asked by every page.  A run's `Staff` are
the roles somebody holds; roles that may do nothing on the run's pages that another
may not are left out.

**Inventory** has the tables as functions from row numbers to rows, the zero row
standing for a row not yet inserted (`NextKey` is the next primary key).
`OnHand`, `Reserved` and `Available` add up rows as `selectors.py` does, with
`Total` of **Sums**, a recursive function and not an operator so that it can be
proved about.  `ReserveStock`, `ReleaseStockReservation`, `IssueReservedStock`,
`ReturnIssuedStock` each end, as the services do, with `SyncRequirement`, which
recomputes the stored status of the requirement.  Quantities are whole and at
most `MaxQuantity` per call; `MaxReservations` and `MaxMovements` bound the tables.

**Workshop** has an order's status, its tasks' and the assignment table. One action
per service; `jobCancelled` and `userActive` are the columns of other
applications that `WorkOrder.clean` and `TechnicianAssignment.clean` read.

**Billing** stands on `Consumption` for the stock side and adds invoices (one per
order: a one-to-one column) and the payment table.  **Money** has the formulas:
`HalfUp` is `quantize(ROUND_HALF_UP)` on integers, and `InvoiceSum` and
`QuotationSum` are the two copies of the total in `billing/calculations.py` and
`quotations/calculations.py`, translated separately.

**Quotations** has a job's revisions and the columns that decide about them:
status, `is_current`, the number of service and product lines, their subtotal
and the percentages.  A line's price is any amount of `Prices`: the catalogue's
price at that moment.  `JobGoesOn` lets the job card change underneath.

**JobFile** extends Quotations with visits, mileage, the work order's status, the
bill and the releases.  A job's work order and bill go by the job's name, since
both are one-to-one.  `UpdateVehicle` is the one service of the vehicles
application it needs: the only other writer of `current_mileage`.

**Purchasing** has five tables.  The lines of an order, of a receipt and of an
invoice are functions over products (an order has at most one line per product,
a receipt at most one per order line).  `Received` and `Charged` are the sums
that `receipts.py` and `supplier_invoices.py` re-read; `Matched` is the
three-way match, made when a draft is drawn up and again when it is posted.

**Registry** has customers, vehicles, open ownership periods and the active job
card of each vehicle, each service one action.  **RegistryCalls** adds `calls`:
for every worker the statement it has come to, the rows it has locked and its
copies of what it read.  `After` is the route a service takes through its
statements; locking, the join's snapshot, counting, and writing-with-commit are
actions; `Circle` is a deadlock and `AbortVictim` PostgreSQL's answer.

**Catalogue** covers both catalogues, whose price histories are copies of the same
code.  `ClockMoves` sets the server's clock to anything.

**InventoryPages, WorkshopPages, BillingPages, PurchasingPages** and **FrontDesk**
(quotations, jobs, mileage) are the pages over the services: one action per view,
one operator per form.  Their `PagesSpec` is what the runs explore.

**StockAccount, Consumption, Receivable, WorkOrderLife, Agreement** are the
abstract specifications.

## Runs

All passing runs are exhaustive.  Deadlock is checked in `registry` and
`catalogue`, where something can always happen; in the others the bounded tables
fill up, or everything is finished, and the system may really rest.

| Run | Instance | States | Shows |
|---|---|---|---|
| `inventory_ledger` | one item, two requirements competing for it, quantities to 2, two reservations, four movements | 536 172 | the ledger, the reservations and the stored statuses agree under every order of receipts, counts, reservations, issues and returns |
| `stock_account` | two items, three movements | 95 052 | demand is never exceeded; the tables implement `StockAccount` and `Consumption` |
| `workshop` | one order, two interchangeable tasks, a technician, a senior and a manager, three assignment rows | 766 240 | readiness, review and sign-off summaries are true; nothing moves on hold; no dead end; implements `WorkOrderLife` |
| `billing` | two orders with one requirement each, prices and percentages chosen to round up at one order and down at the other, three payments | 41 583 | status follows payments, nobody overpays, the bill stays within the quote, consumption is billed; implements `Receivable` |
| `quotations` | one job, three revisions of two lines, discounts 0 and 100 percent | 16 085 | sent means frozen, the latest is current, approval is final; implements `Agreement` |
| `job_file` | two visits of one vehicle, two revisions of one line, discounts 0 and 100 percent, mileage 0 or 1 | 646 545 | one active job; work and bills within the approval; handover only after billing; only the known dead ends; still a `QuotationsSpec` |
| `purchasing` | one supplier, one order of two products (up to two and one), two receipts, two invoices with interchangeable references, two payments | 51 835 | deliveries keep to the order, invoices to the deliveries; a draft can always be posted; status follows payments; implements `Receivable` |
| `registry` | two workers, one vehicle that goes between two customers | 69 361 | however statements interleave, owners stay in order, and calls implement the atomic `Registry`; deadlocks need a job being opened; every call returns |
| `catalogue` | a product that moves between two categories, a service for two kinds of vehicle, three price periods, a clock from 0 to 3 | 346 788 | what is on offer can be quoted, at one price at a time |
| `zero_quote`, `released_job`, `odometer` | as `job_file`, the last two without the discount | until the violation | the three findings below: TLC finds each violated |

Why the bounds are enough: four movements are a receipt, an issue and two partial
returns (or a write-off between them), the shortest history in which every
counter of `Inventory` has to change twice in the same direction and once back;
two reservations of one requirement are what it takes for a reopened one to meet
a newer one.  Two tasks are needed for an order to be half ready or half
submitted, three assignment rows for two tasks and a replacement.  Three
payments are two parts and one after a void.  Three revisions are the least
with one that is neither first nor last.  Two visits of one vehicle are what
"one active job" and the mileage are about, and a discount of everything is what it
takes for an approval that comes to nothing, one of the dead ends; jobs of different vehicles share no
row.  Two receipts, of which one can be partial, and two invoices that compete
for one delivery are what the match is about; orders share no row but their
supplier, of which only the status is read.  Two workers make every pair of
services of the registry meet at every pair of statements, and two customers a
transfer and a deactivation of either side; three workers waiting in a circle
would need three rows held crosswise, which the proof of `DeadlocksNeedIntake`
covers for any number.  Three price periods have one that is neither first nor
last, and four clock values put a change at, before and after each.  What the
bounds cannot show, larger quantities, tables and rounding cases, is what the
proofs are for.

### Properties worth a word

* `CommitmentsCovered`: adjustments check the shelf and not the reservations, so
  `Reserved <= OnHand` does *not* hold; the shortfall is bounded by what was
  written off, and `StockNeverNegative` survives it.
* `OpenIffHoldsStock`, `OneActiveReservation`: a return reopens a reservation
  that was fulfilled or released, and must not collide with a newer one.
* `ReviewInSync`: whichever submission comes last moves the order to review;
  without it the order waits for ever.
* `BillWithinQuote`: both totals round at every step; monotonicity of half-up
  rounding carries the comparison through discount and tax.
* `NothingUnbilled` claims one direction only: stock returned after invoicing
  stays on the bill, and nothing in the code says otherwise.
* `SentIsFrozen`, `ImplementsAgreement`: an approval is reached at most once and
  neither revision nor later edit touches it; workshop and billing rely on it
  (`WorkIsAgreed`).
* `NoDeadEnd` and `OnlyKnownDeadEnds` say that some service that leads onwards
  would accept a call: `CanAdvance` and `CanProceed` collect the guards of those
  services, which the actions use themselves.  `Stranded` names the exceptions: a
  products-only approval (a work order needs a service line), an approval that
  comes to nothing (an invoice needs a positive total), a voided invoice (one per
  order, no way back).  In each the job card can only be cancelled, whatever
  happens later (`DeadEndsAreFinal`).
* `KeepsQuotations`: composed with everything else, the quotations application
  still behaves as its own specification says.
* `DraftsPostable`: a draft supplier invoice has no way out but being posted, and
  as long as it stands the goods on it cannot be invoiced otherwise; so the match
  made at its posting must never fail after the one made at its creation.
* `ImplementsRegistry`: a call decides from copies it may have taken long before
  it writes.  They are still true then because of the locks it holds, except for
  the count of active vehicles, which takes none although `FOR UPDATE` is asked
  for (PostgreSQL has no locking aggregates and Django drops the clause); the
  customer's own row lock stands in for it, since every service that would give
  the customer an active vehicle locks it too.
* `DeadlocksNeedIntake`: `open_job_card` locks the customer before the vehicle,
  everything else the vehicle before the customer.
* `OnePriceAtATime`: `ProductPrice.clean` refuses a period that would end when it
  began or before, so a standing or set-back clock makes a price change fail and
  never the history.

### Seen on the way

The comment at `services/purchase_orders.py:146-149` of purchasing speaks of
locking the purchase-order row only; its `select_related` locks the supplier as
well, which does no harm.  The approval page of a task asks for
`complete_work_task`, which every technician has, while the service wants a
coordinator; the page model has both.  The goods-receipt form set refuses hidden
line ids that do not match the order's lines, so that a form gone stale is
refused before the service sees it.

## Findings

1. **A quotation of nothing can be sent** (`zero_quote`).  `submit_quotation`
   checks the total inside `if not has_lines`, after the `raise`
   (`apps/quotations/services/quotations.py:354-364`); "Quotation total must be
   greater than zero." is never reached.
2. **A released job can be cancelled** (`released_job`).  `cancel_job_card`
   (`apps/jobs/services/intake.py:191`) refuses only cancelled jobs;
   `VehicleRelease.clean` says "A vehicle release requires a released job card."
   and the job page hides the button for released jobs.
3. **The odometer can be wound back** (`odometer`).  `update_vehicle`
   (`apps/vehicles/services/vehicles.py:198`) skips the comparison when the new
   mileage is empty, and stores it; the next visit is not compared with anything.

## Proofs

The constants are arbitrary within the assumptions named in the modules
(`InventoryAssumption`, `QuotationsAssumption`, `PurchasingAssumption`, ...): any
finite bounds, any sets of products, orders, requirements, jobs, customers and
workers, any prices and percentages between nothing and 100.  The theorems are
about the services (`Spec`).  The runs explore the pages (`PagesSpec`), and
`PagesImplementServices`, in each module that has pages, carries every theorem
over to them.

**ArithmeticProofs**: `Total` over a table is an integer and changes, when one row
changes, by the difference in that row; everything about balances rests on it
(`TableChange`, `TableBounds`, `TableMonotone`).  The recursive function is shown
to satisfy its equation from the library's well-founded recursion facts.  The
invoice formula is monotone in the subtotal through all its roundings and equals
the quotation's formula on the same input (`InvoiceSumMonotone`, `SameFormula`).

**InventoryProofs**: `InventoryInv` is inductive; from it follow the type
invariant and all eight invariants of the inventory runs.  None of them is
inductive alone.  The strengthening, `WellFormed`, says row by row that a
reservation's status is what its counters say and that a ledger row names a
reservation of its own item; the ledger and reservation invariants need each
other, because a return is bounded through the ledger and books through the
counter.  Services that write one reservation and one movement are treated
together (`ExchangeInv`).  Both refinements rest on one lemma per service about
its effect on the sums (`BookedEffect`, `ReserveEffect`, ...).  `Consumption`
counts from the ledger and the reservations count by hand; that both agree
(`ConsumptionAgrees`) is the step from the rows to what billing reads.

**WorkshopProofs**: the four state summaries of the run and `OneActiveAssignment`
are inductive only together, and with two facts nobody asks for: rows name tasks
(`RowsNameTasks`), and nobody is on a task of an order not yet made
(`NobodyAhead`).  `HeldOrdersStandStill` and the refinement of `WorkOrderLife`
follow from that.  `NoOrderStuck` is the absence of dead ends: state by state,
the summaries say which service is due, and its guard is met by a manager and
somebody to assign.  That there are such people, `Managers # {}` and
`Assignable # {}`, are its hypotheses; a garage without a manager does get stuck.
(The bound on assignment rows is the model's: an order for whose next assignment
it leaves no row is exempt in `NoDeadEnd` itself.)

**BillingProofs**: `BillingInv` is inductive and yields the type invariant and all
four invariants of the run; `BillingIsAnAccount` proves the refinement of
`Receivable`, each service mapped to one step of the account or to a stutter.
`BillingOnlyReads` is the other direction of the composition: with billing on top
the orders and the stores still behave as `Consumption` says.

**JobFileProofs**, first about quotations alone: `QuotationsInv` (rows are
consistent, and exactly the latest revision is current with every earlier one
superseded or rejected) is inductive.  From it: the type invariant, the action
property `SentIsFrozen`, and the refinement of `Agreement`: at most one revision
is approved, so the map to the abstract `agreed` is a function of the state, and
only a decision for the offer moves it.  Then about the visit: each of its steps is
a step of quotations or leaves them alone, which gives `KeepsQuotations` and lets
`QuotationsInv` be used; `FileInv` adds that what is billed was completed
(`BilledWhenDone`) and what is ordered was agreed (`OrderedAsAgreed`).  An
agreement never changes, so whatever refers to it stays true.
`VisitsKeepPromises` shows that the visit takes no step with its order or bill
that `WorkOrderLife` and `Receivable` would not.

`NoOtherDeadEnds` needs in addition `VisitInv`: jobs are opened in the order of
their numbers and a vehicle's next job when its last one is over, so its mileage
cannot stand in the way of its release.  Its hypotheses,
nonempty `Discounts`, `Taxes` and `Prices` and `MaxLines > 0`, say that there is
something to offer.  `DeadEndsAreFinal` is its converse, with the fact that an
issued bill comes to something (`BilledSomething`): a stranded job stays stranded.
Of the three findings the proofs give the cause.  Each refuted invariant holds of
every behaviour in which the one slip of the code does not happen: no stored
mileage is erased (`OdometerHolds`), no released job is cancelled
(`ReleasedHolds`), no offer of nothing is submitted (`NothingFreeHolds`).

**PurchasingProofs**: `IInv` is the properties of the run together with the
references between rows (`BillsNameOrders`, `PaymentsNameBills`); sums over
receipts, invoices and payments move as `ArithmeticProofs` says.
`PayablesAreAccounts` proves the refinement of `Receivable`, the same account a
customer's bill implements.  `PapersNeverRewritten` is about steps: orders once
sent, deliveries, invoices and payments keep what they say.  It includes that an
order of which something has arrived leaves that state only when all of it has.

**RegistryProofs**: the atomic registry first, its invariant from the guards of the
services.  Then the calls: `IInv` says of every call that it is on its service's
route, that it has locked exactly the rows of the statements behind it, that
nobody else has, and that its copies of locked rows are true.  A commit is then a
step of `Registry` (`CallsImplementRegistry`), and `OwnersInOrder` comes for free.
`OnlyIntakeDeadlocks` follows from the routes: without intake a call that waits
for a vehicle holds nothing, and one that waits for a customer holds only a
vehicle.

Of `EveryCallReturns` everything is proved except what fairness adds.
`NobodyIsStranded`: as long as calls are being served, some call can carry out its
next statement, or some wait in a circle that the database will break.  (If no
call can go on, take a smallest nonempty set of calls in which each waits for
another of the set; it is a circle.  `Workers` has to be finite for that.)
`WithoutIntakeSomeoneMoves`: while no job card is being opened it is always the
former.  `CallsRunOut`: every statement leaves its call fewer to go
(`StatementsLeft`, at most five), and no step of others adds one, so nobody can be
kept busy for ever.

**CatalogueProofs**: a price change touches the last period of a chain and appends
one that begins where it ends (`PriceChange`); the histories are chains
(`OnePriceAtATime`), so every item once offered has a current price, which
`OffersUsable` needs; that a product is filed under a category (`Filed`) is the
strengthening.  `PastPricesStand` says that a step appends a period or ends the
open one and touches no other.

Model-checked only: `EveryCallReturns`, since the prover has no rules for
fairness.  The guards `CanAdvance`, `CanProceed` and `CanStep` were compared with
`ENABLED` of the actions they stand for by TLC and agree in every state of the
instances above that the properties speak of; the prover cannot state that.  The
three findings are refuted by TLC.

## Not modelled

* Reports, dashboards, lists, detail pages, searches, printing, CSV exports: they
  read only.
* Settings, templates, deployment and backup scripts, and the commands that reset
  and seed demonstration data, which run outside the system's operation.
* Employees and their accounts are administered in Django's own admin site;
  `ensure_default_roles` seeds the permission table that `Policy` states.
* `update_supplier`, `update_customer` and `update_product_category` change
  descriptive columns only.  (`update_customer` is in `RegistryCalls`, where it
  takes its lock.)
* Of job cards: notes, and inspections after the first, which add rows that
  nothing reads back.
* Of vehicles in `JobFile`: their activity and owner, which `open_job_card` checks
  and `Registry` has.
* The order of row locks within a service, outside the registry.  Services of
  inventory, workshop and purchasing can wait for each other in circles
  (see the hazards of kind `deadlock` in `PROJECT.json`).  PostgreSQL then rolls
  one of them back, which is no step of the models.  In billing, `void_payment`
  locks the payment before the invoice and `void_invoice` the invoice before its
  posted payments, but only an issued invoice gets that far, and such an invoice
  has none (`StatusInSync`).

## What is left

A statement-grain model like `RegistryCalls` for inventory, workshop and
billing, which would say which of their services can deadlock and that those who
do not are still atomic.  The goods receipts of `Purchasing` and the ledger of
`Inventory` are two models of one table, joined only by the fact that a receipt
line is a `ReceiveStock`; composing them would show that the stock account of an
item is what its suppliers delivered.
