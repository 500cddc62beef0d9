# DMIS: a TLA+ verification project

DMIS (Disaster Management Information System) is a Flask application on
PostgreSQL. Relief agencies request goods; logistics staff allocate batches of
warehouse stock to packages; managers approve and dispatch the packages; clerks
hand them over. The core of the system is the stock it keeps: units must not be
promised twice, lost or counted twice, although many users work on it at once.
Stock comes from donations, which are registered, verified, and received at a
warehouse in two steps. Requests are drafted by the agencies and found eligible by
directors before logistics sees them, and everything refers to master data that
administrators maintain.

This directory models that core in TLA+, checks small instances with TLC and
proves the main properties for instances of every size with TLAPS. File and line
references are in `PROJECT.json` ("map").

## 1. Inventory of the system

| Component | State | Operations | Hard behaviour | Modelled |
|---|---|---|---|---|
| Packaging pages (`features/packaging.py`) | `reliefpkg`, `reliefpkg_item`, status of `reliefrqst` and `reliefrqst_item` | save draft, submit for approval, send for dispatch, save and approve (manager), approve or reject (review), Workflow C, cancel package, cancel preparation, handover | pages may be posted in any order and on packages in any status; three different ways to dispatch | yes, `Fulfillment` |
| Reservation service (`inventory_reservation_service.py`) | `itembatch.usable_qty`, `reserved_qty`, `inventory` totals | reserve, commit, cancel, release all | row locks in no fixed order, totals computed from an unlocked sum and rounded, clamping at zero | yes, `Fulfillment` (atomic) and `StockTransactions` (interleaved) |
| Dispatch service (`dispatch_service.py`) | the same tables | undo reservations, overwrite rows, deplete, update records | decrements the totals the others recalculate | yes (atomic) |
| Item status service | none | allowed statuses, transition check | keeping a status is always allowed | yes |
| CHECK constraints, row versions, unique and foreign keys | schema, `version_nbr` | refuse a commit | some rules exist only there | constraints yes; versions and keys for donations, requests and master data |
| Batch allocation service (`batch_allocation_service.py`) | none | automatic allocation, batch drawer, check of a posted allocation | missing dates, ties, splitting the last batch, leaving a loop early, two checks that must agree | yes, `Allocation` |
| Fulfillment lock service | lock rows with expiry | acquire, release, check, clean up | expiry against a late holder | no: no route acquires a lock |
| Requests and eligibility (`relief_request_service.py`, `requests_aidmgmt.py`, `eligibility.py`) | `reliefrqst`, `reliefrqst_item` | draft, edit, add and delete items, submit, cancel, decide | handlers check rows they do not write; two deciders; late pages | yes, `Requests` |
| Donations and donation intake (`features/donations.py`, `features/donation_intake.py`) | `donation`, `donation_item`, `dnintake`, `dnintake_item`, `itembatch`, `inventory` | create, edit, verify, delete; add, edit, delete an item; enter, submit and verify an intake | pages of several users on the same rows; what a row version protects and what not; crediting stock once | yes, `Donations` |
| Notifications (`notification_service.py`, `notifications.py`) | `notification` | create in the caller's transaction; read, delete, clear | duplicates, notices of what did not happen | for requests, in `Requests` |
| Master data (`custodians`, `warehouses`, `agencies`, `events`, `beneficiaries`, `items`, `item_categories`, `uom`, `donors`) | nine tables that refer to each other | create, edit, delete, close, (de)activate | lost updates, check-then-delete, deletions that rewrite rows of other tables and workflows, names taken at once | yes, `MasterData` |
| Account requests, users | account requests, users | review, approve, deny, provision | small status machine | no |
| Currency rates, rate limiting | a cache, counters | fetch/expire; count | failure of the external service, counters at their limit | no |
| Transfers, distribution intake | – | – | every POST raises (attributes the models lack), so nothing is ever committed | no |
| Dashboards, reports, request filters | none | reads | – | no |

**How they interact.** A page is a POST handler that runs in one database
transaction. The packaging handlers call `_process_allocations` (form to rows and
item statuses), then a stock operation of the reservation service or the dispatch
service, then commit. Components share state only through the tables.
Notifications are added inside the same transaction and have no effect on stock.
`Fulfillment` starts where `Requests` ends: with a request that a director found
eligible (`SUBMITTED`).

**What makes them correct.** Per component: totals are the sums of their
batches, rounded to the decimals they have room for; what pending packages hold is reserved; what left a batch is what
dispatched packages carry; a dispatch is final; rows belong to packages; what was
validated under a lock, or read with a row version, holds at the commit; stock is
what verified intakes brought; every transaction ends; a request is always on one
tab of the queues; a decision is final; offers follow the item's rule and are
accepted when posted; no reference dangles and no update is lost. The places
where these are at risk are the "hazards" of `PROJECT.json`.

## 2. Modules

| Module | Content |
|---|---|
| `Quantities` | sums over rows as cardinalities (so that the library's theorems on finite sets apply), the rounding of a total to its column's decimals, `max(0, n)` |
| `QuantityProofs` | lemmas on sums: type, congruence, one member changed, difference, a member is at most the sum; lemmas on rounding |
| `Fulfillment` | the packaging pages, the reservation and dispatch services and the CHECK constraints; one action per POST |
| `FulfillmentProofs` | its invariants, action properties and refinement |
| `StockLedger` | abstract specification: packages reserve, dispatch, replace, release and drop units of batches, atomically |
| `StockLedgerProofs` | what the ledger guarantees to whatever implements it |
| `StockTransactions` | reserve, commit and cancel as interleaved READ COMMITTED transactions with row locks |
| `StockTransactionsProofs` | its invariant and refinement, what it inherits from the ledger, its totals and deadlocks |
| `Donations` | donations and their intake, as sessions of several users with row versions |
| `DonationProofs` | its invariant and action properties |
| `Requests` | relief requests up to the eligibility decision, and their notices |
| `RequestLifecycle` | abstract specification: a request is submitted or deleted, then decided, each in one step |
| `RequestsProofs` | its invariant, action properties and refinement |
| `Allocation` | automatic allocation and batch drawer, one step per iteration of their loops |
| `AllocationProofs` | that the loops keep to their rules |
| `MasterData` | the nine tables of master data and their pages |
| `MasterDataProofs` | its invariant and action property |
| `MCFulfillment`, `MCStockTransactions`, `MCDonations`, `MCRequests`, `MCAllocation`, `MCMasterData` | instances for TLC |

### Fulfillment

State: for each request its status, its items (status, `issue_qty`), its package
(status, the NULL-ness of `dispatch_dtime` and `received_dtime`, the meaning of
`verify_by_id`, its creator), the set of batches with a row and the quantity per
batch; for each batch `usable_qty` and `reserved_qty`; for each pair of warehouse
and item the two totals. Rows of quantity 0 are kept apart from missing rows
because the code uses them as markers of activity.

A step is a POST that commits. A refused POST (role, version, validation,
constraint) is rolled back and is no step. Constraints are the conjunct
`DatabaseChecks'` of every action. The form is any member of `Forms`: which
page it came from, and when that was loaded, is not looked at. Actions carry the names
of the handlers.

Quantities are natural numbers of the smallest unit of a batch: `itembatch` and
`reliefpkg_item` are numeric(15,4), and the drawer's input steps by 0.0001. The
totals of `inventory` and `issue_qty` are numeric(12,2), so what is stored in them is
`Rounded` to a multiple of `Scale` (100 in the database). A handler compares and adds
what it holds in memory and the rounding shows when another transaction reads the
row, hence a check such as `TotalsSuffice` compares an unrounded sum with a stored
total.

Abstractions: a posted quantity with more than four decimals, which no page's input
allows, is left out; so is an `allocations_json` that names one batch twice (`Plans`
is a function of the batch; the handler would store the last of the two quantities
and deduct both); audit columns, reasons, tracking numbers, units and notifications
are left out; a batch's expiry and status are left out, since they only restrict what
a form may allocate; stock is not added (that is the subject of `Donations`); a request
has at most one package, as all handlers look up "the" package of the request.

The pages that list the work (`pending_fulfillment`, `pending_approval`,
`awaiting_dispatch`) only read. They are operators on the state, because a package
that is on no page is forgotten: each tab has its own query, on the request's
status, the package's status, two dates and the sentinel in `verify_by_id`, and
nothing but the handlers keeps the queries complementary (`EveryRequestOnOneTab`).
The tabs are those of a manager; the filter by the officer who is involved is left
out.

### StockTransactions

The same stock operations statement by statement. A transaction asks for the lock
of a batch, updates it from the locked row, and so on in any order; then for each
affected total it reads the sum (which waits for no lock and sees committed rows
and its own updates), asks for the lock of the inventory row and writes the sum
it read, rounded to the column's two decimals. It may be rolled back at any moment. SQLAlchemy's version check turns a
stale row into a rollback, which the model always allows.

### StockLedger

What both promise to a reader who sees packages and batches only. The clamp at
zero is part of it: the ledger does *not* promise that a package takes only what
it reserved, because the code does not.

### Donations

State: the status of each donation and its items with their quantities; for each
donation and warehouse the status of the intake and its rows (batch number, usable,
defective and expired quantity); the stock these intakes credited; and for each
user the handler it is in.

A handler takes two steps. The first reads rows and checks their status, the
second checks the form against the rows and commits. In between others may commit.
Every row has a `version_nbr`, which each UPDATE and DELETE names, so the session
need not remember versions but only what became of the row it will write since it
read it: `read` is "current", "changed" (the commit is refused) or "deleted". The
last one is a case of its own because a row that is inserted again gets version 1
again (`add_audit_fields`): the commit may be accepted although the row is another
one. Handlers that insert (`add_donation_item`) write no row they read, so nothing
is checked for them beyond the primary and foreign keys.

Why two steps are enough: a page that posts a version is refused unless the row is
the one that was shown, so showing a page and posting it may be taken as one read;
and rows that a handler reads a second time, or reads and does not write, are read
at the commit in the model. An entry reads the quantities of the donation's items:
they can change under it only by the two races of `VerifiedItemsDrift`. An item
added or changed there may as well be added or changed after the entry, and a
deleted one makes the foreign key refuse the entry; only a row deleted and inserted
again between the entry's read and its commit is an order the model leaves out.
Verifications of intakes lock the batch and the total they update
(`with_for_update`) and read them there for the first time, so they add to the
committed quantity.

Abstractions: forms are any rows with quantities up to `MaxQty`; a form's item
rows carry no donation type except where the manager's page ties it to the
category of the item (funds have quantity 1); donors, dates, costs, units,
comments and documents are left out, as they only make more forms refused; all
warehouses are ones that allow intake. Donations are not created twice with one
id: the sequence of the database sees to that, and a deleted id stays deleted.

### Requests

State: the row of each request (status, version, who decided), its item rows with
their versions, how many read and unread notices each user has, and the handler
each user is in. A handler reads and checks in one step and commits in another.
Here sessions remember versions, because handlers differ in what they write:
submission, edit, cancellation and decision write the request, so that its version
protects what they checked; adding or deleting an item writes only the item, and
the request may have been submitted in the meantime. `cancel_request` deletes the
items in bulk, whatever their versions. The items page posts its version to
`submit_request`, the edit page does not, hence two ways into it.

Abstractions: quantities, urgency, dates, notes and events only refuse more forms;
there is one agency; a user may be of the agency, of logistics and a director, in
several roles, at once. `check_and_autoclose_request`, `can_process_request` and
`create_dispatch_notifications` are called by nothing and are left out.

`RequestLifecycle` is what a reader of the status sees: no pages, no versions, one
step per change. A page that finds its version unchanged may write without looking at
the status, so that it is the right one is not in the code but a consequence of all
handlers raising the version.

### Allocation

A behaviour is one call. It starts from any stock and any settings of the item and
goes through the batches in an order that the sort keys allow: the queries have no
ORDER BY, so ties come in any order. `auto_allocate_item` and its loop, then the
answer; or the page's `loadBatches`, the drawer's endpoint, its loop over the
batches of one warehouse after the other, the loop of `assign_priority_groups` over
the batches that are shown, then the answer. The keys are
translated with what they do to missing dates (last for FEFO, first for FIFO and
LIFO). The rules they are compared with are stated separately (`ExpiresFirst`,
`CameFirst`, `GoesFirst`), without keys.

`saved` is what the database has reserved for the package, `current` what is picked on
the page; the picks may be newer than the last save or less than it. The page asks for
the requested quantity *without* its picks, and the drawer's availability of a batch
*includes* them, so the loop that stops when a warehouse has enough may stop early.
`DrawerSuffices` states what is left of the promise, in terms that are not the code's:
`Free` is what could still be taken of a batch when the page is posted, and a batch
with stock is hidden only if the free units of the shown batches of its warehouse
suffice, or would but for `CountedTwice`, what the picks of that warehouse are counted
too often. In a warehouse of which nothing is picked no needed batch is hidden. For
instance, of two units requested, one picked from A and B with one free unit: A alone
makes the drawer stop, and B, which is needed, is not offered.

The drawer sorts by expiry whenever an item can expire, the automatic allocation
only for issuance order FEFO. `GroupsFollowRule` is stated for the items where both
agree.

### MasterData

State: for each table its rows (status, version, the column whose values are
unique, references to other tables), the rows other workflows refer to (`used`, one
set per foreign key of `Uses`), and the handler each user is in, with the row it saw and the form it holds. A handler has
two disjuncts: what it reads and checks, and its commit, where the database checks
version, unique and foreign keys again. `close_event` is one step because it reads
under a lock that is held up to the commit. Deletions include what SQLAlchemy does
to rows that refer to the deleted one (`SetNull`), which changes rows of other
tables that other users have open. A unit's code is its key and may be used again.

The foreign keys of the workflows are of two kinds. `KeptUses` are NOT NULL (or needed
by a CHECK) and make the database refuse a deletion. `NulledUses` are nullable or rows
of an association, and the ORM drops them in the transaction that deletes the row:
`delete_event` so detaches requests, packages, distribution packages and transfers, in
spite of its docstring, and only a donation keeps its event. `Use` and `Release` are
what the workflows do to these references: a request is created with an event, edited,
cancelled, and so on; they interleave with the pages. What a page looks for before it
deletes is less than what the database refuses: `delete_warehouse` looks at stock and
users, `check_uom_references` not at donated goods, `delete_event` at nothing.

Names are looked up by the page and, for five tables, checked again by a unique
constraint (`uk`). Warehouse names have no constraint. `NameClashNeedsRace` says that
two equal names need two handlers that overlap on such a table. `edit_event` never
writes the status; what keeps a stale page from changing a closed event is the version.

Abstractions: other columns only refuse more forms; an agency's type follows from
its having a warehouse, as the constraint demands; the donor's code, which like a
warehouse's name is looked up by the page only, is left out.

## 3. Runs

| Run | Instance | Result |
|---|---|---|
| `shared_batch` | 2 requests of 2 units, 1 batch of 2 units, statuses U and P in forms | passes, 32,856 states: types and constraints, dispatch is final, reservations drift only in the listed ways, every POST is a ledger operation |
| `two_items` | 1 request, 2 items in 2 warehouses; totals hold pairs of units | passes, 10,401 states: totals are rounded sums but for the one listed way, rows belong to packages, stock balances, the request is on one tab |
| `transactions` | 2 packages, 2 batches of one unit in one pair whose totals hold pairs of units | passes, 110,318 states: locked rows are current, atomic ledger, every transaction ends |
| `donations` | 2 donations of goods and funds, 1 warehouse, 2 users | passes, 437,604 states: pages commit only what their checks still justify, stock is the sum of verified intakes, a verified intake is final, a Processed donation stays so |
| `requests` | 1 request, 1 item, 3 users: one of agency and logistics, one director with two roles, one with one | passes, 262,817 states: versions protect what was checked, a decision is final, notices are true, items settle, the lifecycle is implemented |
| `allocation` | 3 batches in 2 warehouses, each one of 7 kinds of row; picks and saved rows in 3 ways each; quantities up to 3 | passes, 940,212 states: the loops follow the rules, hide nothing but what is enough or counted twice, report real shortages |
| `master_data` | warehouse, agency, event; or item, category, 2 units; 2 users; donations, requests and stock that refer to them | passes, 369,915 states: no lost update, no dangling reference (units renamed and their codes used again, events deleted under requests), a closed event stays closed |
| `registers` | 2 donors; or custodian, 2 warehouses, beneficiary; 2 users; donations, stock and users that refer to them | passes, 168,410 states: two rows have one name only after a race on warehouses, no dangling reference |
| `double_allocation` | 3 requests of 1 unit, 1 batch of 2 | violation: a direct dispatch takes what another package reserved |
| `totals_race` | 2 packages, 2 batches | violation: a total misses a concurrent update |
| `double_credit` | 1 donation, 2 warehouses, 2 users | violation: a donation is received, in full, at two warehouses |
| `event_deletion` | 1 event, requests that refer to it, 2 users | violation: an event in use is deleted and its request loses it |

**Bounds.** `MaxQty` is 1 or 2 and stock is 1 or 2 per batch: enough for empty,
partial, full and over-full at each comparison. `Scale` is 1 where no property is
about rounded totals and 2, the smallest number with a remainder, where one is;
`totals_race` has 1, so that its wrong total is not a rounded one. Two requests are enough to compete
and a package only ever sees "its own" and "the others'" reservations, which are
sums. Two batches are needed for lock order, for totals over more than one batch
and for pairs that only the old or only the new rows touch. Requests are
interchangeable, hence the symmetry in `shared_batch` (its properties are all
safety), and so are users and donations in `donations`. Two users are enough for
every race of two pages; two donations are needed for two credits to one batch; a
quantity of 2 lets a manager move a unit between usable and defective. The numbers
limit TLC only: the theorems hold for all of them, `donations`' properties with
any number of warehouses and batches included.

In `requests`, `MaxVersion` 2 lets a draft be edited once and every later commit
still raise the version, so there are always stale and current pages; the decision
has no bound. The rows of `allocation` include ties, a batch without expiry date, one
without batch date and with everything reserved, an expired one and an inactive one;
three batches are needed for an order within a warehouse and a second warehouse. In
the master data, one or two rows per table and one name make every conflict happen
(a second warehouse can also be given a second name, so that an edit may take the
first's); a run has two groups of tables that do not refer to each other and looks at
one at a time (constraint `OneGroup`), the other staying empty: a step in one changes
nothing the other group's actions or properties read. Next to beneficiaries there is
one warehouse. An event may reach version 3: edited, closed, and found closed
by a second edit.

**The drift properties.** `reserved_qty` is *not* always what pending packages
hold: three kinds of step break it. Instead of leaving the invariant out,
`ReservationDrift`, `CoverageDrift` and `StockBalanceDrift` say of every step
that it keeps the books or is one of the named kinds (a dispatched package is
altered, a preparation is cancelled, quantities change in the POST that
dispatches). Any other way to corrupt the books violates them. `TotalsDrift` says the
same of the totals: they are the rounded sums of their batches unless Workflow C, which
decrements a stored total instead of recalculating it, moves a quantity that is not a
whole number of hundredths. In the same way
`VerifiedItemsDrift` says which two races change the items of a verified donation.

**Fairness** (`transactions` only). Strong fairness of each transaction's
statements: a request thread runs until it waits, and PostgreSQL queues lock
requests, so a waiter is not overtaken for ever. Strong fairness of `Fail`: a
refused validation is rolled back by the application, and PostgreSQL's deadlock
detection rolls back one of the transactions that wait in a cycle. Nothing else
is assumed to happen; in particular no user ever has to click.

**The four violations** are disagreements between a comment, docstring or message
and the code; "findings" quotes the lines. Each has a run of its own with one
property. Three more that the models show without a run of their own: cancelling a
preparation releases nothing, because the rows are deleted before the release reads
them (one of the named kinds of `ReservationDrift`); Workflow C adds the dispatched
quantity to an `issue_qty` that already counts it; two transactions that lock two
batches in opposite orders wait for each other until PostgreSQL rolls one back
(`TransactionsEnd` holds for that reason).

**Deadlock** is checked in the fulfilment runs: there is always a POST that can
commit, and always a transaction that can begin or proceed. It is not in the
donation runs: when every donation of the instance is processed or deleted, no
page is left to open; nor in `allocation`, where a behaviour ends with the answer.

## 4. Proofs

All proofs are checked by `tlapm` to the last leaf. Assumptions are
`FulfillmentAssumptions`, `TransactionAssumptions`, `DonationAssumptions`,
`RequestAssumptions`, `AllocationAssumptions` and `MasterDataAssumptions`: finite
sets of requests, packages, batches, donations and roles, typed constants, pairs and
batches distinct (and distinct from the value for "no row"), batches that reserve no
more than they have. They hold in any database.

* `TypeCorrect`, `RowsConsistent`, `TotalsStayRounded`, `InventoryConsistent`. That
  totals stay rounded sums needs the rows with a quantity to be among the rows the
  handler lists as affected (`RowsBelongToPackage`), and the arithmetic needs the
  types: the inductive invariant `IInv` is the conjunction of both. `TotalsStayRounded`
  is about steps, since no invariant on totals survives Workflow C's decrements of
  fractions; `InventoryConsistent` follows from it by induction along a behaviour in
  which stock moves in whole hundredths (`WholeHundredths`, a hypothesis on what users
  post): there the totals *are* the sums. The proof first shows that every action
  has one of six *shapes* (reserve, commit, replace, release, drop, keep:
  `StepShape`), then argues about shapes only.
* `DispatchFinal`, `StockBalance`, `ReservationsStayExact`,
  `ReservationsStayCovering`: the action properties, from `IInv` and the shapes.
  `HoldingStep` moves a sum over all requests by the change of one of them.
* `HandlersImplementLedger`: each shape is one ledger operation. It needs that
  packages hold plans (`HoldsPlans`), a second, separate invariant.
* `RequestsAreListed`: from `QueueInv`, which adds to `IInv` that a pending package
  with anything in `verify_by_id` has the sentinel there and belongs to a request in
  status PART_FILLED: the tab asks for both, the manager's queue for neither.
* `TransactionTypes`, `LocksProtectRows`, `TransactionsImplementLedger`. The
  inductive invariant `TxnInv` adds to the types that the rows a transaction wrote
  are what its operation computes from the *committed* row and that nobody else
  has them (`LockedRowsCurrent`), and how far it is (`Progress`: updated and
  remaining batches partition the touched ones). A commit is then one ledger
  operation, and no other step is visible.

* `DonationTypes`, `SessionsStayCurrent`, `StockFromIntakes`, `ProcessedReceived`,
  `IntakeFinal`, `ItemsDrift`. The inductive invariant `DonationInv` joins the types,
  what open sessions rely on (`SessionsCurrent`), that an intake belongs to a
  verified donation (`IntakesOfVerified`), `ProcessedIsReceived` and
  `StockIsVerifiedIntake`. Sessions need the statuses: a verification must find the
  donation verified to keep the entries open on it valid. Statuses and stock need
  the sessions: an entry must find its intake unverified, or it would replace rows
  that were credited. `Covers` says what the set of rows written by a commit must
  contain for the other sessions to stay right; each action is shown to write
  enough. The stock follows as a sum in which one member changes (`SumUpdate`).

* `RequestsProofs`: `TypeCorrect`, `ReadsHoldAlways`, `NoOrphans`, `NoticesTrue`,
  `DecisionsFinal`, `ItemsSettleAlways`. The invariant is the conjunction of the
  four state properties and `Undecided` (an undecided status has no reviewer).
  Notices are bounded by the number of recipients because a submission or decision
  happens once, which is what `ReadsHold` says of the sessions.
  `RequestsImplementLifecycle` needs one invariant more, `DirectorsDecide`: the role is
  checked when the page is read, and the commit relies on it.
* `AllocationProofs`: `AllocationInOrder`, `ShortagesAreReal`, `NothingMislaid` and
  `OffersAccepted` from the loop invariant `AutoInv`: the list holds offered batches,
  each once, none before one that goes first; a batch from which something was taken
  is behind the loop; while something remains to be found, every offered batch is
  waiting or used up. `NothingNeededHidden` and `DrawerInOrder` from `DrawerInv`: a
  batch of the drawer is waiting, shown, or hidden in a warehouse that has enough by
  the code's count, and a warehouse's running total is the sum of what it shows. That
  the code's count of a batch is at most what is free of it plus what is counted twice
  is then carried over to the sums. That the sort keys
  agree with the rules is proved from Python's order of tuples
  (`KeyFollowsRule`, `DrawerKeyFollowsOrder`). `GroupsInOrder` is about the numbers that
  `assign_priority_groups` gives out by comparing each batch with the one before. What
  it says of any two batches follows from neighbours only because the batches of a
  warehouse stand together and in order, in the list and in what is still to come
  (`InBlocks`, `Continues`); `GroupInv` carries both, and two batches neither of which
  goes first have equal keys (`NeitherFirst`). For items that can expire but are not
  issued FEFO the two rules differ and nothing is claimed.
* `MasterDataProofs`: `TypeCorrect`, `NoLostUpdate`, `NoDanglingReferences`,
  `NameClashOnlyInRace`, `ClosedFinal`. `SeenIsCurrent` is not inductive: sessions must
  also not be ahead of their rows (`SessionsOK`), and that a deletion leaves no
  reference needs every reference to be one the deletion refuses or sets to NULL.
  `NameClashOnlyInRace` has `OneAtATime` as a hypothesis at every step: while a handler
  on warehouses is open and no other is, the name it looked up stays free
  (`CheckedNames`), so the commit keeps the names of warehouses apart
  (`WarehouseNames`); for the other tables the constraint does. The proof
  reduces the handlers to a few kinds of steps (a page opened, a row written, a unit
  renamed, a row deleted, a reference from elsewhere) and argues about those.

**What the ledger is worth.** `StockLedgerProofs` shows what follows from the abstract
specification alone: `LedgerBalances` (no unit is lost as long as packages that have
left are not operated on) and `LedgerNeverPromisesTwice` (no batch is promised beyond
the shelf as long as, besides, no dispatch takes more than its package had reserved,
or gives the reservation back first). The hypotheses `OrderlySpec` and `ReservedSpec`
are restrictions on what users do, not on what the ledger does; the ledger's constants
are hypotheses too (`LedgerConstants`), discharged where it is instantiated.
`InterleavedStockBalances` and `InterleavedNoDoubleAllocation` carry both results over
to the interleaved transactions through the refinement: whatever the order of
statements and whichever transactions fail, the row locks keep the books; only a
caller can break them.

**What is behind each violation.** A counterexample shows that a claim fails, not why.
For each claim about stock that the code breaks there is a theorem that it holds in all
other behaviours, so that the named steps are the whole cause:

| Claim | Holds as long as | Theorem |
|---|---|---|
| `NoDoubleAllocation` | dispatched packages are left alone and no dispatch takes more than its package had reserved | `DoubleAllocationNeeds`, `InterleavedNoDoubleAllocation` |
| `TotalsMatchBatches` | no commit publishes an inventory row that another transaction has summed and not yet published, and the sums have two decimals | `TotalsMatchOtherwise` (without the second condition the totals are the rounded sums: `TotalsWrongOnlyIfOvertaken`) |
| `InventoryMatchesBatches` | quantities have two decimals | `InventoryConsistent` |
| `OnlyVerifiedIntaken` | no donation is submitted for intake at two warehouses | `CreditedTwiceOnlyAtTwo` |
| `StockBalanced` | dispatched packages are left alone | `NoStockLost` |
| `ReservationsExact` | besides, quantities are not changed in the POST that dispatches and no preparation with allocations is cancelled | `ReservationsAreExact` |
| nobody waits in a cycle | locks are taken along one order | `OrderedLocksCannotDeadlock` |

`DoubleAllocationNeeds`, `InventoryConsistent`, `NoStockLost` and `ReservationsAreExact`
follow from the drift properties by induction along the
behaviour. `TotalsWrongOnlyIfOvertaken` needs `TotalsInv`: all totals are rounded sums of
committed batches, and what an open transaction has summed is the sum of what it sees,
which stays so because a commit that changes a batch also writes its inventory row.
`CreditedTwiceOnlyAtTwo` needs from `DonationInv` that a verification in progress is on
a submitted intake of a donation that is verified or processed, and processed only
through a verified intake elsewhere. `OrderedLocksCannotDeadlock` takes a row that is
minimal, in the order, among the rows a set of waiting transactions asks for: who has
it asks for a smaller one. The hypotheses are met by ordinary use: TLC finds tens of
thousands of states of the instance of `transactions` under the first pair (40,019
where only dispatched packages are left alone, 29,739 under both conditions), and
still a double allocation when the second condition is dropped.

Only model-checked: `TransactionsEnd` (liveness under fairness is outside the prover's
reach), and that the four violated claims fail. `MCFulfillment` checks that `SumOver`
is the sum of the community modules on the instance's batches.

## 5. Not modelled, and the plan

Proofs worth adding: an abstract specification of an intake (entered, submitted,
verified, stock credited in one step) refined by `Donations` in the way `Requests` refines
`RequestLifecycle`; and of master data as atomic tables, refined by `MasterData`.

Models worth adding:

1. **Optimistic locking of packages**: forms that carry the versions of the page they
   were loaded from, two first saves of one request, `cancel_preparation` against a
   concurrent save. `Requests` and `MasterData` show the form such a module would have.
2. **Workflow C interleaved** with the other transactions; it is one step of
   `Fulfillment`.
3. **Composition** of `Requests` with `Fulfillment`: they meet in one status, and the
   handlers of one never write the rows of the other except items added late
   (`ItemsSettle`), which `Fulfillment` takes as there from the start.
4. Account requests and users, notices of the package workflow: small status machines
   on rows of their own, with no effect on stock.

Left out for good: the fulfillment lock service (no route acquires a lock), the
currency service (called by two maintenance commands, read by no page), dashboards
and reports (read only), rendering, logging and header filters (no state the rest
depends on), transfers and distribution intake (no POST of theirs can commit at
this commit of the code).
