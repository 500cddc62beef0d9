---------------------------- MODULE Fulfillment ----------------------------
(***************************************************************************)
(* The fulfilment of relief requests from warehouse stock: packages are    *)
(* drafted, submitted, approved, dispatched, cancelled and handed over,    *)
(* and stock is reserved for them and deducted from the item batches and   *)
(* from the warehouse totals.                                              *)
(*                                                                         *)
(* One step is one POST whose database transaction commits.  A POST that   *)
(* is refused (role, version, validation, CHECK constraint, StaleDataError)*)
(* is rolled back and changes nothing, so it is not a step.  The page a    *)
(* user submits may hold any allocation: a form is an arbitrary member of  *)
(* Forms, whatever page it was loaded from.  Steps that interleave inside  *)
(* transactions are the subject of other modules.                          *)
(*                                                                         *)
(* Quantities are natural numbers of the smallest unit of a batch, and     *)
(* what is stored in a total or in issue_qty is rounded to a multiple of   *)
(* Scale (see Quantities).  The handlers compare and add what they hold in *)
(* memory, which is rounded only when another transaction reads it back.   *)
(* A batch's status and expiry date are left out: they are inputs that may *)
(* change under the application at any time and only restrict what a form  *)
(* may allocate.                                                           *)
(***************************************************************************)
EXTENDS Quantities

CONSTANTS
  Requests,      \* eligible relief requests (reliefrqst), with their items
  Items,
  Warehouses,
  Batches,       \* itembatch rows
  ItemOf,        \* itembatch.item_id
  WarehouseOf,   \* itembatch.inventory_id, which is the warehouse
  RequestQty,    \* reliefrqst_item.request_qty, 0 for an item not requested
  InitialUsable, \* itembatch.usable_qty before any fulfilment
  Officers,      \* users with role LOGISTICS_OFFICER
  Managers,      \* users with role LOGISTICS_MANAGER
  FormStatuses,  \* item statuses a form may carry
  MaxQty,        \* largest quantity a form may carry (safe_quantity's max_qty)
  Scale          \* Decimal('0.01'), the unit of the totals, in units of a batch

ItemStatuses == {"R", "U", "W", "D", "P", "L", "F"}
Unavailable  == {"U", "D", "W"}

ASSUME FulfillmentAssumptions ==
  /\ IsFiniteSet(Requests) /\ IsFiniteSet(Batches)
  /\ ItemOf \in [Batches -> Items]
  /\ WarehouseOf \in [Batches -> Warehouses]
  /\ RequestQty \in [Requests -> [Items -> Nat]]
  /\ InitialUsable \in [Batches -> Nat]
  /\ FormStatuses \subseteq ItemStatuses
  /\ MaxQty \in Nat /\ Scale \in Nat \ {0}
  /\ \A r \in Requests : \A i \in Items : Whole(RequestQty[r][i], Scale)

VARIABLES
  rqst,          \* [r -> reliefrqst.status_code]
  rqst_item,     \* [r -> [i -> reliefrqst_item (status_code, issue_qty)]]
  pkg,           \* [r -> reliefpkg], status "none" when there is no package
  pkg_rows,      \* [r -> batches with a reliefpkg_item row, quantity 0 included]
  item_qty,      \* [r -> [b -> reliefpkg_item.item_qty]], 0 without a row
  usable_qty,    \* [b -> itembatch.usable_qty]
  reserved_qty,  \* [b -> itembatch.reserved_qty]
  inventory      \* [<<w, i>> -> inventory (usable_qty, reserved_qty)]

pkgVars   == <<pkg, pkg_rows, item_qty>>
stockVars == <<usable_qty, reserved_qty, inventory>>
vars == <<rqst, rqst_item, pkgVars, stockVars>>

-----------------------------------------------------------------------------
(* The keys and the rows of the tables.                                    *)

Users == Officers \cup Managers
NoUser == "nobody"

Pairs == Warehouses \X Items
PairOf(b) == <<WarehouseOf[b], ItemOf[b]>>
BatchesAt(p) == {b \in Batches : PairOf(b) = p}
BatchesOf(i) == {b \in Batches : ItemOf[b] = i}
RequestedItems(r) == {i \in Items : RequestQty[r][i] > 0}

ReliefPkg ==
  [status_code   : {"none", "P", "D"},
   dispatch_dtime: BOOLEAN,                       \* TRUE: not NULL
   verify_by_id  : {"NULL", "PENDING_LM", "LM"},
   received_dtime: BOOLEAN,                       \* TRUE: not NULL
   create_by_id  : Users \cup {NoUser}]

NoPkg ==
  [status_code |-> "none", dispatch_dtime |-> FALSE, verify_by_id |-> "NULL",
   received_dtime |-> FALSE, create_by_id |-> NoUser]

NoQty == [b \in Batches |-> 0]

\* What a packaging page posts: a quantity for some batches of the requested
\* items (a 0 marks an opened drawer) and, per item, a status or none.
Forms == [r \in Requests |->
  {f \in [rows   : SUBSET {b \in Batches : ItemOf[b] \in RequestedItems(r)},
          qty    : [Batches -> 0 .. MaxQty],
          status : [Items -> FormStatuses \cup {"none"}]] :
     /\ \A b \in Batches \ f.rows : f.qty[b] = 0
     /\ \A i \in Items \ RequestedItems(r) : f.status[i] = "none"}]

\* The manager's final plan, from allocations_json or from the package's rows: a
\* quantity per batch, of requested items or not; the batches with 0 are left out
\* of it.  That a list names a batch once is assumed: the handler would store the
\* last of two quantities and deduct both.
Plans == [Batches -> 0 .. MaxQty]

PlanRows(q) == {b \in Batches : q[b] > 0}

\* Quantity of item i in the allocation q.
TotalOf(q, i) == SumOver(BatchesOf(i), q)

-----------------------------------------------------------------------------
(* CHECK constraints: a transaction whose rows break one is rolled back.   *)
(* c_itembatch_2 stands for c_itembatch_2a and 2b, c_inventory_2 for       *)
(* c_inventory_1 and 2.                                                    *)

\* Mutant: the constraint is missing from the database.
c_reliefpkg_2_Missing(p) == TRUE

c_reliefpkg_2(p) == p.dispatch_dtime <=> (p.status_code = "D")

c_itembatch_2(usable, reserved) ==
  /\ usable >= 0
  /\ reserved <= usable /\ reserved >= 0

c_inventory_2(inv) ==
  /\ inv.usable_qty >= 0
  /\ inv.reserved_qty <= inv.usable_qty

c_reliefrqst_item_2a(ri, request_qty) ==
  \/ ri.status_code \in {"R", "U", "W", "D"} /\ ri.issue_qty = 0
  \/ ri.status_code \in {"P", "L"} /\ ri.issue_qty < request_qty
  \/ ri.status_code = "F" /\ ri.issue_qty = request_qty

DatabaseChecks ==
  /\ \A r \in Requests : c_reliefpkg_2(pkg[r])
  /\ \A b \in Batches : c_itembatch_2(usable_qty[b], reserved_qty[b])
  /\ \A p \in Pairs : c_inventory_2(inventory[p])
  /\ \A r \in Requests : \A i \in RequestedItems(r) :
        c_reliefrqst_item_2a(rqst_item[r][i], RequestQty[r][i])

-----------------------------------------------------------------------------
(* Item statuses (item_status_service) and the processing of a form.       *)

CalculatedStatus(total, request_qty) ==
  CASE total = 0            -> "R"
    [] total >= request_qty -> "F"
    [] OTHER                -> "P"

compute_allowed_statuses(total, request_qty, has_allocation_activity) ==
  CASE total = 0 /\ ~has_allocation_activity -> {"R", "U", "D", "W"}
    [] total = 0 /\ has_allocation_activity  -> {"U", "D", "W"}
    [] total > 0 /\ total >= request_qty     -> {"F"}
    [] OTHER                                 -> {"P", "L"}

\* Keeping the current status is always allowed.
validate_status_transition(current, new, total, request_qty, activity) ==
  \/ new = current
  \/ new \in compute_allowed_statuses(total, request_qty, activity)

\* The issue_qty that satisfies c_reliefrqst_item_2a for the status; a partial
\* status caps the quantity Decimal('0.01') below the requested one.
IssueQty(status, total, request_qty) ==
  CASE status \in {"R", "U", "W", "D"} -> 0
    [] status = "F"                    -> request_qty
    [] OTHER -> IF total < request_qty - Scale THEN total ELSE request_qty - Scale

\* Without a status in the form, the calculated one is requested.
RequestedStatus(r, f, i) ==
  IF f.status[i] = "none" THEN CalculatedStatus(TotalOf(f.qty, i), RequestQty[r][i])
                          ELSE f.status[i]

HasAllocationActivity(r, f, i) == (pkg_rows[r] \cup f.rows) \cap BatchesOf(i) # {}

\* validate_batch_allocation: what this package already holds of the batch
\* counts as available.
AvailableQty(r, b) == usable_qty[b] - (reserved_qty[b] - item_qty[r][b])

\* _process_allocations raises no ValueError.
AllocationsValid(r, f, validate_complete) ==
  /\ \A b \in f.rows : f.qty[b] > 0 => f.qty[b] <= AvailableQty(r, b)
  /\ \A i \in RequestedItems(r) :
       LET total == TotalOf(f.qty, i)
       IN  /\ total <= RequestQty[r][i]
           /\ validate_complete => \/ total >= RequestQty[r][i]
                                  \/ f.status[i] \in {"U", "D", "W", "L", "P"}
           /\ validate_status_transition(rqst_item[r][i].status_code,
                RequestedStatus(r, f, i), total, RequestQty[r][i],
                HasAllocationActivity(r, f, i))

\* The request items that _process_allocations leaves in the session.
ProcessedItems(r, f) ==
  [i \in Items |->
     IF i \in RequestedItems(r)
       THEN LET status == RequestedStatus(r, f, i)
            IN  [status_code |-> status,
                 issue_qty   |-> IssueQty(status, TotalOf(f.qty, i), RequestQty[r][i])]
       ELSE rqst_item[r][i]]

\* The same as the database stores them: issue_qty is numeric(12,2).
Stored(items) == [i \in Items |-> [items[i] EXCEPT !.issue_qty = Rounded(@, Scale)]]

\* The package _process_allocations works on: the request's package whatever
\* its status, or a new pending one created by u.
PackageFor(r, u) ==
  IF pkg[r].status_code = "none"
    THEN [NoPkg EXCEPT !.status_code = "P", !.create_by_id = u]
    ELSE pkg[r]

_process_allocations(r, f) ==
  /\ pkg_rows' = [pkg_rows EXCEPT ![r] = f.rows]
  /\ item_qty' = [item_qty EXCEPT ![r] = f.qty]

-----------------------------------------------------------------------------
(* Stock (inventory_reservation_service).                                  *)

TotalUsable(p)   == SumOver(BatchesAt(p), usable_qty)
TotalReserved(p) == SumOver(BatchesAt(p), reserved_qty)

PairsOf(S) == {PairOf(b) : b \in S}

\* inventory.reserved_qty := SUM(itembatch.reserved_qty) for the pairs S.
RecalculateReserved(S) ==
  inventory' = [p \in Pairs |->
    IF p \in S THEN [inventory[p] EXCEPT !.reserved_qty = Rounded(TotalReserved(p)', Scale)]
               ELSE inventory[p]]

\* "Total reservations exceed available inventory": the sum that was just assigned
\* against the usable total that was read.
TotalsSuffice(S) == \A p \in S : TotalReserved(p)' <= inventory[p].usable_qty

\* Mutant: only the pairs of the new allocations are recalculated.
reserve_inventory_NewPairsOnly(r, new) ==
  LET reserved(b) == reserved_qty[b] + (new[b] - item_qty[r][b])
  IN  /\ \A b \in Batches : new[b] # item_qty[r][b] => reserved(b) <= usable_qty[b]
      /\ reserved_qty' = [b \in Batches |-> AtLeastZero(reserved(b))]
      /\ RecalculateReserved(PairsOf(PlanRows(new))) /\ TotalsSuffice(PairsOf(PlanRows(new)))
      /\ UNCHANGED usable_qty

\* Mutant: the old allocations are read after the rows were overwritten.
reserve_inventory_LateOld(r, new) ==
  /\ UNCHANGED <<usable_qty, reserved_qty>>
  /\ RecalculateReserved(PairsOf(PlanRows(new)))

\* Reserve the difference between the package's old rows and the new ones.
reserve_inventory(r, new) ==
  LET reserved(b) == reserved_qty[b] + (new[b] - item_qty[r][b])
  IN  /\ \A b \in Batches : new[b] # item_qty[r][b] => reserved(b) <= usable_qty[b]
      /\ reserved_qty' = [b \in Batches |-> AtLeastZero(reserved(b))]
      /\ RecalculateReserved(PairsOf(pkg_rows[r] \cup PlanRows(new)))
      /\ TotalsSuffice(PairsOf(pkg_rows[r] \cup PlanRows(new)))
      /\ UNCHANGED usable_qty

\* Both totals := the sums over the batches, for the pairs S.
RecalculateTotals(S) ==
  inventory' = [p \in Pairs |->
    IF p \in S THEN [usable_qty   |-> Rounded(TotalUsable(p)', Scale),
                     reserved_qty |-> Rounded(TotalReserved(p)', Scale)]
               ELSE inventory[p]]

\* Mutant: a dispatch clears the batch's reservations instead of its own.
commit_inventory_ClearsAll(q) ==
  /\ \A b \in Batches : q[b] <= usable_qty[b]
  /\ usable_qty' = [b \in Batches |-> usable_qty[b] - q[b]]
  /\ reserved_qty' = [b \in Batches |-> IF q[b] > 0 THEN 0 ELSE reserved_qty[b]]
  /\ RecalculateTotals(PairsOf(PlanRows(q)))

\* Deduct the package's rows q from the batches and recalculate the totals.
commit_inventory(q) ==
  /\ \A b \in Batches : q[b] <= usable_qty[b]
  /\ usable_qty' = [b \in Batches |-> usable_qty[b] - q[b]]
  /\ reserved_qty' = [b \in Batches |-> AtLeastZero(reserved_qty[b] - q[b])]
  /\ RecalculateTotals(PairsOf(PlanRows(q)))

-----------------------------------------------------------------------------
(* prepare_package: save_draft, submit_for_approval, send_for_dispatch.    *)

CanPrepare(r) == rqst[r] \in {"SUBMITTED", "PART_FILLED"}

_save_draft(u, r, f) ==
  /\ CanPrepare(r)
  /\ AllocationsValid(r, f, FALSE)
  /\ _process_allocations(r, f)
  /\ rqst_item' = [rqst_item EXCEPT ![r] = Stored(ProcessedItems(r, f))]
  /\ pkg' = [pkg EXCEPT ![r] = [PackageFor(r, u) EXCEPT !.verify_by_id = "NULL"]]
  /\ rqst' = [rqst EXCEPT ![r] = "PART_FILLED"]
  /\ reserve_inventory(r, f.qty)
  /\ DatabaseChecks'

\* Mutant: the request is sent back to the state before its submission.
_submit_for_approval_WrongStatus(u, r, f) ==
  /\ CanPrepare(r)
  /\ pkg[r].status_code = "P" => pkg[r].create_by_id = u
  /\ AllocationsValid(r, f, FALSE)
  /\ _process_allocations(r, f)
  /\ rqst_item' = [rqst_item EXCEPT ![r] = Stored(ProcessedItems(r, f))]
  /\ pkg' = [pkg EXCEPT ![r] = [PackageFor(r, u) EXCEPT !.status_code = "P",
                                                        !.verify_by_id = "PENDING_LM"]]
  /\ rqst' = [rqst EXCEPT ![r] = "AWAITING_APPROVAL"]
  /\ reserve_inventory(r, f.qty)
  /\ DatabaseChecks'

\* A pending package can be submitted by its creator only.
_submit_for_approval(u, r, f) ==
  /\ CanPrepare(r)
  /\ pkg[r].status_code = "P" => pkg[r].create_by_id = u
  /\ AllocationsValid(r, f, FALSE)
  /\ _process_allocations(r, f)
  /\ rqst_item' = [rqst_item EXCEPT ![r] = Stored(ProcessedItems(r, f))]
  /\ pkg' = [pkg EXCEPT ![r] = [PackageFor(r, u) EXCEPT !.status_code = "P",
                                                        !.verify_by_id = "PENDING_LM"]]
  /\ rqst' = [rqst EXCEPT ![r] = "PART_FILLED"]
  /\ reserve_inventory(r, f.qty)
  /\ DatabaseChecks'

Dispatched(p) ==
  [p EXCEPT !.status_code = "D", !.dispatch_dtime = TRUE, !.verify_by_id = "LM"]

\* Mutant: the stock is committed before the new rows are flushed.
_send_for_dispatch_Unflushed(u, r, f) ==
  /\ CanPrepare(r)
  /\ AllocationsValid(r, f, TRUE)
  /\ _process_allocations(r, f)
  /\ rqst_item' = [rqst_item EXCEPT ![r] = Stored(ProcessedItems(r, f))]
  /\ pkg' = [pkg EXCEPT ![r] = Dispatched(PackageFor(r, u))]
  /\ rqst' = [rqst EXCEPT ![r] = "PART_FILLED"]
  /\ commit_inventory(item_qty[r])
  /\ DatabaseChecks'

\* The manager dispatches straight from the preparation page: the package's
\* status is not looked at and nothing is reserved first.
_send_for_dispatch(u, r, f) ==
  /\ CanPrepare(r)
  /\ AllocationsValid(r, f, TRUE)
  /\ _process_allocations(r, f)
  /\ rqst_item' = [rqst_item EXCEPT ![r] = Stored(ProcessedItems(r, f))]
  /\ pkg' = [pkg EXCEPT ![r] = Dispatched(PackageFor(r, u))]
  /\ rqst' = [rqst EXCEPT ![r] = "PART_FILLED"]
  /\ commit_inventory(f.qty)
  /\ DatabaseChecks'

-----------------------------------------------------------------------------
(* approve_package and review_approval: the manager's pages for a package  *)
(* that is pending.                                                        *)

IsPending(r) == pkg[r].status_code = "P" /\ ~pkg[r].dispatch_dtime

_save_draft_approval(r, f) ==
  /\ IsPending(r)
  /\ AllocationsValid(r, f, FALSE)
  /\ _process_allocations(r, f)
  /\ rqst_item' = [rqst_item EXCEPT ![r] = Stored(ProcessedItems(r, f))]
  /\ pkg' = [pkg EXCEPT ![r].status_code = "P"]
  /\ reserve_inventory(r, f.qty)
  /\ UNCHANGED rqst
  /\ DatabaseChecks'

AllUnavailable(r, items) ==
  \A i \in RequestedItems(r) : items[i].status_code \in Unavailable

\* abs(issue_qty - total) <= Decimal('0.001'), a tenth of Scale.
SameQty(issue_qty, total) ==
  10 * (issue_qty - total) <= Scale /\ 10 * (total - issue_qty) <= Scale

\* The integrity checks before an approved package leaves: rows, quantities
\* and item records agree, and there is something to send (some_allocated) unless
\* every item is unavailable.
ReadyToDispatch(r, items, rows, qty, some_allocated) ==
  /\ rows # {} \/ AllUnavailable(r, items)
  /\ \A i \in RequestedItems(r) : SameQty(items[i].issue_qty, TotalOf(qty, i))
  /\ some_allocated \/ AllUnavailable(r, items)

_approve_and_dispatch(r, f) ==
  /\ IsPending(r)
  /\ AllocationsValid(r, f, FALSE)
  /\ ReadyToDispatch(r, ProcessedItems(r, f), f.rows, f.qty, PlanRows(f.qty) # {})
  /\ _process_allocations(r, f)
  /\ rqst_item' = [rqst_item EXCEPT ![r] = Stored(
       [i \in Items |-> IF i \in RequestedItems(r)
          THEN [ProcessedItems(r, f)[i] EXCEPT !.issue_qty = TotalOf(f.qty, i)]
          ELSE rqst_item[r][i]])]
  /\ pkg' = [pkg EXCEPT ![r] = Dispatched(@)]
  /\ commit_inventory(f.qty)
  /\ rqst' = [rqst EXCEPT ![r] = "PART_FILLED"]
  /\ DatabaseChecks'

review_approve(r) ==
  /\ IsPending(r)
  /\ ReadyToDispatch(r, rqst_item[r], pkg_rows[r], item_qty[r],
                     \E i \in RequestedItems(r) : rqst_item[r][i].issue_qty > 0)
  /\ pkg' = [pkg EXCEPT ![r] = Dispatched(@)]
  /\ commit_inventory(item_qty[r])
  /\ rqst' = [rqst EXCEPT ![r] = "PART_FILLED"]
  /\ UNCHANGED <<rqst_item, pkg_rows, item_qty>>
  /\ DatabaseChecks'

review_reject(r) ==
  /\ IsPending(r)
  /\ pkg' = [pkg EXCEPT ![r].verify_by_id = "NULL", ![r].status_code = "P"]
  /\ UNCHANGED <<rqst, rqst_item, pkg_rows, item_qty, stockVars>>
  /\ DatabaseChecks'

-----------------------------------------------------------------------------
(* Workflow C (dispatch_service): undo the officer's reservations, then    *)
(* deplete usable stock by the manager's plan q.                           *)

_undo_lo_reservations(r) ==
  /\ \A b \in Batches : item_qty[r][b] <= reserved_qty[b]
  /\ \A p \in Pairs : SumOver(BatchesAt(p), item_qty[r]) <= inventory[p].reserved_qty
  /\ reserved_qty' = [b \in Batches |-> reserved_qty[b] - item_qty[r][b]]

_deplete_usable_stock(q) ==
  /\ \A b \in Batches : q[b] <= usable_qty[b]
  /\ \A p \in Pairs : SumOver(BatchesAt(p), q) <= inventory[p].usable_qty
  /\ usable_qty' = [b \in Batches |-> usable_qty[b] - q[b]]

\* Both totals per warehouse and item are decremented, not recalculated: the
\* stored total minus the exact sum, rounded again.
DecrementTotals(r, q) ==
  inventory' = [p \in Pairs |->
    [usable_qty   |-> Rounded(inventory[p].usable_qty - SumOver(BatchesAt(p), q), Scale),
     reserved_qty |-> Rounded(inventory[p].reserved_qty
                                - SumOver(BatchesAt(p), item_qty[r]), Scale)]]

undo_and_deplete(r, q) ==
  _undo_lo_reservations(r) /\ _deplete_usable_stock(q) /\ DecrementTotals(r, q)

\* Rows the plan does not name stay with quantity 0.
_overwrite_package_items(r, q) ==
  /\ pkg_rows' = [pkg_rows EXCEPT ![r] = @ \cup PlanRows(q)]
  /\ item_qty' = [item_qty EXCEPT ![r] = q]

\* The plan's quantities are added to issue_qty.
_update_dispatch_records(r, q) ==
  /\ pkg' = [pkg EXCEPT ![r] = Dispatched(@)]
  /\ rqst_item' = [rqst_item EXCEPT ![r] = Stored(
       [i \in Items |-> IF i \in RequestedItems(r)
          THEN [rqst_item[r][i] EXCEPT !.issue_qty = @ + TotalOf(q, i)]
          ELSE rqst_item[r][i]])]
  /\ rqst' = [rqst EXCEPT ![r] = "PART_FILLED"]

submit_for_dispatch(r, q) ==
  /\ pkg[r].status_code = "P"
  /\ undo_and_deplete(r, q)
  /\ _overwrite_package_items(r, q)
  /\ _update_dispatch_records(r, q)
  /\ DatabaseChecks'

-----------------------------------------------------------------------------
(* Cancellation and handover.                                              *)

\* Mutant: the package is deleted and its rows are not.
cancel_relief_package_KeepsRows(r) ==
  /\ pkg[r].status_code \in {"P", "D"}
  /\ \A b \in Batches : item_qty[r][b] <= reserved_qty[b]
  /\ reserved_qty' = [b \in Batches |-> reserved_qty[b] - item_qty[r][b]]
  /\ RecalculateReserved(PairsOf(PlanRows(item_qty[r])))
  /\ pkg' = [pkg EXCEPT ![r] = NoPkg]
  /\ UNCHANGED <<pkg_rows, item_qty, usable_qty>>

\* A pending or a dispatched package is deleted and its rows are released
\* from the batches.
cancel_relief_package(r) ==
  /\ pkg[r].status_code \in {"P", "D"}
  /\ \A b \in Batches : item_qty[r][b] <= reserved_qty[b]
  /\ reserved_qty' = [b \in Batches |-> reserved_qty[b] - item_qty[r][b]]
  /\ RecalculateReserved(PairsOf(PlanRows(item_qty[r])))
  /\ pkg' = [pkg EXCEPT ![r] = NoPkg]
  /\ pkg_rows' = [pkg_rows EXCEPT ![r] = {}]
  /\ item_qty' = [item_qty EXCEPT ![r] = NoQty]
  /\ UNCHANGED usable_qty

cancel_package(r) ==
  /\ cancel_relief_package(r)
  /\ UNCHANGED <<rqst, rqst_item>>
  /\ DatabaseChecks'

\* Release the rows q that are found in the package.
release_all_reservations(q) ==
  /\ reserved_qty' = [b \in Batches |-> AtLeastZero(reserved_qty[b] - q[b])]
  /\ RecalculateReserved(PairsOf(PlanRows(q)))
  /\ UNCHANGED usable_qty

\* The rows are deleted and flushed before release_all_reservations reads
\* them, so it finds none.
cancel_preparation(r) ==
  /\ pkg[r].status_code # "none"
  /\ pkg_rows' = [pkg_rows EXCEPT ![r] = {}]
  /\ item_qty' = [item_qty EXCEPT ![r] = NoQty]
  /\ release_all_reservations(NoQty)
  /\ UNCHANGED <<rqst, rqst_item, pkg>>
  /\ DatabaseChecks'

\* A clerk of the warehouses ws confirms the handover to the agency.
mark_handover(r, ws) ==
  /\ pkg[r].status_code = "D" /\ ~pkg[r].received_dtime
  /\ \E b \in pkg_rows[r] : WarehouseOf[b] \in ws
  /\ pkg' = [pkg EXCEPT ![r].received_dtime = TRUE]
  /\ UNCHANGED <<rqst, rqst_item, pkg_rows, item_qty, stockVars>>
  /\ DatabaseChecks'

-----------------------------------------------------------------------------
(* The pages that list the work: the tabs of pending_fulfillment for       *)
(* officers and managers, the manager's approval queue, the clerks' queue  *)
(* and the packages handed over.  Search terms, ordering and the 30-day    *)
(* filter of the last page are left out.                                   *)

has_pending_approval(r) ==
  /\ rqst[r] = "PART_FILLED"
  /\ pkg[r].status_code = "P" /\ ~pkg[r].dispatch_dtime
  /\ pkg[r].verify_by_id = "PENDING_LM"

\* Mutant: a package the agency received no longer counts as dispatched.
has_dispatched_package_Unreceived(r) ==
  pkg[r].status_code = "D" /\ ~pkg[r].received_dtime

has_dispatched_package(r) == pkg[r].status_code = "D"

InStatus(s) == {r \in Requests : rqst[r] = s}
TotalQty(r) == SumOver(pkg_rows[r], item_qty[r])

get_awaiting_requests ==
  {r \in InStatus("SUBMITTED") : ~has_pending_approval(r) /\ ~has_dispatched_package(r)}
get_in_progress_requests ==
  {r \in InStatus("PART_FILLED") : ~has_pending_approval(r) /\ ~has_dispatched_package(r)}
get_pending_approval_requests ==
  {r \in InStatus("SUBMITTED") \cup InStatus("PART_FILLED") : has_pending_approval(r)}
get_approved_packages_with_items ==
  {r \in Requests : /\ pkg[r].status_code = "D" /\ ~pkg[r].received_dtime
                    /\ TotalQty(r) # 0}
get_approved_packages_no_items ==
  {r \in Requests : /\ pkg[r].status_code = "D" /\ ~pkg[r].received_dtime
                    /\ ~(TotalQty(r) > 0)}
dispatch_received ==
  {r \in Requests : pkg[r].status_code = "D" /\ pkg[r].received_dtime}

Tabs == {"awaiting", "in_progress", "pending_approval", "approved_for_dispatch",
         "approved_no_allocation", "received"}

pending_fulfillment(tab) ==
  CASE tab = "awaiting"               -> get_awaiting_requests
    [] tab = "in_progress"            -> get_in_progress_requests
    [] tab = "pending_approval"       -> get_pending_approval_requests
    [] tab = "approved_for_dispatch"  -> get_approved_packages_with_items
    [] tab = "approved_no_allocation" -> get_approved_packages_no_items
    [] tab = "received"               -> dispatch_received

\* What a manager is asked to approve.
pending_approval ==
  {r \in InStatus("SUBMITTED") \cup InStatus("PART_FILLED") :
     pkg[r].status_code = "P" /\ pkg[r].verify_by_id # "NULL" /\ ~pkg[r].dispatch_dtime}

\* What a clerk of the warehouses ws is asked to hand over.
awaiting_dispatch(ws) ==
  {r \in Requests : /\ pkg[r].status_code = "D" /\ ~pkg[r].received_dtime
                    /\ \E b \in pkg_rows[r] : WarehouseOf[b] \in ws}

-----------------------------------------------------------------------------
Init ==
  /\ rqst = [r \in Requests |-> "SUBMITTED"]
  /\ rqst_item = [r \in Requests |-> [i \in Items |-> [status_code |-> "R", issue_qty |-> 0]]]
  /\ pkg = [r \in Requests |-> NoPkg]
  /\ pkg_rows = [r \in Requests |-> {}]
  /\ item_qty = [r \in Requests |-> NoQty]
  /\ usable_qty = InitialUsable
  /\ reserved_qty = NoQty
  /\ inventory = [p \in Pairs |->
       [usable_qty   |-> Rounded(SumOver(BatchesAt(p), InitialUsable), Scale),
        reserved_qty |-> 0]]

PreparePackage(r) == \E f \in Forms[r] :
  \/ \E u \in Users : _save_draft(u, r, f)
  \/ \E u \in Officers : _submit_for_approval(u, r, f)
  \/ \E u \in Managers : _send_for_dispatch(u, r, f)

ApprovePackage(r) == \E f \in Forms[r] :
  \/ _save_draft_approval(r, f)
  \/ _approve_and_dispatch(r, f)

ReviewApproval(r) == review_approve(r) \/ review_reject(r)

SubmitForDispatch(r) == \E q \in Plans :
  /\ PlanRows(q) = {} => AllUnavailable(r, rqst_item[r])
  /\ submit_for_dispatch(r, q)

Next == \E r \in Requests :
  \/ PreparePackage(r)
  \/ ApprovePackage(r)
  \/ ReviewApproval(r)
  \/ SubmitForDispatch(r)
  \/ cancel_package(r)
  \/ cancel_preparation(r)
  \/ \E ws \in SUBSET Warehouses : mark_handover(r, ws)

Spec == Init /\ [][Next]_vars
-----------------------------------------------------------------------------
(* Correctness.                                                            *)

\* Types of the rows; quantities are natural numbers and a reservation never
\* exceeds the stock it is made on (c_itembatch_2, c_inventory_2).
TypeOK ==
  /\ rqst \in [Requests -> {"SUBMITTED", "PART_FILLED"}]
  /\ rqst_item \in [Requests -> [Items -> [status_code : ItemStatuses, issue_qty : Nat]]]
  /\ pkg \in [Requests -> ReliefPkg]
  /\ pkg_rows \in [Requests -> SUBSET Batches]
  /\ item_qty \in [Requests -> [Batches -> Nat]]
  /\ usable_qty \in [Batches -> Nat]
  /\ reserved_qty \in [Batches -> Nat]
  /\ inventory \in [Pairs -> [usable_qty : Nat, reserved_qty : Nat]]
  /\ DatabaseChecks

\* Quantities live in rows of packages that exist, and only a dispatched
\* package is handed over.
RowsBelongToPackage ==
  \A r \in Requests :
    /\ pkg[r].status_code = "none" => pkg_rows[r] = {}
    /\ PlanRows(item_qty[r]) \subseteq pkg_rows[r]
    /\ pkg[r].received_dtime => pkg[r].status_code = "D"

\* No work falls between the pages: a request is always on exactly one tab,
\* whatever saves, rejections, cancellations and handovers it went through, the
\* officers' pending_approval tab and the manager's queue, which test the request
\* and verify_by_id differently, show the same packages, and a dispatched package
\* that holds something is in the queue of some warehouse's clerk.
EveryRequestOnOneTab ==
  /\ \A r \in Requests : \E tab \in Tabs :
       /\ r \in pending_fulfillment(tab)
       /\ \A other \in Tabs \ {tab} : r \notin pending_fulfillment(other)
  /\ pending_approval = get_pending_approval_requests
  /\ \A r \in get_approved_packages_with_items :
       \E w \in Warehouses : r \in awaiting_dispatch({w})

\* A dispatched package stays dispatched until it is deleted, although the
\* preparation page never looks at the package's status: saving keeps it and
\* c_reliefpkg_2 refuses a resubmission.
DispatchNeverUndone ==
  [][\A r \in Requests :
       pkg[r].status_code = "D" => pkg'[r].status_code \in {"D", "none"}]_vars

\* What the packages with the given status hold of batch b.
Holding(status, b) ==
  [r \in Requests |-> IF pkg[r].status_code = status THEN item_qty[r][b] ELSE 0]
Claimed(b) == SumOver(Requests, Holding("P", b))
Shipped(b) == SumOver(Requests, Holding("D", b))

ReservationsExact    == \A b \in Batches : reserved_qty[b] = Claimed(b)
ReservationsCovering == \A b \in Batches : Claimed(b) <= reserved_qty[b]
StockBalanced        == \A b \in Batches : usable_qty[b] + Shipped(b) = InitialUsable[b]

\* The step works on the package of r and on no other.
StepOf(r) == \A s \in Requests \ {r} :
  pkg'[s] = pkg[s] /\ item_qty'[s] = item_qty[s]

\* The ways the books can go wrong.
AltersDispatched(r) ==  \* a package already dispatched is saved, sent or cancelled again
  /\ StepOf(r) /\ pkg[r].status_code = "D"
  /\ \/ pkg'[r].status_code # "D"
     \/ item_qty'[r] # item_qty[r]
     \/ usable_qty' # usable_qty \/ reserved_qty' # reserved_qty
AbandonsRows(r) ==      \* cancel_preparation drops the rows and keeps the reservation
  /\ StepOf(r) /\ pkg[r].status_code = "P" /\ pkg'[r].status_code = "P"
  /\ PlanRows(item_qty[r]) # {} /\ pkg_rows'[r] = {}
  /\ reserved_qty' = reserved_qty
EditsOnDispatch(r) ==   \* the quantities change in the POST that dispatches
  /\ StepOf(r) /\ pkg[r].status_code # "D" /\ pkg'[r].status_code = "D"
  /\ item_qty'[r] # item_qty[r]
GrowsOnDispatch(r) ==   \* ... and one of them grows
  EditsOnDispatch(r) /\ \E b \in Batches : item_qty'[r][b] > item_qty[r][b]

\* A step keeps the books unless it goes wrong in one of these ways.
BalanceStep ==
  StockBalanced => StockBalanced' \/ \E r \in Requests : AltersDispatched(r)
ReservationStep ==
  ReservationsExact => \/ ReservationsExact'
                       \/ \E r \in Requests : \/ AltersDispatched(r)
                                              \/ AbandonsRows(r)
                                              \/ EditsOnDispatch(r)
CoverageStep ==
  ReservationsCovering => \/ ReservationsCovering'
                          \/ \E r \in Requests : AltersDispatched(r) \/ GrowsOnDispatch(r)

\* Workflow C moves a quantity that is not a whole number of hundredths at some
\* warehouse, and decrements the totals by it.
DecrementsFraction(r) ==
  /\ StepOf(r) /\ pkg[r].status_code = "P" /\ pkg'[r].status_code = "D"
  /\ DecrementTotals(r, item_qty'[r])
  /\ \E p \in Pairs : \/ ~Whole(SumOver(BatchesAt(p), item_qty[r]), Scale)
                      \/ ~Whole(SumOver(BatchesAt(p), item_qty'[r]), Scale)

TotalsRounded ==
  \A p \in Pairs : /\ inventory[p].usable_qty = Rounded(TotalUsable(p), Scale)
                   /\ inventory[p].reserved_qty = Rounded(TotalReserved(p), Scale)

TotalsStep ==
  TotalsRounded => TotalsRounded' \/ \E r \in Requests : DecrementsFraction(r)

\* The totals of a warehouse are the sums over its batches, rounded, although some
\* handlers recalculate them, only for the pairs they list as affected
\* (reserve_inventory, commit_inventory, cancel_relief_package), and Workflow C
\* decrements them: the rounding errors of its decrements are the one way in which
\* totals and batches come apart.
TotalsDrift == [][TotalsStep]_vars

\* Stock and packages agree on what left each batch, for ever unless a package
\* is altered after its dispatch: every dispatch path deducts exactly the rows
\* it leaves in the package.
StockBalanceDrift == [][BalanceStep]_vars

\* reserved_qty is what pending packages hold, and stays so through drafts,
\* submissions, approvals, rejections, Workflow C and cancellations, unless a
\* dispatched package is altered, a preparation is cancelled (its rows are
\* deleted before they are released) or a dispatch changes the quantities
\* without reserving them first.
ReservationDrift == [][ReservationStep]_vars

\* A pending package's rows stay covered by reservations unless a dispatched
\* package is altered or a dispatch takes more than its package had reserved.
CoverageDrift == [][CoverageStep]_vars

\* The handlers keep the books of the abstract ledger: whatever the item
\* statuses, the form and the page, a POST reserves, dispatches, replaces,
\* releases or drops one package's rows, with the batches to match.
Ledger == INSTANCE StockLedger
  WITH Packages <- Requests, status <- [r \in Requests |-> pkg[r].status_code]
ImplementsLedger == Ledger!Spec

-----------------------------------------------------------------------------
(* What the documentation says and the code does not do.                   *)

\* "Manages inventory reservations during package preparation to prevent
\* double-allocation across concurrent package fulfillment operations."
NoDoubleAllocation == \A b \in Batches : Claimed(b) <= usable_qty[b]

\* "Ensures consistency: sum(itembatch.reserved_qty) == inventory.reserved_qty for
\* each (item_id, inventory_id) pair", and commit_inventory's comment for both totals.
InventoryMatchesBatches ==
  \A p \in Pairs : /\ inventory[p].usable_qty = TotalUsable(p)
                   /\ inventory[p].reserved_qty = TotalReserved(p)
=============================================================================
