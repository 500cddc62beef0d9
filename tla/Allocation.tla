------------------------------ MODULE Allocation ------------------------------
(***************************************************************************)
(* How the batches of an item are offered to a package: the automatic      *)
(* allocation and the batch drawer of services/batch_allocation_service.py *)
(* and the two endpoints of features/packaging.py that call them.          *)
(*                                                                         *)
(* Both read the batches once and then go through them in an order; one    *)
(* step below is one iteration of that loop. The queries name no ORDER BY, *)
(* and sorted() keeps the order of equal keys, so batches with equal keys  *)
(* come in any order. What is posted back is checked by                    *)
(* validate_batch_allocation and is the subject of module Fulfillment.     *)
(*                                                                         *)
(* The stock and the item's settings are any; they do not change while a   *)
(* response is computed. Dates are positive numbers and NULL is 0. The     *)
(* unit filter and the statuses of batch, stock row and warehouse are one  *)
(* flag, active. Names and numbers that a response carries are left out.   *)
(***************************************************************************)
EXTENDS Quantities, Sequences

CONSTANTS
  Batches, Warehouses,
  inventory_id,     \* the warehouse of each batch
  ItemBatch,        \* the rows itembatch may hold
  Allocations,      \* what a package may have of the batches
  Today, MaxDate,
  MaxQty            \* bound on a quantity that is asked for

ASSUME AllocationAssumptions ==
  /\ IsFiniteSet(Batches)
  /\ inventory_id \in [Batches -> Warehouses]
  /\ ItemBatch \subseteq [active : BOOLEAN, batch_date : 0 .. MaxDate, expiry_date : 0 .. MaxDate,
                          usable_qty : Nat, reserved_qty : Nat]
  /\ \A row \in ItemBatch : row.reserved_qty <= row.usable_qty
  /\ Allocations \subseteq [Batches -> Nat]
  /\ Today \in Nat /\ MaxDate \in Nat /\ MaxQty \in Nat

VARIABLES
  itembatch,     \* the rows of the item's batches
  saved,         \* what the rows of the page's package hold of each batch
  item,          \* the item's can_expire_flag and issuance_order
  call,          \* the endpoint that runs, and whether it has answered
  scope,         \* the warehouses the call is about
  requested,     \* the quantity the call, or the page that makes it, is about
  current,       \* what is picked of each batch on the page, saved or not yet
  todo,          \* the batches the loop has still to visit, in order
  remaining,     \* remaining_qty
  allocated,     \* allocated_qty of each batch
  limited,       \* limited_batches
  fulfilled,     \* the warehouses that have fulfilled
  cumulative,    \* warehouse_cumulative_qty of each warehouse
  available,     \* cumulative_available
  batch_groups   \* the priority group of the first batches of limited

stock_vars  == <<itembatch, saved, item>>
input_vars  == <<scope, requested, current>>
auto_vars   == <<allocated>>
drawer_vars == <<limited, fulfilled, cumulative, available, batch_groups>>
vars == <<stock_vars, call, input_vars, todo, remaining, auto_vars, drawer_vars>>

NULL == 0
NoBatch == [b \in Batches |-> 0]

-----------------------------------------------------------------------------
(* Keys and orders.                                                        *)

\* Python's order of two tuples of the same length.
Less(k, l) ==
  \E i \in DOMAIN k : k[i] < l[i] /\ \A j \in DOMAIN k : j < i => k[j] = l[j]

Available(b) == itembatch[b].usable_qty - itembatch[b].reserved_qty

ExpiryLast(b)    == IF itembatch[b].expiry_date = NULL THEN MaxDate + 1 ELSE itembatch[b].expiry_date
BatchDateLast(b) == IF itembatch[b].batch_date = NULL THEN MaxDate + 1 ELSE itembatch[b].batch_date

\* Mutant: batches without an expiry date come first.
AllocationKey_NullFirst(b) ==
  CASE item.issuance_order = "FEFO" /\ item.can_expire_flag ->
         <<itembatch[b].expiry_date, BatchDateLast(b), -Available(b)>>
    [] item.issuance_order = "LIFO" -> <<-itembatch[b].batch_date, -Available(b)>>
    [] OTHER                        -> <<itembatch[b].batch_date, -Available(b)>>

\* The key of sort_batches_by_allocation_rule. A batch without a date is the
\* oldest one for FIFO and for LIFO, and the youngest one for FEFO.
AllocationKey(b) ==
  CASE item.issuance_order = "FEFO" /\ item.can_expire_flag ->
         <<ExpiryLast(b), BatchDateLast(b), -Available(b)>>
    [] item.issuance_order = "LIFO" -> <<-itembatch[b].batch_date, -Available(b)>>
    [] OTHER                        -> <<itembatch[b].batch_date, -Available(b)>>

\* The key of sort_batches_for_drawer, which ignores issuance_order.
DrawerKey(b) ==
  IF item.can_expire_flag THEN <<ExpiryLast(b), BatchDateLast(b)>>
                          ELSE <<itembatch[b].batch_date>>

\* The sequences that hold each element of S once.
Orders(S) ==
  {s \in [1 .. Cardinality(S) -> S] :
     \A b \in S : \E i \in DOMAIN s : s[i] = b /\ \A j \in DOMAIN s : s[j] = b => j = i}

\* Mutant: batches are offered whatever their dates.
NotExpired_Any(b) == b \in Batches

\* An expired batch of an item that can expire is never offered.
NotExpired(b) ==
  item.can_expire_flag => \/ itembatch[b].expiry_date = NULL
                          \/ itembatch[b].expiry_date >= Today

-----------------------------------------------------------------------------
(* auto_allocate_batches.                                                  *)

\* W holds the warehouse that was asked for, or all of them.
get_available_batches(W) ==
  {b \in Batches : itembatch[b].active /\ Available(b) > 0 /\ inventory_id[b] \in W}

sort_batches_by_allocation_rule(S) ==
  {s \in Orders({b \in S : NotExpired(b) /\ Available(b) > 0}) :
     \A i, j \in DOMAIN s : i < j => ~ Less(AllocationKey(s[j]), AllocationKey(s[i]))}

auto_allocate_item(q, W) ==
  /\ call = "idle"
  /\ q > 0
  /\ call' = "auto"
  /\ scope' = W
  /\ requested' = q
  /\ remaining' = q
  /\ todo' \in sort_batches_by_allocation_rule(get_available_batches(W))
  /\ allocated' = NoBatch
  /\ UNCHANGED <<stock_vars, current, drawer_vars>>

Smaller(m, n) == IF m < n THEN m ELSE n

\* Mutant: the whole batch is taken.
Take_All(b) == Available(b)

Take(b) == Smaller(Available(b), remaining)

\* One iteration of the loop of auto_allocate_batches.
auto_allocate_batches ==
  /\ call = "auto"
  /\ todo # << >> /\ remaining > 0
  /\ LET b == Head(todo) IN
       /\ allocated' = [allocated EXCEPT ![b] = Take(b)]
       /\ remaining' = remaining - Take(b)
  /\ todo' = Tail(todo)
  /\ UNCHANGED <<stock_vars, call, input_vars, drawer_vars>>

\* Mutant: the last batch is not visited.
auto_allocate_response_Early ==
  /\ call = "auto"
  /\ Len(todo) <= 1 \/ remaining <= 0
  /\ call' = "auto_done"
  /\ UNCHANGED <<stock_vars, input_vars, todo, remaining, auto_vars, drawer_vars>>

auto_allocate_response ==
  /\ call = "auto"
  /\ todo = << >> \/ remaining <= 0
  /\ call' = "auto_done"
  /\ UNCHANGED <<stock_vars, input_vars, todo, remaining, auto_vars, drawer_vars>>

\* What is still missing after the response.
shortage == remaining

\* The check of an allocation that is posted; every batch with a date expires.
validate_batch_allocation(b, qty, current_qty) ==
  /\ itembatch[b].active
  /\ itembatch[b].expiry_date = NULL \/ itembatch[b].expiry_date >= Today
  /\ qty > 0
  /\ qty <= itembatch[b].usable_qty - (itembatch[b].reserved_qty - current_qty)

-----------------------------------------------------------------------------
(* get_limited_batches_for_drawer.                                         *)

is_allocated(b) == current[b] > 0

\* Mutant: the package's own quantity is taken off twice.
calc_available_qty_Twice(b) ==
  itembatch[b].usable_qty - (itembatch[b].reserved_qty + current[b])

\* Mutant: what other packages have reserved counts as available too.
calc_available_qty_Usable(b) == itembatch[b].usable_qty

\* What is picked on the page counts as available to its package.
calc_available_qty(b) ==
  itembatch[b].usable_qty - (itembatch[b].reserved_qty - current[b])

\* The available batches and those that are picked.
all_batches ==
  get_available_batches(Warehouses) \cup {b \in Batches : itembatch[b].active /\ is_allocated(b)}

\* The batches that the grouping by warehouse and the filters of
\* sort_batches_for_drawer keep. No group is left without a batch.
drawer_batches ==
  {b \in all_batches : /\ NotExpired(b)
                       /\ calc_available_qty(b) > 0 \/ is_allocated(b)
                       /\ Available(b) > 0 \/ is_allocated(b)}

\* Mutant: the batches of a warehouse are not sorted.
sort_batches_for_drawer_Unsorted(S) ==
  {s \in Orders(S) : \A i, j \in DOMAIN s : i < j /\ inventory_id[s[i]] = inventory_id[s[j]] =>
     \A k \in i .. j : inventory_id[s[k]] = inventory_id[s[i]]}

\* Sorted within a warehouse; the warehouses follow each other in any order.
sort_batches_for_drawer(S) ==
  {s \in Orders(S) : \A i, j \in DOMAIN s : i < j /\ inventory_id[s[i]] = inventory_id[s[j]] =>
     /\ ~ Less(DrawerKey(s[j]), DrawerKey(s[i]))
     /\ \A k \in i .. j : inventory_id[s[k]] = inventory_id[s[i]]}

\* The page asks for what is not picked yet; its hidden inputs hold the picks, those
\* since the last save included.
loadBatches(q, cur) ==
  /\ call = "idle"
  /\ call' = "load"
  /\ requested' = q
  /\ current' = cur
  /\ remaining' = q - SumOver(Batches, cur)
  /\ UNCHANGED <<stock_vars, scope, todo, auto_vars, drawer_vars>>

get_item_batches ==
  /\ call = "load"
  /\ call' = "drawer"
  /\ todo' \in sort_batches_for_drawer(drawer_batches)
  /\ limited' = << >>
  /\ fulfilled' = {}
  /\ cumulative' = [w \in Warehouses |-> 0]
  /\ available' = 0
  /\ batch_groups' = << >>
  /\ UNCHANGED <<stock_vars, input_vars, remaining, auto_vars>>

\* The batches that are picked, and others until the warehouse has enough.
Shows(b) == is_allocated(b) \/ inventory_id[b] \notin fulfilled

\* One iteration of the loop of get_limited_batches_for_drawer.
get_limited_batches_for_drawer ==
  /\ call = "drawer"
  /\ todo # << >>
  /\ LET b == Head(todo)
         w == inventory_id[b]
         qty == cumulative[w] + calc_available_qty(b)
     IN  IF Shows(b)
         THEN /\ limited' = Append(limited, b)
              /\ cumulative' = [cumulative EXCEPT ![w] = qty]
              /\ available' = available + calc_available_qty(b)
              /\ fulfilled' = IF qty >= remaining THEN fulfilled \cup {w} ELSE fulfilled
              /\ UNCHANGED batch_groups
         ELSE UNCHANGED drawer_vars
  /\ todo' = Tail(todo)
  /\ UNCHANGED <<stock_vars, call, input_vars, remaining, auto_vars>>

shortfall == IF remaining > available THEN remaining - available ELSE 0

\* Mutant: the batch date is not part of the key.
PriorityKey_NoDate(b) ==
  IF item.issuance_order = "FEFO" /\ item.can_expire_flag
  THEN <<itembatch[b].expiry_date>>
  ELSE <<itembatch[b].batch_date>>

PriorityKey(b) ==
  IF item.issuance_order = "FEFO" /\ item.can_expire_flag
  THEN <<itembatch[b].expiry_date, itembatch[b].batch_date>>
  ELSE <<itembatch[b].batch_date>>

\* One iteration of the loop of assign_priority_groups: the group changes when
\* the key does.
assign_priority_groups ==
  LET n == Len(batch_groups)
      current_group_id == IF n = 0 THEN 0 ELSE batch_groups[n]
      changed == n > 0 /\ PriorityKey(limited[n + 1]) # PriorityKey(limited[n])
  IN  /\ call = "drawer" /\ todo = << >>
      /\ n < Len(limited)
      /\ batch_groups' = Append(batch_groups,
                                IF changed THEN current_group_id + 1 ELSE current_group_id)
      /\ UNCHANGED <<stock_vars, call, input_vars, todo, remaining, auto_vars,
                     limited, fulfilled, cumulative, available>>

drawer_response ==
  /\ call = "drawer"
  /\ todo = << >> /\ Len(batch_groups) = Len(limited)
  /\ call' = "drawer_done"
  /\ UNCHANGED <<stock_vars, input_vars, todo, remaining, auto_vars, drawer_vars>>

-----------------------------------------------------------------------------
(* The specification.                                                      *)

Items == [can_expire_flag : BOOLEAN, issuance_order : {"FEFO", "FIFO", "LIFO"}]

Init ==
  /\ itembatch \in [Batches -> ItemBatch]
  /\ saved \in Allocations
  /\ item \in Items
  /\ call = "idle"
  /\ requested = 0 /\ scope = {} /\ current = NoBatch
  /\ todo = << >> /\ remaining = 0
  /\ allocated = NoBatch
  /\ limited = << >> /\ fulfilled = {} /\ available = 0
  /\ cumulative = [w \in Warehouses |-> 0]
  /\ batch_groups = << >>

Next ==
  \/ \E q \in 1 .. MaxQty, W \in {Warehouses} \cup {{w} : w \in Warehouses} :
       auto_allocate_item(q, W)
  \/ auto_allocate_batches
  \/ auto_allocate_response
  \/ \E q \in 1 .. MaxQty, cur \in Allocations : loadBatches(q, cur)
  \/ get_item_batches
  \/ get_limited_batches_for_drawer
  \/ assign_priority_groups
  \/ drawer_response

Spec == Init /\ [][Next]_vars

-----------------------------------------------------------------------------
(* Properties.                                                             *)

\* Every variable has its type: no loop counts a batch as less than nothing.
TypeOK ==
  /\ itembatch \in [Batches -> ItemBatch]
  /\ saved \in Allocations
  /\ item \in Items
  /\ call \in {"idle", "auto", "auto_done", "load", "drawer", "drawer_done"}
  /\ requested \in Nat /\ scope \in SUBSET Warehouses /\ current \in [Batches -> Nat]
  /\ todo \in Seq(Batches) /\ remaining \in Int
  /\ allocated \in [Batches -> Nat]
  /\ limited \in Seq(Batches) /\ fulfilled \in SUBSET Warehouses /\ available \in Nat
  /\ cumulative \in [Warehouses -> Nat]
  /\ batch_groups \in Seq(Nat)

\* The batches an item's stock may be taken from in the warehouses W.
Usable(W) == {b \in Batches : itembatch[b].active /\ inventory_id[b] \in W /\ NotExpired(b)}

\* The rules, by their names: c leaves the warehouse before b.
ExpiresFirst(c, b) ==
  /\ itembatch[c].expiry_date # NULL
  /\ itembatch[b].expiry_date = NULL \/ itembatch[c].expiry_date < itembatch[b].expiry_date

CameFirst(c, b) == itembatch[c].batch_date < itembatch[b].batch_date

GoesFirst(c, b) ==
  CASE item.issuance_order = "FEFO" /\ item.can_expire_flag -> ExpiresFirst(c, b)
    [] item.issuance_order = "LIFO"                         -> CameFirst(b, c)
    [] OTHER                                                -> CameFirst(c, b)

\* The automatic allocation keeps to FEFO, FIFO or LIFO: it takes nothing from a
\* batch while one that goes before it has something left, at any point of the
\* loop of auto_allocate_batches.
AllocationFollowsRule ==
  call \in {"auto", "auto_done"} =>
    \A b \in Batches, c \in Usable(scope) :
      allocated[b] > 0 /\ GoesFirst(c, b) => allocated[c] = Available(c)

\* What auto_allocate_item reports as shortage is not to be had: every batch
\* that may be used is used up.
ShortageIsReal ==
  call = "auto_done" /\ shortage > 0 =>
    \A b \in Usable(scope) : allocated[b] = Available(b)

\* The allocations and the shortage add up to what was asked for.
AllocationAddsUp ==
  call \in {"auto", "auto_done"} =>
    remaining >= 0 /\ SumOver(Batches, allocated) + remaining = requested

\* What is offered is accepted when it is posted: validate_batch_allocation, which
\* has its own conditions, refuses no allocation of auto_allocate_batches, except
\* an expired batch of an item that is said not to expire.
OffersAreAccepted ==
  call = "auto_done" => \A b \in Batches : allocated[b] > 0 =>
    \/ validate_batch_allocation(b, allocated[b], 0)
    \/ ~ item.can_expire_flag /\ itembatch[b].expiry_date # NULL

InDrawer(b) == \E i \in DOMAIN limited : limited[i] = b

\* What the package may take of b besides what is picked: validate_batch_allocation
\* accepts as much when the page is posted.
Free(b) ==
  AtLeastZero(itembatch[b].usable_qty - (itembatch[b].reserved_qty - saved[b]) - current[b])

\* How much of what the drawer counts for b is not to be had: remaining_qty is without
\* what is picked and calc_available_qty counts it, as available again, even if it
\* was never reserved.
CountedTwice(b) == AtLeastZero(current[b] + (current[b] - saved[b]))

\* What the drawer hides: the picked batches are there, even if they have nothing
\* left. Where another batch with stock is hidden, the free units of the warehouse's
\* batches in the drawer suffice for what is missing, or they would but for the
\* picks of that warehouse, which the loop of get_limited_batches_for_drawer counts
\* twice. A shortfall is reported only when nothing is hidden. So in a warehouse of
\* which nothing is picked no batch is hidden that is needed, and elsewhere the
\* drawer falls short by no more than what is picked there.
DrawerSuffices ==
  call = "drawer_done" => \A b \in Usable(Warehouses) : ~ InDrawer(b) =>
    /\ ~ is_allocated(b)
    /\ \/ Available(b) = 0
       \/ LET shown == {c \in Batches : InDrawer(c) /\ inventory_id[c] = inventory_id[b]}
          IN  /\ SumOver(shown, [c \in Batches |-> Free(c)])
                   + SumOver(shown, [c \in Batches |-> CountedTwice(c)]) >= remaining
              /\ shortfall = 0

\* A batch is hidden only behind batches that go first: the drawer of an item
\* that expires shows the batches of a warehouse that expire first.
DrawerFollowsRule ==
  call \in {"drawer", "drawer_done"} => \A b, c \in Batches :
    /\ InDrawer(b) /\ ~ is_allocated(b)
    /\ c \in drawer_batches /\ inventory_id[c] = inventory_id[b]
    /\ IF item.can_expire_flag THEN ExpiresFirst(c, b) ELSE CameFirst(c, b)
    => InDrawer(c)

\* Within a warehouse, batches have the same priority group exactly if the rule
\* does not tell them apart, and the groups follow the rule. (The drawer is not
\* sorted by issuance_order: an item that expires must be issued FEFO.)
GroupsFollowRule ==
  call = "drawer_done" /\ (item.can_expire_flag => item.issuance_order = "FEFO") =>
    \A i, j \in DOMAIN limited :
      i < j /\ inventory_id[limited[i]] = inventory_id[limited[j]] =>
        /\ batch_groups[i] <= batch_groups[j]
        /\ batch_groups[i] = batch_groups[j] <=> DrawerKey(limited[i]) = DrawerKey(limited[j])
===============================================================================
