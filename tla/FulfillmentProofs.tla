------------------------- MODULE FulfillmentProofs -------------------------
(***************************************************************************)
(* Proofs about Fulfillment, for every number of requests, items, batches  *)
(* and warehouses.                                                         *)
(***************************************************************************)
EXTENDS Fulfillment, QuantityProofs

-----------------------------------------------------------------------------
(* The inputs and the operators of the model are well typed.               *)

QtyMap == [Batches -> Nat]
RqstItem == [status_code : ItemStatuses, issue_qty : Nat]

\* The sets of batches that are summed over are finite.
LEMMA FiniteBatches ==
  /\ IsFiniteSet(Requests)
  /\ \A i : IsFiniteSet(BatchesOf(i)) /\ BatchesOf(i) \subseteq Batches
  /\ \A p : IsFiniteSet(BatchesAt(p)) /\ BatchesAt(p) \subseteq Batches
<1>1. IsFiniteSet(Requests) /\ IsFiniteSet(Batches)
  BY FulfillmentAssumptions
<1>2. ASSUME NEW i PROVE IsFiniteSet(BatchesOf(i)) /\ BatchesOf(i) \subseteq Batches
  <2>1. BatchesOf(i) \subseteq Batches
    BY DEF BatchesOf
  <2> QED BY <1>1, <2>1, FS_Subset
<1>3. ASSUME NEW p PROVE IsFiniteSet(BatchesAt(p)) /\ BatchesAt(p) \subseteq Batches
  <2>1. BatchesAt(p) \subseteq Batches
    BY DEF BatchesAt
  <2> QED BY <1>1, <2>1, FS_Subset
<1> QED BY <1>1, <1>2, <1>3

\* What a form posts.
LEMMA FormTypes ==
  ASSUME NEW r \in Requests, NEW f \in Forms[r]
  PROVE  /\ f.qty \in QtyMap /\ f.rows \in SUBSET Batches
         /\ f.status \in [Items -> ItemStatuses \cup {"none"}]
         /\ PlanRows(f.qty) \subseteq f.rows
<1>1. /\ f \in [rows   : SUBSET {b \in Batches : ItemOf[b] \in RequestedItems(r)},
                qty    : [Batches -> 0 .. MaxQty],
                status : [Items -> FormStatuses \cup {"none"}]]
      /\ \A b \in Batches \ f.rows : f.qty[b] = 0
  BY DEF Forms
<1>2. f.qty \in QtyMap /\ f.rows \in SUBSET Batches
  BY <1>1, FulfillmentAssumptions DEF QtyMap
<1>3. f.status \in [Items -> ItemStatuses \cup {"none"}]
  BY <1>1, FulfillmentAssumptions
<1>4. PlanRows(f.qty) \subseteq f.rows
  BY <1>1, <1>2 DEF PlanRows, QtyMap
<1> QED BY <1>2, <1>3, <1>4

\* What the dispatch page posts.
LEMMA PlanTypes ==
  ASSUME NEW q \in Plans
  PROVE  q \in QtyMap
BY FulfillmentAssumptions DEF Plans, QtyMap

\* Totals are natural numbers.
LEMMA TotalTypes ==
  ASSUME NEW q \in QtyMap
  PROVE  /\ \A i : TotalOf(q, i) \in Nat
         /\ \A p : SumOver(BatchesAt(p), q) \in Nat
<1>1. ASSUME NEW S, S \subseteq Batches PROVE IsQty(S, q)
  BY <1>1 DEF IsQty, QtyMap
<1>2. ASSUME NEW i PROVE TotalOf(q, i) \in Nat
  <2>1. IsFiniteSet(BatchesOf(i)) /\ IsQty(BatchesOf(i), q)
    BY <1>1, FiniteBatches
  <2> QED BY <2>1, SumType DEF TotalOf
<1>3. ASSUME NEW p PROVE SumOver(BatchesAt(p), q) \in Nat
  <2>1. IsFiniteSet(BatchesAt(p)) /\ IsQty(BatchesAt(p), q)
    BY <1>1, FiniteBatches
  <2> QED BY <2>1, SumType
<1> QED BY <1>2, <1>3

\* _process_allocations leaves well-typed request items.
LEMMA ProcessedTypes ==
  ASSUME TypeOK, NEW r \in Requests, NEW f \in Forms[r]
  PROVE  ProcessedItems(r, f) \in [Items -> RqstItem]
<1>1. f.qty \in QtyMap /\ f.status \in [Items -> ItemStatuses \cup {"none"}]
  BY FormTypes
<1>2. ASSUME NEW i \in RequestedItems(r)
      PROVE  /\ RequestedStatus(r, f, i) \in ItemStatuses
             /\ IssueQty(RequestedStatus(r, f, i), TotalOf(f.qty, i), RequestQty[r][i]) \in Nat
  <2>1. i \in Items /\ RequestQty[r][i] \in Nat \ {0} /\ Scale \in Nat \ {0}
    BY FulfillmentAssumptions DEF RequestedItems
  <2>2. TotalOf(f.qty, i) \in Nat
    BY <1>1, TotalTypes
  <2>3. RequestedStatus(r, f, i) \in ItemStatuses
    <3>1. CalculatedStatus(TotalOf(f.qty, i), RequestQty[r][i]) \in ItemStatuses
      BY <2>1, <2>2 DEF CalculatedStatus, ItemStatuses
    <3>2. f.status[i] = "none" \/ f.status[i] \in ItemStatuses
      BY <1>1, <2>1
    <3> QED BY <3>1, <3>2 DEF RequestedStatus
  <2>4. IssueQty(RequestedStatus(r, f, i), TotalOf(f.qty, i), RequestQty[r][i]) \in Nat
    <3>1. Whole(RequestQty[r][i], Scale)
      BY <2>1, FulfillmentAssumptions
    <3>2. Scale <= RequestQty[r][i]
      BY <2>1, <3>1, WholePositive
    <3> QED BY <2>1, <2>2, <3>2 DEF IssueQty
  <2> QED BY <2>3, <2>4
<1>3. \A i \in Items : rqst_item[r][i] \in RqstItem
  BY DEF TypeOK, RqstItem
<1> QED BY <1>2, <1>3 DEF ProcessedItems, RqstItem

\* What the database stores of them is well typed too.
LEMMA StoredTypes ==
  ASSUME NEW items \in [Items -> RqstItem]
  PROVE  Stored(items) \in [Items -> RqstItem]
<1>1. ASSUME NEW i \in Items
      PROVE  [items[i] EXCEPT !.issue_qty = Rounded(@, Scale)] \in RqstItem
  <2>1. items[i] \in RqstItem /\ items[i].issue_qty \in Nat
    BY DEF RqstItem
  <2>2. Rounded(items[i].issue_qty, Scale) \in Nat
    BY <2>1, RoundedType, FulfillmentAssumptions
  <2> QED BY <2>1, <2>2 DEF RqstItem
<1> QED BY <1>1 DEF Stored

-----------------------------------------------------------------------------
(* What a step does to the stock.                                          *)

IInv == TypeOK /\ RowsBelongToPackage

Totals == [usable_qty : Nat, reserved_qty : Nat]

StockOK ==
  /\ usable_qty \in QtyMap
  /\ reserved_qty \in QtyMap
  /\ inventory \in [Pairs -> Totals]

RoundedAt(p) ==
  /\ inventory[p].usable_qty = Rounded(TotalUsable(p), Scale)
  /\ inventory[p].reserved_qty = Rounded(TotalReserved(p), Scale)

\* The totals stay the rounded sums if they were.
KeepsTotals == TotalsRounded => TotalsRounded'

\* A pair that no batch of S belongs to has no batch in S.
LEMMA OutsidePairs ==
  ASSUME NEW S, NEW p, p \notin PairsOf(S), NEW b \in BatchesAt(p)
  PROVE  b \notin S /\ b \in Batches
BY DEF PairsOf, BatchesAt

\* Rounded totals are natural numbers.
LEMMA RoundedTotals ==
  ASSUME usable_qty \in QtyMap, reserved_qty \in QtyMap
  PROVE  \A p : /\ TotalUsable(p) \in Nat /\ TotalReserved(p) \in Nat
               /\ Rounded(TotalUsable(p), Scale) \in Nat
               /\ Rounded(TotalReserved(p), Scale) \in Nat
<1>1. \A p : TotalUsable(p) \in Nat /\ TotalReserved(p) \in Nat
  BY TotalTypes DEF TotalUsable, TotalReserved
<1>2. Scale \in Nat \ {0}
  BY FulfillmentAssumptions
<1> QED BY <1>1, <1>2, RoundedType

\* A pair whose batches and totals a step leaves alone stays as it was.
LEMMA PairUntouched ==
  ASSUME NEW p \in Pairs, inventory'[p] = inventory[p],
         \A b \in BatchesAt(p) : usable_qty'[b] = usable_qty[b] /\ reserved_qty'[b] = reserved_qty[b]
  PROVE  RoundedAt(p) => RoundedAt(p)'
<1>1. TotalUsable(p)' = TotalUsable(p)
  BY SumSame DEF TotalUsable
<1>2. TotalReserved(p)' = TotalReserved(p)
  BY SumSame DEF TotalReserved
<1> QED BY <1>1, <1>2 DEF RoundedAt

\* A reservation whose totals are recalculated for the pairs of the changed
\* batches keeps the totals.
LEMMA RecalculatedStock ==
  ASSUME IInv, NEW S, RecalculateReserved(PairsOf(S)),
         reserved_qty' \in QtyMap, usable_qty' = usable_qty,
         \A b \in Batches \ S : reserved_qty'[b] = reserved_qty[b]
  PROVE  StockOK' /\ KeepsTotals
<1>1. usable_qty' \in QtyMap
  BY DEF IInv, TypeOK, QtyMap
<1>2. \A p : Rounded(TotalReserved(p)', Scale) \in Nat
  <2>1. \A p : TotalReserved(p)' \in Nat
    BY TotalTypes DEF TotalReserved
  <2> QED BY <2>1, RoundedType, FulfillmentAssumptions
<1>3. ASSUME NEW p \in Pairs
      PROVE  inventory'[p] \in Totals /\ (RoundedAt(p) => RoundedAt(p)')
  <2>1. inventory[p] \in Totals
    BY DEF IInv, TypeOK, Totals
  <2>2. TotalUsable(p)' = TotalUsable(p)
    BY DEF TotalUsable
  <2>3. CASE p \in PairsOf(S)
    <3>1. inventory'[p] = [inventory[p] EXCEPT !.reserved_qty = Rounded(TotalReserved(p)', Scale)]
      BY <2>3 DEF RecalculateReserved
    <3>2. /\ inventory'[p].usable_qty = inventory[p].usable_qty
          /\ inventory'[p].reserved_qty = Rounded(TotalReserved(p)', Scale)
          /\ inventory'[p] \in Totals
      BY <1>2, <2>1, <3>1 DEF Totals
    <3> QED BY <2>2, <3>2 DEF RoundedAt
  <2>4. CASE p \notin PairsOf(S)
    <3>1. inventory'[p] = inventory[p]
      BY <2>4 DEF RecalculateReserved
    <3>2. \A b \in BatchesAt(p) : /\ usable_qty'[b] = usable_qty[b]
                                 /\ reserved_qty'[b] = reserved_qty[b]
      BY <2>4, OutsidePairs
    <3> QED BY <2>1, <3>1, <3>2, PairUntouched
  <2> QED BY <2>3, <2>4
<1>4. inventory' = [p \in Pairs |-> inventory'[p]]
  BY DEF RecalculateReserved
<1>5. inventory' \in [Pairs -> Totals]
  BY <1>3, <1>4
<1> QED BY <1>1, <1>3, <1>5 DEF StockOK, KeepsTotals, TotalsRounded, RoundedAt

\* reserve_inventory keeps the totals.
LEMMA ReserveStock ==
  ASSUME IInv, NEW r \in Requests, NEW new \in QtyMap, reserve_inventory(r, new)
  PROVE  /\ StockOK' /\ KeepsTotals /\ usable_qty' = usable_qty
         /\ \A b \in Batches :
              reserved_qty'[b] = AtLeastZero(reserved_qty[b] + (new[b] - item_qty[r][b]))
<1> DEFINE S == pkg_rows[r] \cup PlanRows(new)
<1>1. /\ reserved_qty' = [b \in Batches |->
                            AtLeastZero(reserved_qty[b] + (new[b] - item_qty[r][b]))]
      /\ RecalculateReserved(PairsOf(S)) /\ usable_qty' = usable_qty
  BY DEF reserve_inventory
<1>2. /\ \A b \in Batches : reserved_qty[b] \in Nat /\ item_qty[r][b] \in Nat /\ new[b] \in Nat
  BY DEF IInv, TypeOK, QtyMap
<1>3. reserved_qty' \in QtyMap
  BY <1>1, <1>2 DEF AtLeastZero, QtyMap
<1>4. ASSUME NEW b \in Batches \ S PROVE reserved_qty'[b] = reserved_qty[b]
  <2>1. ~(new[b] > 0) /\ ~(item_qty[r][b] > 0)
    BY DEF PlanRows, IInv, RowsBelongToPackage
  <2> QED BY <1>1, <1>2, <2>1 DEF AtLeastZero
<1> HIDE DEF S
<1>5. StockOK' /\ KeepsTotals
  BY <1>1, <1>3, <1>4, RecalculatedStock
<1> QED BY <1>1, <1>5

\* commit_inventory keeps the totals.
LEMMA CommitStock ==
  ASSUME IInv, NEW q \in QtyMap, commit_inventory(q)
  PROVE  /\ StockOK' /\ KeepsTotals
         /\ \A b \in Batches : /\ q[b] <= usable_qty[b]
                               /\ usable_qty'[b] = usable_qty[b] - q[b]
                               /\ reserved_qty'[b] = AtLeastZero(reserved_qty[b] - q[b])
<1>1. /\ \A b \in Batches : q[b] <= usable_qty[b]
      /\ usable_qty' = [b \in Batches |-> usable_qty[b] - q[b]]
      /\ reserved_qty' = [b \in Batches |-> AtLeastZero(reserved_qty[b] - q[b])]
      /\ RecalculateTotals(PairsOf(PlanRows(q)))
  BY DEF commit_inventory
<1>2. \A b \in Batches : reserved_qty[b] \in Nat /\ usable_qty[b] \in Nat /\ q[b] \in Nat
  BY DEF IInv, TypeOK, QtyMap
<1>3. usable_qty' \in QtyMap
  BY <1>1, <1>2 DEF QtyMap
<1>4. reserved_qty' \in QtyMap
  BY <1>1, <1>2 DEF QtyMap, AtLeastZero
<1>5. \A p : /\ Rounded(TotalUsable(p)', Scale) \in Nat
            /\ Rounded(TotalReserved(p)', Scale) \in Nat
  <2>1. \A p : TotalUsable(p)' \in Nat /\ TotalReserved(p)' \in Nat
    BY <1>3, <1>4, TotalTypes DEF TotalUsable, TotalReserved
  <2> QED BY <2>1, RoundedType, FulfillmentAssumptions
<1>6. ASSUME NEW p \in Pairs
      PROVE  inventory'[p] \in Totals /\ (RoundedAt(p) => RoundedAt(p)')
  <2>1. CASE p \in PairsOf(PlanRows(q))
    <3>1. inventory'[p] = [usable_qty   |-> Rounded(TotalUsable(p)', Scale),
                           reserved_qty |-> Rounded(TotalReserved(p)', Scale)]
      BY <1>1, <2>1 DEF RecalculateTotals
    <3> QED BY <1>5, <3>1 DEF RoundedAt, Totals
  <2>2. CASE p \notin PairsOf(PlanRows(q))
    <3>1. inventory'[p] = inventory[p]
      BY <1>1, <2>2 DEF RecalculateTotals
    <3>2. \A b \in BatchesAt(p) : b \in Batches /\ q[b] = 0
      BY <1>2, <2>2, OutsidePairs DEF PlanRows
    <3>3. \A b \in BatchesAt(p) : usable_qty'[b] = usable_qty[b] /\ reserved_qty'[b] = reserved_qty[b]
      BY <1>1, <1>2, <3>2 DEF AtLeastZero
    <3>4. inventory[p] \in Totals
      BY DEF IInv, TypeOK, Totals
    <3> QED BY <3>1, <3>3, <3>4, PairUntouched
  <2> QED BY <2>1, <2>2
<1>7. inventory' = [p \in Pairs |-> inventory'[p]]
  BY <1>1 DEF RecalculateTotals
<1>8. inventory' \in [Pairs -> Totals]
  BY <1>6, <1>7
<1>9. StockOK' /\ KeepsTotals
  BY <1>3, <1>4, <1>6, <1>8 DEF StockOK, KeepsTotals, TotalsRounded, RoundedAt
<1> QED BY <1>1, <1>9

\* Taking a whole number off a rounded total and off the sum it is made of.
LEMMA DecrementRounded ==
  ASSUME NEW n \in Nat, NEW k \in Nat, k <= n, Whole(k, Scale)
  PROVE  Rounded(Rounded(n, Scale) - k, Scale) = Rounded(n - k, Scale)
<1>1. Scale \in Nat \ {0}
  BY FulfillmentAssumptions
<1>2. Rounded(n - k, Scale) = Rounded(n, Scale) - k
  BY <1>1, RoundedShift
<1>3. n - k \in Nat
  OBVIOUS
<1>4. Rounded(n - k, Scale) \in Nat /\ Whole(Rounded(n - k, Scale), Scale)
  BY <1>1, <1>3, RoundedType, RoundedIsWhole
<1> QED BY <1>1, <1>2, <1>4, RoundedWhole

WholeAt(p, q) == Whole(SumOver(BatchesAt(p), q), Scale)

\* Workflow C decrements the totals by the sums of what it takes off the batches,
\* and keeps them where these are whole.
LEMMA UndoStock ==
  ASSUME IInv, NEW r \in Requests, NEW q \in QtyMap, undo_and_deplete(r, q)
  PROVE  /\ StockOK'
         /\ (\A p \in Pairs : WholeAt(p, item_qty[r]) /\ WholeAt(p, q)) => KeepsTotals
         /\ \A b \in Batches : /\ item_qty[r][b] <= reserved_qty[b] /\ q[b] <= usable_qty[b]
                               /\ usable_qty'[b] = usable_qty[b] - q[b]
                               /\ reserved_qty'[b] = reserved_qty[b] - item_qty[r][b]
<1> DEFINE old == item_qty[r]
<1>1. /\ \A b \in Batches : old[b] <= reserved_qty[b] /\ q[b] <= usable_qty[b]
      /\ reserved_qty' = [b \in Batches |-> reserved_qty[b] - old[b]]
      /\ usable_qty' = [b \in Batches |-> usable_qty[b] - q[b]]
      /\ \A p \in Pairs : /\ SumOver(BatchesAt(p), old) <= inventory[p].reserved_qty
                          /\ SumOver(BatchesAt(p), q) <= inventory[p].usable_qty
      /\ inventory' = [p \in Pairs |->
           [usable_qty   |-> Rounded(inventory[p].usable_qty - SumOver(BatchesAt(p), q), Scale),
            reserved_qty |-> Rounded(inventory[p].reserved_qty - SumOver(BatchesAt(p), old), Scale)]]
  BY DEF undo_and_deplete, _undo_lo_reservations, _deplete_usable_stock, DecrementTotals
<1>2. usable_qty \in QtyMap /\ reserved_qty \in QtyMap /\ old \in QtyMap
  BY DEF IInv, TypeOK, QtyMap
<1> HIDE DEF old
<1>3. usable_qty' \in QtyMap
  BY <1>1, <1>2 DEF QtyMap
<1>4. reserved_qty' \in QtyMap
  BY <1>1, <1>2 DEF QtyMap
<1>5. ASSUME NEW p \in Pairs
      PROVE  /\ inventory'[p] \in Totals
             /\ RoundedAt(p) /\ WholeAt(p, old) /\ WholeAt(p, q) => RoundedAt(p)'
  <2> DEFINE sq == SumOver(BatchesAt(p), q)
             so == SumOver(BatchesAt(p), old)
  <2>1. IsFiniteSet(BatchesAt(p)) /\ BatchesAt(p) \subseteq Batches
    BY FiniteBatches
  <2>2. /\ IsQty(BatchesAt(p), usable_qty) /\ IsQty(BatchesAt(p), reserved_qty)
        /\ IsQty(BatchesAt(p), old) /\ IsQty(BatchesAt(p), q)
    BY <1>2, <2>1 DEF IsQty, QtyMap
  <2>3. TotalUsable(p)' = TotalUsable(p) - sq
    <3>1. \A b \in BatchesAt(p) : q[b] <= usable_qty[b] /\ usable_qty'[b] = usable_qty[b] - q[b]
      BY <1>1, <2>1
    <3> QED BY <2>1, <2>2, <3>1, SumDifference DEF TotalUsable
  <2>4. TotalReserved(p)' = TotalReserved(p) - so
    <3>1. \A b \in BatchesAt(p) : old[b] <= reserved_qty[b] /\ reserved_qty'[b] = reserved_qty[b] - old[b]
      BY <1>1, <2>1
    <3> QED BY <2>1, <2>2, <3>1, SumDifference DEF TotalReserved
  <2>5. /\ TotalUsable(p) \in Nat /\ TotalReserved(p) \in Nat
        /\ TotalUsable(p)' \in Nat /\ TotalReserved(p)' \in Nat
    BY <1>2, <1>3, <1>4, TotalTypes DEF TotalUsable, TotalReserved
  <2>6. sq \in Nat /\ so \in Nat
    BY <1>2, TotalTypes
  <2>7. /\ inventory[p] \in Totals
        /\ sq <= inventory[p].usable_qty /\ so <= inventory[p].reserved_qty
        /\ inventory'[p].usable_qty = Rounded(inventory[p].usable_qty - sq, Scale)
        /\ inventory'[p].reserved_qty = Rounded(inventory[p].reserved_qty - so, Scale)
        /\ inventory'[p] = [usable_qty |-> inventory'[p].usable_qty,
                            reserved_qty |-> inventory'[p].reserved_qty]
    BY <1>1 DEF IInv, TypeOK, Totals
  <2>8. WholeAt(p, old) = Whole(so, Scale) /\ WholeAt(p, q) = Whole(sq, Scale)
    BY DEF WholeAt
  <2> HIDE DEF sq, so
  <2>9. /\ inventory[p].usable_qty - sq \in Nat
        /\ inventory[p].reserved_qty - so \in Nat
    BY <2>6, <2>7 DEF Totals
  <2>10. inventory'[p] \in Totals
    <3>1. Scale \in Nat \ {0}
      BY FulfillmentAssumptions
    <3>2. inventory'[p].usable_qty \in Nat /\ inventory'[p].reserved_qty \in Nat
      BY <2>7, <2>9, <3>1, RoundedType
    <3> QED BY <2>7, <3>2 DEF Totals
  <2>11. ASSUME RoundedAt(p), Whole(so, Scale), Whole(sq, Scale) PROVE RoundedAt(p)'
    <3>1. sq <= TotalUsable(p) /\ so <= TotalReserved(p)
      BY <2>3, <2>4, <2>5, <2>6
    <3>2. /\ Rounded(Rounded(TotalUsable(p), Scale) - sq, Scale) = Rounded(TotalUsable(p) - sq, Scale)
          /\ Rounded(Rounded(TotalReserved(p), Scale) - so, Scale) = Rounded(TotalReserved(p) - so, Scale)
      BY <2>5, <2>6, <2>11, <3>1, DecrementRounded
    <3>3. /\ inventory[p].usable_qty = Rounded(TotalUsable(p), Scale)
          /\ inventory[p].reserved_qty = Rounded(TotalReserved(p), Scale)
      BY <2>11 DEF RoundedAt
    <3>4. /\ inventory'[p].usable_qty = Rounded(TotalUsable(p)', Scale)
          /\ inventory'[p].reserved_qty = Rounded(TotalReserved(p)', Scale)
      BY <2>3, <2>4, <2>7, <3>2, <3>3
    <3> QED BY <3>4 DEF RoundedAt
  <2> QED BY <2>8, <2>10, <2>11
<1>6. inventory' = [p \in Pairs |-> inventory'[p]]
  BY <1>1
<1>7. inventory' \in [Pairs -> Totals]
  BY <1>5, <1>6
<1>8. StockOK'
  BY <1>3, <1>4, <1>7 DEF StockOK
<1>9. (\A p \in Pairs : WholeAt(p, old) /\ WholeAt(p, q)) => KeepsTotals
  BY <1>5 DEF KeepsTotals, TotalsRounded, RoundedAt
<1> QED BY <1>1, <1>8, <1>9 DEF old

\* What cancel_relief_package does to the batches and the totals.
ReleasesRows(r) ==
  /\ \A b \in Batches : item_qty[r][b] <= reserved_qty[b]
  /\ reserved_qty' = [b \in Batches |-> reserved_qty[b] - item_qty[r][b]]
  /\ RecalculateReserved(PairsOf(PlanRows(item_qty[r])))
  /\ UNCHANGED usable_qty

\* A cancellation keeps the totals.
LEMMA ReleaseStock ==
  ASSUME IInv, NEW r \in Requests, ReleasesRows(r)
  PROVE  StockOK' /\ KeepsTotals
<1>1. \A b \in Batches : reserved_qty[b] \in Nat /\ item_qty[r][b] \in Nat
  BY DEF IInv, TypeOK
<1>2. reserved_qty' \in QtyMap
  BY <1>1 DEF ReleasesRows, QtyMap
<1>3. \A b \in Batches \ PlanRows(item_qty[r]) : reserved_qty'[b] = reserved_qty[b]
  BY <1>1 DEF ReleasesRows, PlanRows
<1>4. RecalculateReserved(PairsOf(PlanRows(item_qty[r]))) /\ usable_qty' = usable_qty
  BY DEF ReleasesRows
<1> QED BY <1>2, <1>3, <1>4, RecalculatedStock

\* Stock that is left alone keeps its totals.
LEMMA UnchangedStock ==
  ASSUME IInv, UNCHANGED stockVars
  PROVE  StockOK' /\ KeepsTotals
BY DEF IInv, TypeOK, TotalsRounded, KeepsTotals, StockOK, QtyMap, Totals,
       TotalUsable, TotalReserved, stockVars

-----------------------------------------------------------------------------
(* Every step has one of six shapes.                                       *)

RowType ==
  /\ rqst \in [Requests -> {"SUBMITTED", "PART_FILLED"}]
  /\ rqst_item \in [Requests -> [Items -> RqstItem]]
  /\ pkg \in [Requests -> ReliefPkg]
  /\ pkg_rows \in [Requests -> SUBSET Batches]
  /\ item_qty \in [Requests -> QtyMap]

RowsOf(r) ==
  /\ pkg[r].status_code = "none" => pkg_rows[r] = {}
  /\ PlanRows(item_qty[r]) \subseteq pkg_rows[r]
  /\ pkg[r].received_dtime => pkg[r].status_code = "D"

\* The package's rows are replaced and the difference is reserved.
Reserves(r) ==
  /\ reserve_inventory(r, item_qty'[r])
  /\ pkg'[r].status_code = IF pkg[r].status_code = "D" THEN "D" ELSE "P"

\* The package is dispatched, possibly again, with the rows it ends up with.
Commits(r) ==
  /\ commit_inventory(item_qty'[r])
  /\ pkg'[r].status_code = "D"

\* Workflow C.
Replaces(r) ==
  /\ pkg[r].status_code = "P" /\ pkg'[r].status_code = "D"
  /\ undo_and_deplete(r, item_qty'[r])

\* The package is deleted.
Releases(r) ==
  /\ pkg[r].status_code \in {"P", "D"} /\ pkg'[r].status_code = "none"
  /\ item_qty'[r] = NoQty
  /\ ReleasesRows(r)

\* The rows are deleted, the package and the reservations are not.
Drops(r) ==
  /\ pkg[r].status_code # "none" /\ pkg'[r].status_code = pkg[r].status_code
  /\ item_qty'[r] = NoQty /\ pkg_rows'[r] = {}
  /\ UNCHANGED stockVars

\* Neither rows nor stock are touched, nor the package's status.
Keeps(r) ==
  /\ pkg'[r].status_code = pkg[r].status_code
  /\ item_qty'[r] = item_qty[r]
  /\ UNCHANGED stockVars

Shape(r) ==
  /\ StepOf(r) /\ \A s \in Requests \ {r} : pkg_rows'[s] = pkg_rows[s]
  /\ RowType' /\ RowsOf(r)' /\ DatabaseChecks'
  /\ Reserves(r) \/ Commits(r) \/ Replaces(r) \/ Releases(r) \/ Drops(r) \/ Keeps(r)

\* The package _process_allocations works on.
LEMMA PackageTypes ==
  ASSUME IInv, NEW r \in Requests, NEW u \in Users
  PROVE  /\ PackageFor(r, u) \in ReliefPkg
         /\ PackageFor(r, u).status_code = IF pkg[r].status_code = "D" THEN "D" ELSE "P"
         /\ PackageFor(r, u).received_dtime => pkg[r].status_code = "D"
         /\ PackageFor(r, u).dispatch_dtime <=> pkg[r].status_code = "D"
         /\ pkg[r].dispatch_dtime <=> pkg[r].status_code = "D"
<1>1. pkg[r] \in ReliefPkg /\ c_reliefpkg_2(pkg[r])
  BY DEF IInv, TypeOK, DatabaseChecks
<1>2. pkg[r].received_dtime => pkg[r].status_code = "D"
  BY DEF IInv, RowsBelongToPackage
<1>3. CASE pkg[r].status_code = "none"
  <2>1. PackageFor(r, u) = [status_code |-> "P", dispatch_dtime |-> FALSE, verify_by_id |-> "NULL",
                            received_dtime |-> FALSE, create_by_id |-> u]
    BY <1>3 DEF PackageFor, NoPkg
  <2> QED BY <1>1, <1>3, <2>1 DEF ReliefPkg, c_reliefpkg_2
<1>4. CASE pkg[r].status_code # "none"
  <2>1. PackageFor(r, u) = pkg[r]
    BY <1>4 DEF PackageFor
  <2> QED BY <1>1, <1>2, <1>4, <2>1 DEF ReliefPkg, c_reliefpkg_2
<1> QED BY <1>3, <1>4

\* One package is replaced.
LEMMA PackageUpdate ==
  ASSUME IInv, NEW r \in Requests, NEW new \in ReliefPkg, pkg' = [pkg EXCEPT ![r] = new]
  PROVE  /\ pkg' \in [Requests -> ReliefPkg] /\ pkg'[r] = new
         /\ \A s \in Requests \ {r} : pkg'[s] = pkg[s]
BY DEF IInv, TypeOK

\* A form's rows in the package of r.
LEMMA ProcessedRows ==
  ASSUME IInv, NEW r \in Requests, NEW f \in Forms[r], _process_allocations(r, f)
  PROVE  /\ item_qty' \in [Requests -> QtyMap] /\ item_qty'[r] = f.qty
         /\ pkg_rows' \in [Requests -> SUBSET Batches] /\ pkg_rows'[r] = f.rows
         /\ PlanRows(item_qty'[r]) \subseteq pkg_rows'[r]
         /\ \A s \in Requests \ {r} : item_qty'[s] = item_qty[s] /\ pkg_rows'[s] = pkg_rows[s]
<1>1. f.qty \in QtyMap /\ f.rows \in SUBSET Batches /\ PlanRows(f.qty) \subseteq f.rows
  BY FormTypes
<1>2. item_qty \in [Requests -> QtyMap] /\ pkg_rows \in [Requests -> SUBSET Batches]
  BY DEF IInv, TypeOK, QtyMap
<1> QED BY <1>1, <1>2 DEF _process_allocations

\* The request items after a form was processed.
LEMMA ProcessedRqstItems ==
  ASSUME IInv, NEW r \in Requests, NEW f \in Forms[r],
         rqst_item' = [rqst_item EXCEPT ![r] = Stored(ProcessedItems(r, f))]
  PROVE  rqst_item' \in [Requests -> [Items -> RqstItem]]
<1>1. Stored(ProcessedItems(r, f)) \in [Items -> RqstItem]
  BY ProcessedTypes, StoredTypes DEF IInv
<1>2. rqst_item \in [Requests -> [Items -> RqstItem]]
  BY DEF IInv, TypeOK, RqstItem
<1> QED BY <1>1, <1>2

\* Saving a draft replaces rows and reserves the difference.
LEMMA ShapeOfSaveDraft ==
  ASSUME IInv, NEW u \in Users, NEW r \in Requests, NEW f \in Forms[r], _save_draft(u, r, f)
  PROVE  Shape(r)
<1> DEFINE old == PackageFor(r, u)
           new == [old EXCEPT !.verify_by_id = "NULL"]
<1>a. pkg' = [pkg EXCEPT ![r] = new]
  BY DEF _save_draft
<1>b. /\ old \in ReliefPkg
      /\ old.status_code = IF pkg[r].status_code = "D" THEN "D" ELSE "P"
      /\ old.received_dtime => pkg[r].status_code = "D"
  BY PackageTypes
<1> HIDE DEF old
<1>1. /\ new \in ReliefPkg
      /\ new.status_code = IF pkg[r].status_code = "D" THEN "D" ELSE "P"
      /\ new.received_dtime => new.status_code = "D"
  BY <1>b DEF ReliefPkg
<1> HIDE DEF new
<1>2. /\ pkg' \in [Requests -> ReliefPkg]
      /\ pkg'[r].status_code = IF pkg[r].status_code = "D" THEN "D" ELSE "P"
      /\ pkg'[r].received_dtime => pkg'[r].status_code = "D"
      /\ \A s \in Requests \ {r} : pkg'[s] = pkg[s]
  BY <1>a, <1>1, PackageUpdate
<1>3. rqst' \in [Requests -> {"SUBMITTED", "PART_FILLED"}]
  BY DEF IInv, TypeOK, _save_draft
<1>4. rqst_item' \in [Requests -> [Items -> RqstItem]]
  BY ProcessedRqstItems DEF _save_draft
<1>5. _process_allocations(r, f) /\ reserve_inventory(r, f.qty) /\ DatabaseChecks'
  BY DEF _save_draft
<1> QED BY <1>2, <1>3, <1>4, <1>5, ProcessedRows
        DEF Shape, StepOf, RowType, RowsOf, Reserves

\* Submitting does too; c_reliefpkg_2 refuses it for a dispatched package.
LEMMA ShapeOfSubmit ==
  ASSUME IInv, NEW u \in Users, NEW r \in Requests, NEW f \in Forms[r],
         _submit_for_approval(u, r, f)
  PROVE  Shape(r)
<1> DEFINE old == PackageFor(r, u)
           new == [old EXCEPT !.status_code = "P", !.verify_by_id = "PENDING_LM"]
<1>a. pkg' = [pkg EXCEPT ![r] = new]
  BY DEF _submit_for_approval
<1>b. /\ old \in ReliefPkg
      /\ old.received_dtime => pkg[r].status_code = "D"
      /\ old.dispatch_dtime <=> pkg[r].status_code = "D"
  BY PackageTypes
<1> HIDE DEF old
<1>1. /\ new \in ReliefPkg /\ new.status_code = "P"
      /\ new.received_dtime => pkg[r].status_code = "D"
      /\ new.dispatch_dtime <=> pkg[r].status_code = "D"
  BY <1>b DEF ReliefPkg
<1> HIDE DEF new
<1>2. /\ pkg' \in [Requests -> ReliefPkg] /\ pkg'[r].status_code = "P"
      /\ pkg'[r].received_dtime => pkg[r].status_code = "D"
      /\ pkg'[r].dispatch_dtime <=> pkg[r].status_code = "D"
      /\ \A s \in Requests \ {r} : pkg'[s] = pkg[s]
  BY <1>a, <1>1, PackageUpdate
<1>3. pkg[r].status_code # "D"
  <2>1. c_reliefpkg_2(pkg'[r])
    BY DEF _submit_for_approval, DatabaseChecks, c_reliefpkg_2
  <2> QED BY <1>2, <2>1 DEF c_reliefpkg_2
<1>4. rqst' \in [Requests -> {"SUBMITTED", "PART_FILLED"}]
  BY DEF IInv, TypeOK, _submit_for_approval
<1>5. rqst_item' \in [Requests -> [Items -> RqstItem]]
  BY ProcessedRqstItems DEF _submit_for_approval
<1>6. _process_allocations(r, f) /\ reserve_inventory(r, f.qty) /\ DatabaseChecks'
  BY DEF _submit_for_approval
<1> QED BY <1>2, <1>3, <1>4, <1>5, <1>6, ProcessedRows
        DEF Shape, StepOf, RowType, RowsOf, Reserves

\* The manager's direct dispatch commits the posted rows.
LEMMA ShapeOfSend ==
  ASSUME IInv, NEW u \in Users, NEW r \in Requests, NEW f \in Forms[r],
         _send_for_dispatch(u, r, f)
  PROVE  Shape(r)
<1> DEFINE old == PackageFor(r, u)
<1>a. pkg' = [pkg EXCEPT ![r] = Dispatched(old)]
  BY DEF _send_for_dispatch
<1>b. old \in ReliefPkg
  BY PackageTypes
<1> HIDE DEF old
<1>1. Dispatched(old) \in ReliefPkg /\ Dispatched(old).status_code = "D"
  BY <1>b DEF ReliefPkg, Dispatched
<1>2. /\ pkg' \in [Requests -> ReliefPkg] /\ pkg'[r].status_code = "D"
      /\ \A s \in Requests \ {r} : pkg'[s] = pkg[s]
  BY <1>a, <1>1, PackageUpdate
<1>3. rqst' \in [Requests -> {"SUBMITTED", "PART_FILLED"}]
  BY DEF IInv, TypeOK, _send_for_dispatch
<1>4. rqst_item' \in [Requests -> [Items -> RqstItem]]
  BY ProcessedRqstItems DEF _send_for_dispatch
<1>5. _process_allocations(r, f) /\ commit_inventory(f.qty) /\ DatabaseChecks'
  BY DEF _send_for_dispatch
<1> QED BY <1>2, <1>3, <1>4, <1>5, ProcessedRows
        DEF Shape, StepOf, RowType, RowsOf, Commits

\* A pending package is well typed, not dispatched and not handed over.
LEMMA PendingPackage ==
  ASSUME IInv, NEW r \in Requests, pkg[r].status_code = "P"
  PROVE  pkg \in [Requests -> ReliefPkg] /\ pkg[r] \in ReliefPkg /\ ~pkg[r].received_dtime
BY DEF IInv, TypeOK, RowsBelongToPackage

\* The manager's draft reserves the difference.
LEMMA ShapeOfSaveDraftApproval ==
  ASSUME IInv, NEW r \in Requests, NEW f \in Forms[r], _save_draft_approval(r, f)
  PROVE  Shape(r)
<1>1. pkg[r].status_code = "P" /\ pkg' = [pkg EXCEPT ![r].status_code = "P"]
  BY DEF _save_draft_approval, IsPending
<1>2. /\ pkg' \in [Requests -> ReliefPkg] /\ pkg'[r].status_code = "P" /\ ~pkg'[r].received_dtime
      /\ \A s \in Requests \ {r} : pkg'[s] = pkg[s]
  BY <1>1, PendingPackage DEF ReliefPkg
<1>3. rqst' \in [Requests -> {"SUBMITTED", "PART_FILLED"}]
  BY DEF IInv, TypeOK, _save_draft_approval
<1>4. rqst_item' \in [Requests -> [Items -> RqstItem]]
  BY ProcessedRqstItems DEF _save_draft_approval
<1>5. _process_allocations(r, f) /\ reserve_inventory(r, f.qty) /\ DatabaseChecks'
  BY DEF _save_draft_approval
<1> QED BY <1>1, <1>2, <1>3, <1>4, <1>5, ProcessedRows
        DEF Shape, StepOf, RowType, RowsOf, Reserves

\* The manager's approval commits the posted rows.
LEMMA ShapeOfApprove ==
  ASSUME IInv, NEW r \in Requests, NEW f \in Forms[r], _approve_and_dispatch(r, f)
  PROVE  Shape(r)
<1>1. pkg[r].status_code = "P" /\ pkg' = [pkg EXCEPT ![r] = Dispatched(pkg[r])]
  BY DEF _approve_and_dispatch, IsPending
<1>2. /\ pkg' \in [Requests -> ReliefPkg] /\ pkg'[r].status_code = "D"
      /\ \A s \in Requests \ {r} : pkg'[s] = pkg[s]
  BY <1>1, PendingPackage DEF ReliefPkg, Dispatched
<1>3. rqst' \in [Requests -> {"SUBMITTED", "PART_FILLED"}]
  BY DEF IInv, TypeOK, _approve_and_dispatch
<1>4. rqst_item' \in [Requests -> [Items -> RqstItem]]
  <2> DEFINE items == [i \in Items |-> IF i \in RequestedItems(r)
                         THEN [ProcessedItems(r, f)[i] EXCEPT !.issue_qty = TotalOf(f.qty, i)]
                         ELSE rqst_item[r][i]]
  <2>1. rqst_item' = [rqst_item EXCEPT ![r] = Stored(items)]
    BY DEF _approve_and_dispatch
  <2>2. ProcessedItems(r, f) \in [Items -> RqstItem]
    BY ProcessedTypes DEF IInv
  <2>3. \A i : TotalOf(f.qty, i) \in Nat
    BY FormTypes, TotalTypes
  <2>4. rqst_item \in [Requests -> [Items -> RqstItem]]
    BY DEF IInv, TypeOK, RqstItem
  <2>5. items \in [Items -> RqstItem]
    BY <2>2, <2>3, <2>4 DEF RqstItem
  <2> HIDE DEF items
  <2>6. Stored(items) \in [Items -> RqstItem]
    BY <2>5, StoredTypes
  <2> QED BY <2>1, <2>4, <2>6
<1>5. _process_allocations(r, f) /\ commit_inventory(f.qty) /\ DatabaseChecks'
  BY DEF _approve_and_dispatch
<1> QED BY <1>2, <1>3, <1>4, <1>5, ProcessedRows
        DEF Shape, StepOf, RowType, RowsOf, Commits

\* What the manager's pages leave alone.
LEMMA UntouchedRows ==
  ASSUME IInv, NEW r \in Requests, UNCHANGED <<pkg_rows, item_qty>>
  PROVE  /\ item_qty' \in [Requests -> QtyMap] /\ pkg_rows' \in [Requests -> SUBSET Batches]
         /\ PlanRows(item_qty'[r]) \subseteq pkg_rows'[r]
         /\ \A s \in Requests : item_qty'[s] = item_qty[s] /\ pkg_rows'[s] = pkg_rows[s]
BY DEF IInv, TypeOK, RowsBelongToPackage, QtyMap

\* A review that approves commits the rows of the package.
LEMMA ShapeOfReviewApprove ==
  ASSUME IInv, NEW r \in Requests, review_approve(r)
  PROVE  Shape(r)
<1>1. pkg[r].status_code = "P" /\ pkg' = [pkg EXCEPT ![r] = Dispatched(pkg[r])]
  BY DEF review_approve, IsPending
<1>2. /\ pkg' \in [Requests -> ReliefPkg] /\ pkg'[r].status_code = "D"
      /\ \A s \in Requests \ {r} : pkg'[s] = pkg[s]
  BY <1>1, PendingPackage DEF ReliefPkg, Dispatched
<1>3. /\ rqst' \in [Requests -> {"SUBMITTED", "PART_FILLED"}]
      /\ rqst_item' \in [Requests -> [Items -> RqstItem]]
  BY DEF IInv, TypeOK, RqstItem, review_approve
<1>4. commit_inventory(item_qty[r]) /\ DatabaseChecks' /\ UNCHANGED <<pkg_rows, item_qty>>
  BY DEF review_approve
<1> QED BY <1>2, <1>3, <1>4, UntouchedRows
        DEF Shape, StepOf, RowType, RowsOf, Commits

\* A review that rejects keeps rows and stock.
LEMMA ShapeOfReviewReject ==
  ASSUME IInv, NEW r \in Requests, review_reject(r)
  PROVE  Shape(r)
<1>1. /\ pkg[r].status_code = "P"
      /\ pkg' = [pkg EXCEPT ![r].verify_by_id = "NULL", ![r].status_code = "P"]
  BY DEF review_reject, IsPending
<1>2. /\ pkg' \in [Requests -> ReliefPkg] /\ pkg'[r].status_code = "P" /\ ~pkg'[r].received_dtime
      /\ \A s \in Requests \ {r} : pkg'[s] = pkg[s]
  BY <1>1, PendingPackage DEF ReliefPkg
<1>3. /\ rqst' \in [Requests -> {"SUBMITTED", "PART_FILLED"}]
      /\ rqst_item' \in [Requests -> [Items -> RqstItem]]
  BY DEF IInv, TypeOK, RqstItem, review_reject
<1>4. DatabaseChecks' /\ UNCHANGED <<pkg_rows, item_qty>> /\ UNCHANGED stockVars
  BY DEF review_reject
<1> QED BY <1>1, <1>2, <1>3, <1>4, UntouchedRows
        DEF Shape, StepOf, RowType, RowsOf, Keeps

\* Workflow C replaces the officer's rows by the manager's plan.
LEMMA ShapeOfSubmitForDispatch ==
  ASSUME IInv, NEW r \in Requests, NEW q \in Plans, submit_for_dispatch(r, q)
  PROVE  Shape(r)
<1>1. pkg[r].status_code = "P" /\ pkg' = [pkg EXCEPT ![r] = Dispatched(pkg[r])]
  BY DEF submit_for_dispatch, _update_dispatch_records
<1>2. /\ pkg' \in [Requests -> ReliefPkg] /\ pkg'[r].status_code = "D"
      /\ \A s \in Requests \ {r} : pkg'[s] = pkg[s]
  BY <1>1, PendingPackage DEF ReliefPkg, Dispatched
<1>3. rqst' \in [Requests -> {"SUBMITTED", "PART_FILLED"}]
  BY DEF IInv, TypeOK, submit_for_dispatch, _update_dispatch_records
<1>4. rqst_item' \in [Requests -> [Items -> RqstItem]]
  <2> DEFINE items == [i \in Items |-> IF i \in RequestedItems(r)
                         THEN [rqst_item[r][i] EXCEPT !.issue_qty = @ + TotalOf(q, i)]
                         ELSE rqst_item[r][i]]
  <2>1. rqst_item' = [rqst_item EXCEPT ![r] = Stored(items)]
    BY DEF submit_for_dispatch, _update_dispatch_records
  <2>2. \A i : TotalOf(q, i) \in Nat
    BY PlanTypes, TotalTypes
  <2>3. rqst_item \in [Requests -> [Items -> RqstItem]]
    BY DEF IInv, TypeOK, RqstItem
  <2>4. items \in [Items -> RqstItem]
    BY <2>2, <2>3 DEF RqstItem
  <2> HIDE DEF items
  <2>5. Stored(items) \in [Items -> RqstItem]
    BY <2>4, StoredTypes
  <2> QED BY <2>1, <2>3, <2>5
<1>5. /\ item_qty' \in [Requests -> QtyMap] /\ item_qty'[r] = q
      /\ pkg_rows' \in [Requests -> SUBSET Batches]
      /\ PlanRows(item_qty'[r]) \subseteq pkg_rows'[r]
      /\ \A s \in Requests \ {r} : item_qty'[s] = item_qty[s] /\ pkg_rows'[s] = pkg_rows[s]
  <2>1. item_qty \in [Requests -> QtyMap] /\ pkg_rows \in [Requests -> SUBSET Batches]
    BY DEF IInv, TypeOK, QtyMap
  <2>2. q \in QtyMap /\ PlanRows(q) \in SUBSET Batches
    BY PlanTypes DEF PlanRows
  <2>3. /\ item_qty' = [item_qty EXCEPT ![r] = q]
        /\ pkg_rows' = [pkg_rows EXCEPT ![r] = pkg_rows[r] \cup PlanRows(q)]
    BY DEF submit_for_dispatch, _overwrite_package_items
  <2> QED BY <2>1, <2>2, <2>3
<1>6. undo_and_deplete(r, q) /\ DatabaseChecks'
  BY DEF submit_for_dispatch
<1> QED BY <1>1, <1>2, <1>3, <1>4, <1>5, <1>6
        DEF Shape, StepOf, RowType, RowsOf, Replaces

\* Deleted rows.
LEMMA DeletedRows ==
  ASSUME IInv, NEW r \in Requests, pkg_rows' = [pkg_rows EXCEPT ![r] = {}],
         item_qty' = [item_qty EXCEPT ![r] = NoQty]
  PROVE  /\ item_qty' \in [Requests -> QtyMap] /\ item_qty'[r] = NoQty
         /\ pkg_rows' \in [Requests -> SUBSET Batches] /\ pkg_rows'[r] = {}
         /\ PlanRows(item_qty'[r]) = {}
         /\ \A s \in Requests \ {r} : item_qty'[s] = item_qty[s] /\ pkg_rows'[s] = pkg_rows[s]
<1>1. item_qty \in [Requests -> QtyMap] /\ pkg_rows \in [Requests -> SUBSET Batches]
  BY DEF IInv, TypeOK, QtyMap
<1>2. NoQty \in QtyMap /\ PlanRows(NoQty) = {}
  BY DEF NoQty, QtyMap, PlanRows
<1> QED BY <1>1, <1>2

\* A cancelled package is deleted and its rows are released.
LEMMA ShapeOfCancelPackage ==
  ASSUME IInv, NEW r \in Requests, cancel_package(r)
  PROVE  Shape(r)
<1>1. pkg[r].status_code \in {"P", "D"} /\ pkg' = [pkg EXCEPT ![r] = NoPkg]
  BY DEF cancel_package, cancel_relief_package
<1>2. NoPkg \in ReliefPkg /\ NoPkg.status_code = "none" /\ ~NoPkg.received_dtime
  BY DEF NoPkg, ReliefPkg
<1>3. /\ pkg' \in [Requests -> ReliefPkg] /\ pkg'[r] = NoPkg
      /\ \A s \in Requests \ {r} : pkg'[s] = pkg[s]
  BY <1>1, <1>2, PackageUpdate
<1>4. /\ rqst' \in [Requests -> {"SUBMITTED", "PART_FILLED"}]
      /\ rqst_item' \in [Requests -> [Items -> RqstItem]]
  BY DEF IInv, TypeOK, RqstItem, cancel_package
<1>5. ReleasesRows(r) /\ DatabaseChecks'
  BY DEF cancel_package, cancel_relief_package, ReleasesRows
<1>6. pkg_rows' = [pkg_rows EXCEPT ![r] = {}] /\ item_qty' = [item_qty EXCEPT ![r] = NoQty]
  BY DEF cancel_package, cancel_relief_package
<1> QED BY <1>1, <1>2, <1>3, <1>4, <1>5, <1>6, DeletedRows
        DEF Shape, StepOf, RowType, RowsOf, Releases

\* A release that finds no rows changes nothing.
LEMMA NothingReleased ==
  ASSUME IInv, release_all_reservations(NoQty)
  PROVE  UNCHANGED stockVars
<1>1. PlanRows(NoQty) = {} /\ PairsOf({}) = {}
  BY DEF NoQty, PlanRows, PairsOf
<1>2. reserved_qty' = reserved_qty
  BY DEF release_all_reservations, NoQty, AtLeastZero, IInv, TypeOK
<1>3. inventory' = inventory
  BY <1>1 DEF release_all_reservations, RecalculateReserved, IInv, TypeOK
<1> QED BY <1>2, <1>3 DEF release_all_reservations, stockVars

\* A cancelled preparation loses its rows.
LEMMA ShapeOfCancelPreparation ==
  ASSUME IInv, NEW r \in Requests, cancel_preparation(r)
  PROVE  Shape(r)
<1>1. /\ pkg[r].status_code # "none" /\ pkg' = pkg /\ DatabaseChecks' /\ UNCHANGED stockVars
      /\ pkg_rows' = [pkg_rows EXCEPT ![r] = {}] /\ item_qty' = [item_qty EXCEPT ![r] = NoQty]
  BY NothingReleased DEF cancel_preparation
<1>2. /\ rqst' \in [Requests -> {"SUBMITTED", "PART_FILLED"}]
      /\ rqst_item' \in [Requests -> [Items -> RqstItem]]
      /\ pkg' \in [Requests -> ReliefPkg]
      /\ pkg'[r].received_dtime => pkg'[r].status_code = "D"
  BY <1>1 DEF IInv, TypeOK, RowsBelongToPackage, RqstItem, cancel_preparation
<1> QED BY <1>1, <1>2, DeletedRows
        DEF Shape, StepOf, RowType, RowsOf, Drops

\* A handover stamps a dispatched package.
LEMMA ShapeOfHandover ==
  ASSUME IInv, NEW r \in Requests, NEW ws, mark_handover(r, ws)
  PROVE  Shape(r)
<1>1. pkg[r].status_code = "D" /\ pkg' = [pkg EXCEPT ![r].received_dtime = TRUE]
  BY DEF mark_handover
<1>2. pkg \in [Requests -> ReliefPkg] /\ pkg[r] \in ReliefPkg
  BY DEF IInv, TypeOK
<1>3. /\ pkg' \in [Requests -> ReliefPkg] /\ pkg'[r].status_code = "D"
      /\ \A s \in Requests \ {r} : pkg'[s] = pkg[s]
  BY <1>1, <1>2 DEF ReliefPkg
<1>4. /\ rqst' \in [Requests -> {"SUBMITTED", "PART_FILLED"}]
      /\ rqst_item' \in [Requests -> [Items -> RqstItem]]
  BY DEF IInv, TypeOK, RqstItem, mark_handover
<1>5. DatabaseChecks' /\ UNCHANGED <<pkg_rows, item_qty>> /\ UNCHANGED stockVars
  BY DEF mark_handover
<1> QED BY <1>1, <1>3, <1>4, <1>5, UntouchedRows
        DEF Shape, StepOf, RowType, RowsOf, Keeps

\* Every step has a shape.
LEMMA StepShape ==
  ASSUME IInv, Next
  PROVE  \E r \in Requests : Shape(r)
<1>1. PICK r \in Requests :
        \/ PreparePackage(r)
        \/ ApprovePackage(r)
        \/ ReviewApproval(r)
        \/ SubmitForDispatch(r)
        \/ cancel_package(r)
        \/ cancel_preparation(r)
        \/ \E ws \in SUBSET Warehouses : mark_handover(r, ws)
  BY DEF Next
<1>2. CASE PreparePackage(r)
  BY <1>2, ShapeOfSaveDraft, ShapeOfSubmit, ShapeOfSend DEF PreparePackage, Users
<1>3. CASE ApprovePackage(r)
  BY <1>3, ShapeOfSaveDraftApproval, ShapeOfApprove DEF ApprovePackage
<1>4. CASE ReviewApproval(r)
  BY <1>4, ShapeOfReviewApprove, ShapeOfReviewReject DEF ReviewApproval
<1>5. CASE SubmitForDispatch(r)
  BY <1>5, ShapeOfSubmitForDispatch DEF SubmitForDispatch
<1>6. CASE cancel_package(r)
  BY <1>6, ShapeOfCancelPackage
<1>7. CASE cancel_preparation(r)
  BY <1>7, ShapeOfCancelPreparation
<1>8. CASE \E ws \in SUBSET Warehouses : mark_handover(r, ws)
  BY <1>8, ShapeOfHandover
<1> QED BY <1>1, <1>2, <1>3, <1>4, <1>5, <1>6, <1>7, <1>8

-----------------------------------------------------------------------------
(* The invariant.                                                          *)

\* A step of any shape keeps the stock well typed, and any but Workflow C keeps
\* the totals.
LEMMA ShapeStock ==
  ASSUME IInv, NEW r \in Requests, Shape(r)
  PROVE  StockOK' /\ (KeepsTotals \/ Replaces(r))
<1>1. item_qty'[r] \in QtyMap
  BY DEF Shape, RowType
<1>2. CASE Reserves(r)
  BY <1>1, <1>2, ReserveStock DEF Reserves
<1>3. CASE Commits(r)
  BY <1>1, <1>3, CommitStock DEF Commits
<1>4. CASE Replaces(r)
  BY <1>1, <1>4, UndoStock DEF Replaces
<1>5. CASE Releases(r)
  BY <1>5, ReleaseStock DEF Releases
<1>6. CASE Drops(r) \/ Keeps(r)
  BY <1>6, UnchangedStock DEF Drops, Keeps
<1> QED BY <1>2, <1>3, <1>4, <1>5, <1>6 DEF Shape

\* The invariant is inductive.
LEMMA InvStep ==
  ASSUME IInv, [Next]_vars
  PROVE  IInv'
<1>1. CASE Next
  <2>1. PICK r \in Requests : Shape(r)
    BY <1>1, StepShape
  <2>2. StockOK'
    BY <2>1, ShapeStock
  <2>3. TypeOK'
    BY <2>1, <2>2 DEF Shape, RowType, StockOK, TypeOK, QtyMap, RqstItem, Totals
  <2>4. RowsBelongToPackage'
    <3>1. ASSUME NEW s \in Requests PROVE RowsOf(s)'
      <4>1. CASE s = r
        BY <2>1, <4>1 DEF Shape
      <4>2. CASE s # r
        <5>1. pkg'[s] = pkg[s] /\ item_qty'[s] = item_qty[s] /\ pkg_rows'[s] = pkg_rows[s]
          BY <2>1, <4>2 DEF Shape, StepOf
        <5>2. RowsOf(s)
          BY DEF IInv, RowsBelongToPackage, RowsOf
        <5> QED BY <5>1, <5>2 DEF RowsOf, PlanRows
      <4> QED BY <4>1, <4>2
    <3> QED BY <3>1 DEF RowsOf, RowsBelongToPackage
  <2> QED BY <2>3, <2>4 DEF IInv
<1>2. CASE UNCHANGED vars
  BY <1>2 DEF vars, pkgVars, stockVars, IInv, TypeOK, RowsBelongToPackage, DatabaseChecks,
              c_reliefpkg_2, c_itembatch_2, c_inventory_2, c_reliefrqst_item_2a, PlanRows
<1> QED BY <1>1, <1>2

\* The invariant holds before any fulfilment.
LEMMA InvInit ==
  ASSUME Init
  PROVE  IInv
<1>1. NoQty \in QtyMap /\ InitialUsable \in QtyMap
  BY FulfillmentAssumptions DEF NoQty, QtyMap
<1>2. NoPkg \in ReliefPkg /\ c_reliefpkg_2(NoPkg) /\ ~NoPkg.received_dtime
  BY DEF NoPkg, ReliefPkg, c_reliefpkg_2
<1>3. ASSUME NEW p \in Pairs
      PROVE  /\ inventory[p] \in [usable_qty : Nat, reserved_qty : Nat]
             /\ inventory[p].reserved_qty = 0
  <2>1. Rounded(SumOver(BatchesAt(p), InitialUsable), Scale) \in Nat
    BY <1>1, TotalTypes, RoundedType, FulfillmentAssumptions
  <2>2. inventory[p] = [usable_qty   |-> Rounded(SumOver(BatchesAt(p), InitialUsable), Scale),
                        reserved_qty |-> 0]
    BY DEF Init
  <2> QED BY <2>1, <2>2
<1>4. TypeOK
  <2>1. /\ rqst \in [Requests -> {"SUBMITTED", "PART_FILLED"}]
        /\ rqst_item \in [Requests -> [Items -> RqstItem]]
    BY DEF Init, RqstItem, ItemStatuses
  <2>2. /\ pkg \in [Requests -> ReliefPkg]
        /\ pkg_rows \in [Requests -> SUBSET Batches]
        /\ item_qty \in [Requests -> QtyMap]
    BY <1>1, <1>2 DEF Init
  <2>3. usable_qty \in QtyMap /\ reserved_qty \in QtyMap
    BY <1>1 DEF Init
  <2>4. inventory \in [Pairs -> [usable_qty : Nat, reserved_qty : Nat]]
    <3>1. inventory = [p \in Pairs |-> inventory[p]]
      BY DEF Init
    <3> QED BY <1>3, <3>1
  <2>5. \A r \in Requests : c_reliefpkg_2(pkg[r])
    BY <1>2 DEF Init
  <2>6. \A b \in Batches : c_itembatch_2(usable_qty[b], reserved_qty[b])
    BY FulfillmentAssumptions DEF Init, NoQty, c_itembatch_2
  <2>7. \A p \in Pairs : c_inventory_2(inventory[p])
    BY <1>3 DEF c_inventory_2
  <2>8. \A r \in Requests : \A i \in RequestedItems(r) :
          c_reliefrqst_item_2a(rqst_item[r][i], RequestQty[r][i])
    BY DEF Init, c_reliefrqst_item_2a, RequestedItems
  <2> QED BY <2>1, <2>2, <2>3, <2>4, <2>5, <2>6, <2>7, <2>8
          DEF TypeOK, DatabaseChecks, QtyMap, RqstItem
<1>5. RowsBelongToPackage
  BY <1>2 DEF Init, RowsBelongToPackage, PlanRows, NoQty
<1> QED BY <1>4, <1>5 DEF IInv

\* Before any fulfilment the totals are the rounded sums.
LEMMA InitTotals ==
  ASSUME Init
  PROVE  TotalsRounded
<1> SUFFICES ASSUME NEW p \in Pairs PROVE RoundedAt(p)
  BY DEF TotalsRounded, RoundedAt
<1>1. inventory[p] = [usable_qty   |-> Rounded(SumOver(BatchesAt(p), InitialUsable), Scale),
                      reserved_qty |-> 0]
  BY DEF Init
<1>2. TotalUsable(p) = SumOver(BatchesAt(p), InitialUsable)
  BY DEF Init, TotalUsable
<1>3. TotalReserved(p) = 0
  <2>1. \A b \in BatchesAt(p) : reserved_qty[b] = 0
    BY FiniteBatches DEF Init, NoQty
  <2> QED BY <2>1, SumZero DEF TotalReserved
<1>4. Rounded(0, Scale) = 0
  <2>1. Scale \in Nat \ {0} /\ Whole(0, Scale)
    BY FulfillmentAssumptions DEF Whole
  <2> QED BY <2>1, RoundedWhole
<1> QED BY <1>1, <1>2, <1>3, <1>4 DEF RoundedAt

\* The two invariants hold together in every state of every behaviour.
LEMMA Invariant == Spec => []IInv
<1>1. Init => IInv
  BY InvInit
<1>2. IInv /\ [Next]_vars => IInv'
  BY InvStep
<1> QED BY <1>1, <1>2, PTL DEF Spec

\* The tables stay well typed: no quantity of a batch, a package row, a
\* warehouse total or an issue becomes negative, and no handler can commit a
\* state the CHECK constraints refuse.
THEOREM TypeCorrect == Spec => []TypeOK
<1>1. IInv => TypeOK
  BY DEF IInv
<1> QED BY <1>1, Invariant, PTL

\* The warehouse totals are the rounded sums over the batches whichever handler
\* wrote them, for any number of batches per warehouse, until Workflow C decrements
\* them by a quantity that is not a whole number of hundredths.
THEOREM TotalsStayRounded == Spec => TotalsDrift
<1>1. ASSUME IInv, Next PROVE TotalsStep
  <2>1. PICK r \in Requests : Shape(r)
    BY <1>1, StepShape
  <2>2. CASE KeepsTotals
    BY <2>2 DEF KeepsTotals, TotalsStep
  <2>3. CASE Replaces(r)
    <3>1. item_qty'[r] \in QtyMap /\ StepOf(r)
      BY <2>1 DEF Shape, RowType
    <3>2. /\ pkg[r].status_code = "P" /\ pkg'[r].status_code = "D"
          /\ undo_and_deplete(r, item_qty'[r]) /\ DecrementTotals(r, item_qty'[r])
      BY <2>3 DEF Replaces, undo_and_deplete
    <3>3. (\A p \in Pairs : WholeAt(p, item_qty[r]) /\ WholeAt(p, item_qty'[r])) => KeepsTotals
      BY <1>1, <3>1, <3>2, UndoStock
    <3>4. CASE \A p \in Pairs : WholeAt(p, item_qty[r]) /\ WholeAt(p, item_qty'[r])
      BY <3>3, <3>4 DEF KeepsTotals, TotalsStep
    <3>5. CASE ~\A p \in Pairs : WholeAt(p, item_qty[r]) /\ WholeAt(p, item_qty'[r])
      <4>1. DecrementsFraction(r)
        BY <3>1, <3>2, <3>5 DEF DecrementsFraction, WholeAt
      <4> QED BY <4>1 DEF TotalsStep
    <3> QED BY <3>4, <3>5
  <2> QED BY <1>1, <2>1, <2>2, <2>3, ShapeStock
<1>2. ASSUME UNCHANGED vars PROVE TotalsStep
  BY <1>2 DEF TotalsStep, TotalsRounded, TotalUsable, TotalReserved, vars, stockVars
<1>3. IInv /\ [Next]_vars => TotalsStep
  BY <1>1, <1>2
<1> QED BY <1>3, Invariant, PTL DEF Spec, TotalsDrift

\* What each warehouse holds of an item, has reserved of it and has of it in each
\* package is a whole number of hundredths.
WholeHundredths ==
  \A p \in Pairs : /\ Whole(TotalUsable(p), Scale) /\ Whole(TotalReserved(p), Scale)
                   /\ \A r \in Requests : WholeAt(p, item_qty[r])

\* The claim of reserve_inventory's docstring, and what it needs: as long as stock
\* moves in whole hundredths, the totals are the sums, whichever handler wrote
\* them.
THEOREM InventoryConsistent == Spec /\ []WholeHundredths => []InventoryMatchesBatches
<1>1. Init => TotalsRounded
  BY InitTotals
<1>2. WholeHundredths /\ WholeHundredths' /\ TotalsStep /\ TotalsRounded => TotalsRounded'
  <2> SUFFICES ASSUME WholeHundredths, WholeHundredths', TotalsStep, TotalsRounded
               PROVE  TotalsRounded'
    OBVIOUS
  <2>1. ASSUME NEW r \in Requests PROVE ~DecrementsFraction(r)
    <3>1. \A p \in Pairs : WholeAt(p, item_qty[r])
      BY DEF WholeHundredths
    <3>2. \A p \in Pairs : WholeAt(p, item_qty'[r])
      BY DEF WholeHundredths, WholeAt
    <3> QED BY <3>1, <3>2 DEF DecrementsFraction, WholeAt
  <2> QED BY <2>1 DEF TotalsStep
<1>3. WholeHundredths /\ TotalsRounded /\ IInv => InventoryMatchesBatches
  <2> SUFFICES ASSUME WholeHundredths, TotalsRounded, IInv, NEW p \in Pairs
               PROVE  /\ inventory[p].usable_qty = TotalUsable(p)
                      /\ inventory[p].reserved_qty = TotalReserved(p)
    BY DEF InventoryMatchesBatches
  <2>1. usable_qty \in QtyMap /\ reserved_qty \in QtyMap
    BY DEF IInv, TypeOK, QtyMap
  <2>2. TotalUsable(p) \in Nat /\ TotalReserved(p) \in Nat
    BY <2>1, RoundedTotals
  <2>3. Whole(TotalUsable(p), Scale) /\ Whole(TotalReserved(p), Scale)
    BY DEF WholeHundredths
  <2>4. Scale \in Nat \ {0}
    BY FulfillmentAssumptions
  <2>5. Rounded(TotalUsable(p), Scale) = TotalUsable(p)
    BY <2>2, <2>3, <2>4, RoundedWhole
  <2>6. Rounded(TotalReserved(p), Scale) = TotalReserved(p)
    BY <2>2, <2>3, <2>4, RoundedWhole
  <2> QED BY <2>5, <2>6 DEF TotalsRounded
<1>4. TotalsRounded /\ UNCHANGED vars => TotalsRounded'
  BY DEF TotalsRounded, TotalUsable, TotalReserved, vars, stockVars
<1> QED BY <1>1, <1>2, <1>3, <1>4, Invariant, TotalsStayRounded, PTL DEF Spec, TotalsDrift

\* Rows with a quantity belong to packages that exist, and what is handed over
\* is dispatched.
THEOREM RowsConsistent == Spec => []RowsBelongToPackage
<1>1. IInv => RowsBelongToPackage
  BY DEF IInv
<1> QED BY <1>1, Invariant, PTL

-----------------------------------------------------------------------------
(* The action properties.                                                  *)

\* A step on r moves what the packages hold of b by what r holds of it.
LEMMA HoldingStep ==
  ASSUME IInv, IInv', NEW r \in Requests, StepOf(r), NEW st, NEW b \in Batches
  PROVE  LET before == Holding(st, b)
             after  == Holding(st, b)'
         IN  /\ before[r] \in Nat /\ after[r] \in Nat
             /\ SumOver(Requests, before) \in Nat /\ SumOver(Requests, after) \in Nat
             /\ before[r] <= SumOver(Requests, before)
             /\ SumOver(Requests, after) = SumOver(Requests, before) - before[r] + after[r]
<1> DEFINE before == Holding(st, b)
           after  == Holding(st, b)'
<1>1. \A s \in Requests : item_qty[s][b] \in Nat /\ item_qty'[s][b] \in Nat
  BY DEF IInv, TypeOK
<1>2. IsQty(Requests, before) /\ IsQty(Requests, after)
  BY <1>1 DEF IsQty, Holding
<1>3. \A s \in Requests \ {r} : before[s] = after[s]
  BY DEF StepOf, Holding
<1>4. before[r] \in Nat /\ after[r] \in Nat
  BY <1>2 DEF IsQty
<1> HIDE DEF before, after
<1>5. IsFiniteSet(Requests)
  BY FiniteBatches
<1>6. SumOver(Requests, before) \in Nat /\ SumOver(Requests, after) \in Nat
  BY <1>2, <1>5, SumType
<1>7. before[r] <= SumOver(Requests, before)
  BY <1>2, <1>5, SumMember
<1>8. SumOver(Requests, after) = SumOver(Requests, before) - before[r] + after[r]
  BY <1>2, <1>3, <1>5, SumUpdate
<1> QED BY <1>4, <1>6, <1>7, <1>8 DEF before, after

\* A package is never brought back from dispatch, whatever page is posted.
THEOREM DispatchFinal == Spec => DispatchNeverUndone
<1>1. ASSUME IInv, Next, NEW r \in Requests, pkg[r].status_code = "D"
      PROVE  pkg'[r].status_code \in {"D", "none"}
  <2>1. PICK s \in Requests : Shape(s)
    BY <1>1, StepShape
  <2>2. CASE s # r
    BY <1>1, <2>1, <2>2 DEF Shape, StepOf
  <2>3. CASE s = r
    BY <1>1, <2>1, <2>3 DEF Shape, Reserves, Commits, Replaces, Releases, Drops, Keeps
  <2> QED BY <2>2, <2>3
<1>2. IInv /\ [Next]_vars =>
        [\A r \in Requests :
           pkg[r].status_code = "D" => pkg'[r].status_code \in {"D", "none"}]_vars
  BY <1>1
<1> QED BY <1>2, Invariant, PTL DEF Spec, DispatchNeverUndone

\* What left a batch is what dispatched packages carry of it, until a package
\* is altered after its dispatch.
THEOREM StockBalance == Spec => StockBalanceDrift
<1>1. ASSUME IInv, IInv', Next, StockBalanced, \A r \in Requests : ~AltersDispatched(r)
      PROVE  StockBalanced'
  <2>1. PICK r \in Requests : Shape(r)
    BY <1>1, StepShape
  <2>2. SUFFICES ASSUME NEW b \in Batches
                 PROVE  usable_qty'[b] + Shipped(b)' = InitialUsable[b]
    BY DEF StockBalanced
  <2> DEFINE before == Holding("D", b)
             after  == Holding("D", b)'
  <2>3. StepOf(r) /\ item_qty'[r] \in QtyMap
    BY <2>1 DEF Shape, RowType
  <2>4. /\ before[r] \in Nat /\ after[r] \in Nat
        /\ SumOver(Requests, before) \in Nat /\ SumOver(Requests, after) \in Nat
        /\ SumOver(Requests, after) = SumOver(Requests, before) - before[r] + after[r]
    BY <1>1, <2>3, HoldingStep
  <2>5. /\ before[r] = IF pkg[r].status_code = "D" THEN item_qty[r][b] ELSE 0
        /\ after[r] = IF pkg'[r].status_code = "D" THEN item_qty'[r][b] ELSE 0
    BY DEF Holding
  <2>6. usable_qty[b] \in Nat /\ usable_qty'[b] \in Nat /\ item_qty'[r][b] \in Nat
    BY <1>1, <2>3 DEF IInv, TypeOK, QtyMap
  <2>7. usable_qty[b] + SumOver(Requests, before) = InitialUsable[b]
    BY <1>1 DEF StockBalanced, Shipped
  <2> HIDE DEF before, after
  <2>8. SUFFICES usable_qty'[b] = usable_qty[b] + before[r] - after[r]
    <3>1. usable_qty'[b] + SumOver(Requests, after) = InitialUsable[b]
      BY <2>4, <2>6, <2>7, <2>8
    <3> QED BY <3>1 DEF Shipped, after
  <2>9. CASE pkg[r].status_code = "D"
    <3>1. pkg'[r].status_code = "D" /\ item_qty'[r] = item_qty[r] /\ usable_qty' = usable_qty
      BY <1>1, <2>3, <2>9 DEF AltersDispatched
    <3> QED BY <2>4, <2>5, <2>6, <2>9, <3>1
  <2>10. CASE pkg[r].status_code # "D"
    <3>1. CASE Reserves(r)
      <4>1. usable_qty' = usable_qty
        BY <1>1, <2>3, <3>1, ReserveStock DEF Reserves
      <4> QED BY <2>5, <2>6, <2>10, <3>1, <4>1 DEF Reserves
    <3>2. CASE Commits(r)
      <4>1. usable_qty'[b] = usable_qty[b] - item_qty'[r][b]
        BY <1>1, <2>3, <3>2, CommitStock DEF Commits
      <4> QED BY <2>5, <2>6, <2>10, <3>2, <4>1 DEF Commits
    <3>3. CASE Replaces(r)
      <4>1. usable_qty'[b] = usable_qty[b] - item_qty'[r][b]
        BY <1>1, <2>3, <3>3, UndoStock DEF Replaces
      <4> QED BY <2>5, <2>6, <2>10, <3>3, <4>1 DEF Replaces
    <3>4. CASE Releases(r) \/ Drops(r) \/ Keeps(r)
      <4>1. usable_qty' = usable_qty /\ pkg'[r].status_code # "D"
        BY <2>10, <3>4 DEF Releases, ReleasesRows, Drops, Keeps, stockVars
      <4> QED BY <2>5, <2>6, <2>10, <4>1
    <3> QED BY <2>1, <3>1, <3>2, <3>3, <3>4 DEF Shape
  <2> QED BY <2>9, <2>10
<1>2. ASSUME IInv, [Next]_vars
      PROVE  [BalanceStep]_vars
  <2>1. IInv'
    BY <1>2, InvStep
  <2> QED BY <1>1, <1>2, <2>1 DEF BalanceStep
<1> QED BY <1>2, Invariant, PTL DEF Spec, StockBalanceDrift

\* The same for what pending packages claim.
LEMMA ClaimStep ==
  ASSUME IInv, IInv', NEW r \in Requests, StepOf(r), NEW b \in Batches
  PROVE  LET held == IF pkg[r].status_code = "P" THEN item_qty[r][b] ELSE 0
             own  == IF pkg'[r].status_code = "P" THEN item_qty'[r][b] ELSE 0
         IN  /\ Claimed(b) \in Nat /\ Claimed(b)' \in Nat /\ held <= Claimed(b)
             /\ Claimed(b)' = Claimed(b) - held + own
<1>1. /\ Holding("P", b)[r] = IF pkg[r].status_code = "P" THEN item_qty[r][b] ELSE 0
      /\ Holding("P", b)'[r] = IF pkg'[r].status_code = "P" THEN item_qty'[r][b] ELSE 0
  BY DEF Holding
<1> QED BY <1>1, HoldingStep DEF Claimed

\* A package that is not dispatched holds its rows as claims.
LEMMA PendingHolds ==
  ASSUME IInv, NEW r \in Requests, NEW b \in Batches, pkg[r].status_code # "D"
  PROVE  item_qty[r][b] = IF pkg[r].status_code = "P" THEN item_qty[r][b] ELSE 0
<1>1. CASE pkg[r].status_code = "P"
  BY <1>1
<1>2. CASE pkg[r].status_code # "P"
  <2>1. pkg[r].status_code = "none"
    BY <1>2 DEF IInv, TypeOK, ReliefPkg
  <2>2. b \notin PlanRows(item_qty[r]) /\ item_qty[r][b] \in Nat
    BY <2>1 DEF IInv, TypeOK, RowsBelongToPackage
  <2> QED BY <1>2, <2>2 DEF PlanRows
<1> QED BY <1>1, <1>2


\* reserved_qty is exactly what pending packages hold, until a dispatched
\* package is altered, a preparation is cancelled or quantities change in the
\* POST that dispatches.
THEOREM ReservationsStayExact == Spec => ReservationDrift
<1>1. ASSUME IInv, IInv', Next, ReservationsExact,
             \A r \in Requests : ~AltersDispatched(r) /\ ~AbandonsRows(r) /\ ~EditsOnDispatch(r)
      PROVE  ReservationsExact'
  <2>1. PICK r \in Requests : Shape(r)
    BY <1>1, StepShape
  <2>2. SUFFICES ASSUME NEW b \in Batches PROVE reserved_qty'[b] = Claimed(b)'
    BY DEF ReservationsExact
  <2> DEFINE old == item_qty[r][b]
             new == item_qty'[r][b]
             own == IF pkg'[r].status_code = "P" THEN new ELSE 0
             held == IF pkg[r].status_code = "P" THEN old ELSE 0
  <2>3. StepOf(r) /\ item_qty'[r] \in QtyMap
    BY <2>1 DEF Shape, RowType
  <2>4. /\ Claimed(b) \in Nat /\ Claimed(b)' \in Nat /\ held <= Claimed(b)
        /\ Claimed(b)' = Claimed(b) - held + own
    BY <1>1, <2>3, ClaimStep
  <2>5. /\ old \in Nat /\ new \in Nat /\ reserved_qty[b] \in Nat /\ reserved_qty'[b] \in Nat
        /\ pkg[r].status_code # "D" => held = old
    BY <1>1, <2>3, PendingHolds DEF IInv, TypeOK, QtyMap
  <2>6. reserved_qty[b] = Claimed(b)
    BY <1>1 DEF ReservationsExact
  <2>7. CASE pkg[r].status_code = "D"
    <3>1. pkg'[r].status_code = "D" /\ reserved_qty' = reserved_qty
      BY <1>1, <2>3, <2>7 DEF AltersDispatched
    <3> QED BY <2>4, <2>5, <2>6, <2>7, <3>1
  <2>8. CASE pkg[r].status_code # "D"
    <3>1. CASE Reserves(r)
      <4>1. reserved_qty'[b] = AtLeastZero(reserved_qty[b] + (new - old)) /\ pkg'[r].status_code = "P"
        BY <1>1, <2>3, <2>8, <3>1, ReserveStock DEF Reserves
      <4> HIDE DEF old, new
      <4> QED BY <2>4, <2>5, <2>6, <2>8, <4>1 DEF AtLeastZero
    <3>2. CASE Commits(r)
      <4>1. reserved_qty'[b] = AtLeastZero(reserved_qty[b] - new) /\ pkg'[r].status_code = "D"
        BY <1>1, <2>3, <3>2, CommitStock DEF Commits
      <4>2. new = old
        BY <1>1, <2>3, <2>5, <2>8, <4>1 DEF EditsOnDispatch
      <4> HIDE DEF old, new
      <4> QED BY <2>4, <2>5, <2>6, <2>8, <4>1, <4>2 DEF AtLeastZero
    <3>3. CASE Replaces(r)
      <4>1. reserved_qty'[b] = reserved_qty[b] - old /\ pkg'[r].status_code = "D"
        BY <1>1, <2>3, <3>3, UndoStock DEF Replaces
      <4> QED BY <2>4, <2>5, <2>6, <2>8, <4>1
    <3>4. CASE Releases(r)
      <4>1. reserved_qty'[b] = reserved_qty[b] - old /\ pkg'[r].status_code = "none"
        BY <3>4 DEF Releases, ReleasesRows
      <4> QED BY <2>4, <2>5, <2>6, <2>8, <4>1
    <3>5. CASE Drops(r)
      <4>1. CASE pkg[r].status_code = "P"
        <5>1. /\ PlanRows(item_qty[r]) = {}
              /\ reserved_qty' = reserved_qty /\ item_qty'[r] = NoQty
          BY <1>1, <2>3, <3>5, <4>1 DEF Drops, stockVars, AbandonsRows
        <5>2. old = 0 /\ new = 0
          BY <2>5, <5>1 DEF PlanRows, NoQty
        <5> QED BY <2>4, <2>5, <2>6, <5>1, <5>2
      <4>2. CASE pkg[r].status_code # "P"
        BY <2>4, <2>5, <2>6, <3>5, <4>2 DEF Drops, stockVars
      <4> QED BY <4>1, <4>2
    <3>6. CASE Keeps(r)
      <4>1. reserved_qty' = reserved_qty /\ own = held
        BY <3>6 DEF Keeps, stockVars
      <4> QED BY <2>4, <2>5, <2>6, <4>1
    <3> QED BY <2>1, <3>1, <3>2, <3>3, <3>4, <3>5, <3>6 DEF Shape
  <2> QED BY <2>7, <2>8
<1>2. ASSUME IInv, [Next]_vars
      PROVE  [ReservationStep]_vars
  <2>1. IInv'
    BY <1>2, InvStep
  <2> QED BY <1>1, <1>2, <2>1 DEF ReservationStep
<1> QED BY <1>2, Invariant, PTL DEF Spec, ReservationDrift


\* A pending package's rows stay covered by reservations, until a dispatched
\* package is altered or a dispatch takes more than its package had reserved.
THEOREM ReservationsStayCovering == Spec => CoverageDrift
<1>1. ASSUME IInv, IInv', Next, ReservationsCovering,
             \A r \in Requests : ~AltersDispatched(r) /\ ~GrowsOnDispatch(r)
      PROVE  ReservationsCovering'
  <2>1. PICK r \in Requests : Shape(r)
    BY <1>1, StepShape
  <2>2. SUFFICES ASSUME NEW b \in Batches PROVE Claimed(b)' <= reserved_qty'[b]
    BY DEF ReservationsCovering
  <2> DEFINE old == item_qty[r][b]
             new == item_qty'[r][b]
             own == IF pkg'[r].status_code = "P" THEN new ELSE 0
             held == IF pkg[r].status_code = "P" THEN old ELSE 0
  <2>3. StepOf(r) /\ item_qty'[r] \in QtyMap
    BY <2>1 DEF Shape, RowType
  <2>4. /\ Claimed(b) \in Nat /\ Claimed(b)' \in Nat /\ held <= Claimed(b)
        /\ Claimed(b)' = Claimed(b) - held + own
    BY <1>1, <2>3, ClaimStep
  <2>5. /\ old \in Nat /\ new \in Nat /\ reserved_qty[b] \in Nat /\ reserved_qty'[b] \in Nat
        /\ pkg[r].status_code # "D" => held = old
    BY <1>1, <2>3, PendingHolds DEF IInv, TypeOK, QtyMap
  <2>6. Claimed(b) <= reserved_qty[b]
    BY <1>1 DEF ReservationsCovering
  <2>7. CASE pkg[r].status_code = "D"
    <3>1. pkg'[r].status_code = "D" /\ reserved_qty' = reserved_qty
      BY <1>1, <2>3, <2>7 DEF AltersDispatched
    <3> QED BY <2>4, <2>5, <2>6, <2>7, <3>1
  <2>8. CASE pkg[r].status_code # "D"
    <3>1. CASE Reserves(r)
      <4>1. reserved_qty'[b] = AtLeastZero(reserved_qty[b] + (new - old)) /\ pkg'[r].status_code = "P"
        BY <1>1, <2>3, <2>8, <3>1, ReserveStock DEF Reserves
      <4> HIDE DEF old, new
      <4> QED BY <2>4, <2>5, <2>6, <2>8, <4>1 DEF AtLeastZero
    <3>2. CASE Commits(r)
      <4>1. reserved_qty'[b] = AtLeastZero(reserved_qty[b] - new) /\ pkg'[r].status_code = "D"
        BY <1>1, <2>3, <3>2, CommitStock DEF Commits
      <4>2. new <= old
        BY <1>1, <2>3, <2>5, <2>8, <4>1 DEF GrowsOnDispatch, EditsOnDispatch
      <4> HIDE DEF old, new
      <4> QED BY <2>4, <2>5, <2>6, <2>8, <4>1, <4>2 DEF AtLeastZero
    <3>3. CASE Replaces(r)
      <4>1. reserved_qty'[b] = reserved_qty[b] - old /\ pkg'[r].status_code = "D"
        BY <1>1, <2>3, <3>3, UndoStock DEF Replaces
      <4> QED BY <2>4, <2>5, <2>6, <2>8, <4>1
    <3>4. CASE Releases(r)
      <4>1. reserved_qty'[b] = reserved_qty[b] - old /\ pkg'[r].status_code = "none"
        BY <3>4 DEF Releases, ReleasesRows
      <4> QED BY <2>4, <2>5, <2>6, <2>8, <4>1
    <3>5. CASE Drops(r)
      <4>1. reserved_qty' = reserved_qty /\ new = 0
        BY <3>5 DEF Drops, stockVars, NoQty
      <4> QED BY <2>4, <2>5, <2>6, <4>1
    <3>6. CASE Keeps(r)
      <4>1. reserved_qty' = reserved_qty /\ own = held
        BY <3>6 DEF Keeps, stockVars
      <4> QED BY <2>4, <2>5, <2>6, <4>1
    <3> QED BY <2>1, <3>1, <3>2, <3>3, <3>4, <3>5, <3>6 DEF Shape
  <2> QED BY <2>7, <2>8
<1>2. ASSUME IInv, [Next]_vars
      PROVE  [CoverageStep]_vars
  <2>1. IInv'
    BY <1>2, InvStep
  <2> QED BY <1>1, <1>2, <2>1 DEF CoverageStep
<1> QED BY <1>2, Invariant, PTL DEF Spec, CoverageDrift

-----------------------------------------------------------------------------
(* What holds for good when the pages are used as they are meant to be.    *)
(* The drift properties say which steps spoil the books; these theorems    *)
(* say that nothing else does, over a whole behaviour.                     *)

\* A package is left alone once it is dispatched: neither saved, nor sent, nor
\* cancelled again.
DispatchedLeftAlone == [][\A r \in Requests : ~AltersDispatched(r)]_vars

\* No dispatch takes more of a batch than its package had reserved.
DispatchedAsReserved == [][\A r \in Requests : ~GrowsOnDispatch(r)]_vars

\* Quantities are changed before the POST that dispatches, and a preparation that
\* has allocations is not cancelled.
ReservedBeforeDispatch ==
  [][\A r \in Requests : ~AbandonsRows(r) /\ ~EditsOnDispatch(r)]_vars

\* At the start nothing is reserved and nothing has left.
LEMMA BooksOpen ==
  ASSUME Init
  PROVE  /\ StockBalanced /\ ReservationsExact
         /\ \A b \in Batches : Claimed(b) = 0 /\ reserved_qty[b] = 0
<1>1. \A st \in {"P", "D"}, b \in Batches : SumOver(Requests, Holding(st, b)) = 0
  <2> TAKE st \in {"P", "D"}, b \in Batches
  <2>1. \A r \in Requests : Holding(st, b)[r] = 0
    BY DEF Init, Holding, NoPkg
  <2> QED BY <2>1, SumZero
<1>2. \A b \in Batches : Claimed(b) = 0 /\ Shipped(b) = 0
  BY <1>1 DEF Claimed, Shipped
<1>3. \A b \in Batches : reserved_qty[b] = 0 /\ usable_qty[b] = InitialUsable[b]
                         /\ InitialUsable[b] \in Nat
  BY FulfillmentAssumptions DEF Init, NoQty
<1> QED BY <1>2, <1>3 DEF StockBalanced, ReservationsExact

\* While dispatched packages are left alone, shelf and shipments add up to the
\* initial stock of every batch, on every dispatch path and in any order.
THEOREM NoStockLost == Spec /\ DispatchedLeftAlone => []StockBalanced
<1>1. Init => StockBalanced
  BY BooksOpen
<1>2. StockBalanced /\ [BalanceStep]_vars /\ [\A r \in Requests : ~AltersDispatched(r)]_vars
        => StockBalanced'
  <2> SUFFICES ASSUME StockBalanced, UNCHANGED vars
               PROVE  StockBalanced'
    BY DEF BalanceStep
  <2> QED BY DEF vars, stockVars, pkgVars, StockBalanced, Shipped, Holding
<1> QED BY <1>1, <1>2, StockBalance, PTL DEF Spec, StockBalanceDrift, DispatchedLeftAlone

\* While, besides, quantities change before the POST that dispatches and no
\* preparation with allocations is cancelled, reserved_qty is at all times what
\* the pending packages hold.
THEOREM ReservationsAreExact ==
  Spec /\ DispatchedLeftAlone /\ ReservedBeforeDispatch => []ReservationsExact
<1>1. Init => ReservationsExact
  BY BooksOpen
<1>2. /\ ReservationsExact /\ [ReservationStep]_vars
      /\ [\A r \in Requests : ~AltersDispatched(r)]_vars
      /\ [\A r \in Requests : ~AbandonsRows(r) /\ ~EditsOnDispatch(r)]_vars
      => ReservationsExact'
  <2> SUFFICES ASSUME ReservationsExact, UNCHANGED vars
               PROVE  ReservationsExact'
    BY DEF ReservationStep
  <2> QED BY DEF vars, stockVars, pkgVars, ReservationsExact, Claimed, Holding
<1> QED BY <1>1, <1>2, ReservationsStayExact, PTL
        DEF Spec, ReservationDrift, DispatchedLeftAlone, ReservedBeforeDispatch

\* inventory_reservation_service does prevent double allocation, over any number of
\* packages of any form, while dispatched packages are left alone and no dispatch
\* takes more than its package had reserved: those two steps are all that breaks
\* what its header promises.
THEOREM DoubleAllocationNeeds ==
  Spec /\ DispatchedLeftAlone /\ DispatchedAsReserved => []NoDoubleAllocation
<1>1. Init => ReservationsCovering
  BY BooksOpen DEF ReservationsCovering
<1>2. /\ ReservationsCovering /\ [CoverageStep]_vars
      /\ [\A r \in Requests : ~AltersDispatched(r)]_vars
      /\ [\A r \in Requests : ~GrowsOnDispatch(r)]_vars
      => ReservationsCovering'
  <2> SUFFICES ASSUME ReservationsCovering, UNCHANGED vars
               PROVE  ReservationsCovering'
    BY DEF CoverageStep
  <2> QED BY DEF vars, stockVars, pkgVars, ReservationsCovering, Claimed, Holding
<1>3. ASSUME IInv, ReservationsCovering
      PROVE  NoDoubleAllocation
  <2> SUFFICES ASSUME NEW b \in Batches PROVE Claimed(b) <= usable_qty[b]
    BY DEF NoDoubleAllocation
  <2>1. Claimed(b) <= reserved_qty[b] /\ reserved_qty[b] <= usable_qty[b]
    BY <1>3 DEF ReservationsCovering, IInv, TypeOK, DatabaseChecks, c_itembatch_2
  <2>2. reserved_qty[b] \in Nat /\ usable_qty[b] \in Nat
    BY <1>3 DEF IInv, TypeOK
  <2>3. \A r \in Requests : item_qty[r][b] \in Nat
    BY <1>3 DEF IInv, TypeOK
  <2>4. IsFiniteSet(Requests) /\ IsQty(Requests, Holding("P", b))
    BY <2>3, FiniteBatches DEF IsQty, Holding
  <2>5. Claimed(b) \in Nat
    BY <2>4, SumType DEF Claimed
  <2> QED BY <2>1, <2>2, <2>5
<1> QED BY <1>1, <1>2, <1>3, Invariant, ReservationsStayCovering, PTL
        DEF Spec, CoverageDrift, DispatchedLeftAlone, DispatchedAsReserved

-----------------------------------------------------------------------------
(* Refinement of StockLedger.                                              *)

HoldsPlans == item_qty \in [Requests -> Plans]

\* A package holds what some page could have posted.
LEMMA PlansStep ==
  ASSUME HoldsPlans, [Next]_vars
  PROVE  HoldsPlans'
<1>1. NoQty \in Plans
  BY FulfillmentAssumptions DEF NoQty, Plans
<1>2. ASSUME NEW r \in Requests, NEW f \in Forms[r] PROVE f.qty \in Plans
  BY DEF Forms, Plans
<1>3. CASE UNCHANGED vars
  BY <1>3 DEF HoldsPlans, vars, pkgVars
<1>4. ASSUME NEW r \in Requests, NEW f \in Forms[r], _process_allocations(r, f)
      PROVE  HoldsPlans'
  BY <1>2, <1>4 DEF HoldsPlans, _process_allocations
<1>5. ASSUME NEW r \in Requests, PreparePackage(r) PROVE HoldsPlans'
  BY <1>4, <1>5 DEF PreparePackage, _save_draft, _submit_for_approval, _send_for_dispatch
<1>6. ASSUME NEW r \in Requests, ApprovePackage(r) PROVE HoldsPlans'
  BY <1>4, <1>6 DEF ApprovePackage, _save_draft_approval, _approve_and_dispatch
<1>7. ASSUME NEW r \in Requests, ReviewApproval(r) \/ \E ws \in SUBSET Warehouses : mark_handover(r, ws)
      PROVE  HoldsPlans'
  BY <1>7 DEF ReviewApproval, review_approve, review_reject, mark_handover, HoldsPlans
<1>8. ASSUME NEW r \in Requests, SubmitForDispatch(r) PROVE HoldsPlans'
  BY <1>8 DEF SubmitForDispatch, submit_for_dispatch, _overwrite_package_items, HoldsPlans
<1>9. ASSUME NEW r \in Requests, cancel_package(r) \/ cancel_preparation(r) PROVE HoldsPlans'
  BY <1>1, <1>9 DEF cancel_package, cancel_relief_package, cancel_preparation, HoldsPlans
<1> QED BY <1>3, <1>5, <1>6, <1>7, <1>8, <1>9 DEF Next

\* Each of the six shapes is one of the ledger's operations, or none.
LEMMA ShapeLedger ==
  ASSUME IInv, HoldsPlans', NEW r \in Requests, Shape(r)
  PROVE  Ledger!Next \/ UNCHANGED Ledger!ledger
<1> DEFINE status == [s \in Requests |-> pkg[s].status_code]
<1>1. PICK new \in Plans : item_qty'[r] = new
  BY DEF HoldsPlans
<1>2. StepOf(r) /\ RowType'
  BY DEF Shape
<1>3. item_qty \in [Requests -> QtyMap] /\ item_qty' \in [Requests -> QtyMap]
  BY <1>2 DEF IInv, TypeOK, RowType, QtyMap
<1>4. item_qty' = [item_qty EXCEPT ![r] = new]
  BY <1>1, <1>2, <1>3 DEF StepOf
<1>5. status' = [status EXCEPT ![r] = pkg'[r].status_code] /\ status[r] = pkg[r].status_code
  BY <1>2 DEF StepOf
<1>6. Ledger!Solvent'
  BY DEF Shape, DatabaseChecks, c_itembatch_2, Ledger!Solvent
<1>7. CASE Reserves(r)
  <2>1. Ledger!Reserve(r, new)
    BY <1>1, <1>4, <1>5, <1>7 DEF Reserves, reserve_inventory, Ledger!Reserve,
       AtLeastZero, Ledger!AtLeastZero
  <2> QED BY <1>6, <2>1 DEF Ledger!Next, Ledger!Operate
<1>8. CASE Commits(r)
  <2>1. Ledger!Dispatch(r, new)
    BY <1>1, <1>4, <1>5, <1>8 DEF Commits, commit_inventory, Ledger!Dispatch,
       AtLeastZero, Ledger!AtLeastZero
  <2> QED BY <1>6, <2>1 DEF Ledger!Next, Ledger!Operate
<1>9. CASE Replaces(r)
  <2>1. Ledger!Replace(r, new)
    BY <1>1, <1>4, <1>5, <1>9 DEF Replaces, undo_and_deplete, _undo_lo_reservations,
       _deplete_usable_stock, Ledger!Replace
  <2> QED BY <1>6, <2>1 DEF Ledger!Next, Ledger!Operate
<1>10. CASE Releases(r)
  <2>1. Ledger!Release(r)
    BY <1>1, <1>4, <1>5, <1>10 DEF Releases, ReleasesRows, Ledger!Release, NoQty, Ledger!NoQty
  <2> QED BY <1>6, <2>1 DEF Ledger!Next, Ledger!Operate
<1>11. CASE Drops(r)
  <2>1. status' = status
    BY <1>5, <1>11 DEF Drops
  <2>2. Ledger!Drop(r)
    BY <1>1, <1>4, <1>5, <1>11, <2>1 DEF Drops, stockVars, Ledger!Drop, NoQty, Ledger!NoQty
  <2> QED BY <1>6, <2>2 DEF Ledger!Next, Ledger!Operate
<1>12. CASE Keeps(r)
  <2>1. status' = status /\ item_qty' = item_qty
    BY <1>1, <1>3, <1>4, <1>5, <1>12 DEF Keeps
  <2> QED BY <1>12, <2>1 DEF Keeps, stockVars, Ledger!ledger
<1> QED BY <1>7, <1>8, <1>9, <1>10, <1>11, <1>12 DEF Shape

\* Every POST handler of the fulfilment pages, seen on batches and packages
\* alone, is one operation of the atomic ledger.
THEOREM HandlersImplementLedger == Spec => ImplementsLedger
<1>1. Init => Ledger!Init /\ HoldsPlans
  BY FulfillmentAssumptions DEF Init, Ledger!Init, NoPkg, NoQty, Ledger!NoQty, HoldsPlans, Plans
<1>2. HoldsPlans /\ [Next]_vars => HoldsPlans'
  BY PlansStep
<1>3. ASSUME IInv, HoldsPlans', [Next]_vars PROVE [Ledger!Next]_(Ledger!ledger)
  <2>1. CASE UNCHANGED vars
    BY <2>1 DEF vars, pkgVars, stockVars, Ledger!ledger
  <2>2. CASE Next
    BY <1>3, <2>2, StepShape, ShapeLedger
  <2> QED BY <1>3, <2>1, <2>2
<1> QED BY <1>1, <1>2, <1>3, Invariant, PTL DEF Spec, ImplementsLedger, Ledger!Spec

-----------------------------------------------------------------------------
(* The pages that list the work.                                           *)

\* A pending package that has been verified by anybody waits for a manager.
QueueOf(r) ==
  pkg[r].status_code = "P" /\ pkg[r].verify_by_id # "NULL" =>
    pkg[r].verify_by_id = "PENDING_LM" /\ rqst[r] = "PART_FILLED"

QueueInv == \A r \in Requests : QueueOf(r)

\* What an action does to the package and the request of r.
LEMMA QueueUpdate ==
  ASSUME IInv, QueueInv, NEW r \in Requests, NEW new,
         pkg' = [pkg EXCEPT ![r] = new],
         rqst' = rqst \/ rqst' = [rqst EXCEPT ![r] = "PART_FILLED"],
         \/ new.status_code # "P" \/ new.verify_by_id = "NULL"
         \/ new.verify_by_id = "PENDING_LM" /\ rqst'[r] = "PART_FILLED"
  PROVE  QueueInv'
<1>1. pkg \in [Requests -> ReliefPkg] /\ rqst \in [Requests -> {"SUBMITTED", "PART_FILLED"}]
  BY DEF IInv, TypeOK
<1>2. pkg'[r] = new /\ \A s \in Requests \ {r} : pkg'[s] = pkg[s] /\ rqst'[s] = rqst[s]
  BY <1>1
<1>3. QueueOf(r)'
  BY <1>2 DEF QueueOf
<1>4. \A s \in Requests \ {r} : QueueOf(s)'
  BY <1>2 DEF QueueInv, QueueOf
<1> QED BY <1>3, <1>4 DEF QueueInv

\* A dispatched package is not pending.
LEMMA DispatchedStatus ==
  ASSUME NEW p \in ReliefPkg
  PROVE  Dispatched(p).status_code # "P"
BY DEF Dispatched, ReliefPkg

\* Every step keeps the queues apart.
LEMMA QueueStep ==
  ASSUME IInv, QueueInv, [Next]_vars
  PROVE  QueueInv'
<1>1. CASE UNCHANGED vars
  BY <1>1 DEF vars, pkgVars, QueueInv, QueueOf
<1>2. ASSUME NEW r \in Requests,
             \/ PreparePackage(r) \/ ApprovePackage(r) \/ ReviewApproval(r) \/ SubmitForDispatch(r)
             \/ cancel_package(r) \/ cancel_preparation(r)
             \/ \E ws \in SUBSET Warehouses : mark_handover(r, ws)
      PROVE  QueueInv'
  <2>a. pkg[r] \in ReliefPkg /\ QueueOf(r) /\ rqst \in [Requests -> {"SUBMITTED", "PART_FILLED"}]
    BY DEF IInv, TypeOK, QueueInv
  <2>1. ASSUME NEW f \in Forms[r], NEW u \in Users, _save_draft(u, r, f)
        PROVE  QueueInv'
    <3> DEFINE new == [PackageFor(r, u) EXCEPT !.verify_by_id = "NULL"]
    <3>1. new.verify_by_id = "NULL"
      BY PackageTypes DEF ReliefPkg
    <3>2. pkg' = [pkg EXCEPT ![r] = new] /\ rqst' = [rqst EXCEPT ![r] = "PART_FILLED"]
      BY <2>1 DEF _save_draft
    <3> HIDE DEF new
    <3> QED BY <3>1, <3>2, QueueUpdate
  <2>2. ASSUME NEW f \in Forms[r], NEW u \in Users, _submit_for_approval(u, r, f)
        PROVE  QueueInv'
    <3> DEFINE old == PackageFor(r, u)
               new == [old EXCEPT !.status_code = "P", !.verify_by_id = "PENDING_LM"]
    <3>1. old \in ReliefPkg
      BY PackageTypes
    <3>2. pkg' = [pkg EXCEPT ![r] = new] /\ rqst' = [rqst EXCEPT ![r] = "PART_FILLED"]
      BY <2>2 DEF _submit_for_approval
    <3> HIDE DEF old
    <3>3. new.verify_by_id = "PENDING_LM"
      BY <3>1 DEF ReliefPkg
    <3>4. rqst'[r] = "PART_FILLED"
      BY <2>a, <3>2
    <3> HIDE DEF new
    <3> QED BY <3>2, <3>3, <3>4, QueueUpdate
  <2>3. ASSUME NEW old \in ReliefPkg, pkg' = [pkg EXCEPT ![r] = Dispatched(old)],
               rqst' = [rqst EXCEPT ![r] = "PART_FILLED"]
        PROVE  QueueInv'
    BY <2>3, DispatchedStatus, QueueUpdate
  <2>4. ASSUME NEW f \in Forms[r], NEW u \in Users, _send_for_dispatch(u, r, f)
        PROVE  QueueInv'
    BY <2>3, <2>4, PackageTypes DEF _send_for_dispatch
  <2>5. ASSUME NEW f \in Forms[r], _approve_and_dispatch(r, f)
        PROVE  QueueInv'
    BY <2>a, <2>3, <2>5 DEF _approve_and_dispatch
  <2>6. CASE review_approve(r)
    BY <2>a, <2>3, <2>6 DEF review_approve
  <2>7. ASSUME NEW q, submit_for_dispatch(r, q)
        PROVE  QueueInv'
    BY <2>a, <2>3, <2>7 DEF submit_for_dispatch, _update_dispatch_records
  <2>8. ASSUME NEW f \in Forms[r], _save_draft_approval(r, f)
        PROVE  QueueInv'
    <3>1. pkg[r].status_code = "P" /\ pkg' = [pkg EXCEPT ![r].status_code = "P"] /\ rqst' = rqst
      BY <2>8 DEF _save_draft_approval, IsPending
    <3>2. [pkg[r] EXCEPT !.status_code = "P"] = pkg[r]
      BY <2>a, <3>1 DEF ReliefPkg
    <3>3. pkg' = [pkg EXCEPT ![r] = pkg[r]]
      BY <3>1, <3>2
    <3> QED BY <2>a, <3>1, <3>3, QueueUpdate DEF QueueOf
  <2>9. CASE review_reject(r)
    <3> DEFINE new == [pkg[r] EXCEPT !.verify_by_id = "NULL", !.status_code = "P"]
    <3>1. pkg' = [pkg EXCEPT ![r] = new] /\ rqst' = rqst
      BY <2>9, <2>a DEF review_reject, IInv, TypeOK
    <3>2. new.verify_by_id = "NULL"
      BY <2>a DEF ReliefPkg
    <3> HIDE DEF new
    <3> QED BY <3>1, <3>2, QueueUpdate
  <2>10. CASE cancel_package(r)
    <3>1. pkg' = [pkg EXCEPT ![r] = NoPkg] /\ rqst' = rqst
      BY <2>10 DEF cancel_package, cancel_relief_package
    <3>2. NoPkg.status_code # "P"
      BY DEF NoPkg
    <3> QED BY <3>1, <3>2, QueueUpdate
  <2>11. CASE cancel_preparation(r)
    BY <2>11 DEF cancel_preparation, QueueInv, QueueOf
  <2>12. ASSUME NEW ws, mark_handover(r, ws)
         PROVE  QueueInv'
    <3> DEFINE new == [pkg[r] EXCEPT !.received_dtime = TRUE]
    <3>1. pkg' = [pkg EXCEPT ![r] = new] /\ rqst' = rqst /\ pkg[r].status_code = "D"
      BY <2>12 DEF mark_handover
    <3>2. new.status_code # "P"
      BY <2>a, <3>1 DEF ReliefPkg
    <3> HIDE DEF new
    <3> QED BY <3>1, <3>2, QueueUpdate
  <2> QED BY <1>2, <2>1, <2>2, <2>4, <2>5, <2>6, <2>7, <2>8, <2>9, <2>10, <2>11, <2>12
             DEF PreparePackage, ApprovePackage, ReviewApproval, SubmitForDispatch, Users
<1> QED BY <1>1, <1>2 DEF Next

\* No request falls between the tabs of pending_fulfillment, the manager's queue
\* and the clerks' queues, and none is on two tabs.
THEOREM RequestsAreListed == Spec => []EveryRequestOnOneTab
<1>1. Init => QueueInv
  BY DEF Init, QueueInv, QueueOf, NoPkg
<1>2. QueueInv /\ IInv /\ [Next]_vars => QueueInv'
  BY QueueStep
<1>3. ASSUME IInv, QueueInv PROVE EveryRequestOnOneTab
  <2>1. ASSUME NEW r \in Requests
        PROVE  /\ pkg[r].status_code \in {"none", "P", "D"}
               /\ rqst[r] \in {"SUBMITTED", "PART_FILLED"}
               /\ pkg[r].received_dtime => pkg[r].status_code = "D"
               /\ pkg[r].dispatch_dtime <=> pkg[r].status_code = "D"
               /\ TotalQty(r) \in Nat
               /\ TotalQty(r) # 0 => \E b \in pkg_rows[r] : WarehouseOf[b] \in Warehouses
               /\ QueueOf(r)
    <3>1. pkg[r] \in ReliefPkg /\ c_reliefpkg_2(pkg[r]) /\ rqst[r] \in {"SUBMITTED", "PART_FILLED"}
      BY <1>3 DEF IInv, TypeOK, DatabaseChecks
    <3>2. pkg[r].received_dtime => pkg[r].status_code = "D"
      BY <1>3 DEF IInv, RowsBelongToPackage
    <3>3. pkg_rows[r] \in SUBSET Batches /\ item_qty[r] \in [Batches -> Nat]
      BY <1>3 DEF IInv, TypeOK
    <3>4. IsFiniteSet(pkg_rows[r]) /\ IsQty(pkg_rows[r], item_qty[r])
      BY <3>3, FulfillmentAssumptions, FS_Subset DEF IsQty
    <3>5. TotalQty(r) \in Nat
      BY <3>4, SumType DEF TotalQty
    <3>6. pkg_rows[r] = {} => TotalQty(r) = 0
      BY SumZero DEF TotalQty
    <3>7. \A b \in pkg_rows[r] : WarehouseOf[b] \in Warehouses
      BY <3>3, FulfillmentAssumptions
    <3> QED BY <1>3, <3>1, <3>2, <3>5, <3>6, <3>7 DEF ReliefPkg, c_reliefpkg_2, QueueInv
  <2>2. /\ pending_fulfillment("awaiting") = get_awaiting_requests
        /\ pending_fulfillment("in_progress") = get_in_progress_requests
        /\ pending_fulfillment("pending_approval") = get_pending_approval_requests
        /\ pending_fulfillment("approved_for_dispatch") = get_approved_packages_with_items
        /\ pending_fulfillment("approved_no_allocation") = get_approved_packages_no_items
        /\ pending_fulfillment("received") = dispatch_received
    BY DEF pending_fulfillment
  <2>3. ASSUME NEW r \in Requests
        PROVE  \E tab \in Tabs : /\ r \in pending_fulfillment(tab)
                                 /\ \A other \in Tabs \ {tab} : r \notin pending_fulfillment(other)
    <3>1. /\ r \in get_awaiting_requests <=>
               rqst[r] = "SUBMITTED" /\ ~has_pending_approval(r) /\ pkg[r].status_code # "D"
          /\ r \in get_in_progress_requests <=>
               rqst[r] = "PART_FILLED" /\ ~has_pending_approval(r) /\ pkg[r].status_code # "D"
          /\ r \in get_pending_approval_requests <=> has_pending_approval(r)
          /\ r \in get_approved_packages_with_items <=>
               pkg[r].status_code = "D" /\ ~pkg[r].received_dtime /\ TotalQty(r) # 0
          /\ r \in get_approved_packages_no_items <=>
               pkg[r].status_code = "D" /\ ~pkg[r].received_dtime /\ ~(TotalQty(r) > 0)
          /\ r \in dispatch_received <=> pkg[r].status_code = "D" /\ pkg[r].received_dtime
          /\ has_pending_approval(r) => pkg[r].status_code = "P" /\ rqst[r] = "PART_FILLED"
      BY <2>1 DEF get_awaiting_requests, get_in_progress_requests, get_pending_approval_requests,
         get_approved_packages_with_items, get_approved_packages_no_items, dispatch_received,
         InStatus, has_dispatched_package, has_pending_approval
    <3>2. TotalQty(r) # 0 <=> TotalQty(r) > 0
      BY <2>1
    <3>3. CASE has_pending_approval(r)
      BY <2>2, <3>1, <3>3 DEF Tabs
    <3>4. CASE ~has_pending_approval(r) /\ pkg[r].status_code # "D"
      BY <2>1, <2>2, <3>1, <3>4 DEF Tabs
    <3>5. CASE pkg[r].status_code = "D"
      BY <2>1, <2>2, <3>1, <3>2, <3>5 DEF Tabs
    <3> QED BY <3>3, <3>4, <3>5
  <2>4. pending_approval = get_pending_approval_requests
    BY <2>1 DEF pending_approval, get_pending_approval_requests, has_pending_approval, QueueOf,
       InStatus
  <2>5. \A r \in get_approved_packages_with_items :
          \E w \in Warehouses : r \in awaiting_dispatch({w})
    BY <2>1 DEF get_approved_packages_with_items, awaiting_dispatch
  <2> QED BY <2>3, <2>4, <2>5 DEF EveryRequestOnOneTab
<1> QED BY <1>1, <1>2, <1>3, Invariant, PTL DEF Spec
=============================================================================
