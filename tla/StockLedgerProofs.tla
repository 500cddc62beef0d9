-------------------------- MODULE StockLedgerProofs --------------------------
(***************************************************************************)
(* What the ledger promises to the packages as long as it is used in an    *)
(* orderly way.  Whatever implements the ledger inherits it.               *)
(***************************************************************************)
EXTENDS StockLedger, QuantityProofs

\* The constants of a ledger.
LedgerConstants ==
  /\ IsFiniteSet(Packages)
  /\ Plans \subseteq [Batches -> Nat] /\ NoQty \in Plans
  /\ InitialUsable \in [Batches -> Nat]

LedgerTypes ==
  /\ status \in [Packages -> {"none", "P", "D"}]
  /\ item_qty \in [Packages -> Plans]
  /\ usable_qty \in [Batches -> Nat] /\ reserved_qty \in [Batches -> Nat]
  /\ Solvent
  /\ \A k \in Packages : status[k] = "none" => item_qty[k] = NoQty

\* Units of b in the packages of status st, by package.
Holding(st, b) == [k \in Packages |-> IF status[k] = st THEN item_qty[k][b] ELSE 0]
Claimed(b) == SumOver(Packages, Holding("P", b))
Shipped(b) == SumOver(Packages, Holding("D", b))

\* Shelf and shipments add up to the initial stock of every batch.
Balanced == \A b \in Batches : usable_qty[b] + Shipped(b) = InitialUsable[b]

\* What pending packages hold is reserved.
Covering == \A b \in Batches : Claimed(b) <= reserved_qty[b]

\* No batch is promised to pending packages beyond what is on the shelf.
NoDoubleAllocation == \A b \in Batches : Claimed(b) <= usable_qty[b]

\* An operation on a package that has not left.
Orderly(k) == status[k] # "D" /\ Operate(k)

\* One that, besides, dispatches no more than was reserved, or reserves it first.
WithinReservation(k) ==
  /\ status[k] # "D"
  /\ \/ \E q \in Plans : \/ Reserve(k, q)
                         \/ Dispatch(k, q) /\ \A b \in Batches : q[b] <= item_qty[k][b]
                         \/ Replace(k, q)
     \/ Release(k)
     \/ Drop(k)

\* The ledger in the hands of users who keep to that.
OrderlySpec == Init /\ [][Solvent' /\ \E k \in Packages : Orderly(k)]_ledger
ReservedSpec == Init /\ [][Solvent' /\ \E k \in Packages : WithinReservation(k)]_ledger

-----------------------------------------------------------------------------
(* Types.                                                                  *)

\* An operation writes the row of its package and typed quantities.
LEMMA OperationTypes ==
  ASSUME LedgerConstants, LedgerTypes, NEW k \in Packages, Operate(k), Solvent'
  PROVE  /\ LedgerTypes'
         /\ \A j \in Packages \ {k} : status'[j] = status[j] /\ item_qty'[j] = item_qty[j]
<1>0. /\ NoQty \in Plans /\ item_qty[k] \in Plans
      /\ \A q \in Plans : q \in [Batches -> Nat]
  BY DEF LedgerConstants, LedgerTypes
<1>1. ASSUME NEW q \in Plans, Reserve(k, q)
      PROVE  /\ reserved_qty' \in [Batches -> Nat] /\ usable_qty' = usable_qty
             /\ item_qty' = [item_qty EXCEPT ![k] = q]
             /\ status' = [status EXCEPT ![k] = IF @ = "D" THEN "D" ELSE "P"]
  <2>1. \A b \in Batches : AtLeastZero(reserved_qty[b] + (q[b] - item_qty[k][b])) \in Nat
    BY <1>0, <1>1 DEF LedgerTypes, AtLeastZero
  <2> QED BY <1>1, <2>1 DEF Reserve
<1>2. ASSUME NEW q \in Plans, Dispatch(k, q)
      PROVE  /\ reserved_qty' \in [Batches -> Nat] /\ usable_qty' \in [Batches -> Nat]
             /\ item_qty' = [item_qty EXCEPT ![k] = q]
             /\ status' = [status EXCEPT ![k] = "D"]
  <2>1. \A b \in Batches : /\ AtLeastZero(reserved_qty[b] - q[b]) \in Nat
                           /\ usable_qty[b] - q[b] \in Nat
    BY <1>0, <1>2 DEF LedgerTypes, AtLeastZero, Dispatch
  <2> QED BY <1>2, <2>1 DEF Dispatch
<1>3. ASSUME NEW q \in Plans, Replace(k, q)
      PROVE  /\ reserved_qty' \in [Batches -> Nat] /\ usable_qty' \in [Batches -> Nat]
             /\ item_qty' = [item_qty EXCEPT ![k] = q]
             /\ status' = [status EXCEPT ![k] = "D"]
  <2>1. \A b \in Batches : /\ reserved_qty[b] - item_qty[k][b] \in Nat
                           /\ usable_qty[b] - q[b] \in Nat
    BY <1>0, <1>3 DEF LedgerTypes, Replace
  <2> QED BY <1>3, <2>1 DEF Replace
<1>4. ASSUME Release(k)
      PROVE  /\ reserved_qty' \in [Batches -> Nat] /\ usable_qty' = usable_qty
             /\ item_qty' = [item_qty EXCEPT ![k] = NoQty]
             /\ status' = [status EXCEPT ![k] = "none"]
  <2>1. \A b \in Batches : reserved_qty[b] - item_qty[k][b] \in Nat
    BY <1>0, <1>4 DEF LedgerTypes, Release
  <2> QED BY <1>4, <2>1 DEF Release
<1>5. ASSUME Drop(k)
      PROVE  /\ reserved_qty' = reserved_qty /\ usable_qty' = usable_qty
             /\ item_qty' = [item_qty EXCEPT ![k] = NoQty] /\ status' = status
  BY <1>5 DEF Drop
<1>6. /\ reserved_qty' \in [Batches -> Nat] /\ usable_qty' \in [Batches -> Nat]
      /\ \E q \in Plans : \E st \in {"none", "P", "D"} :
           /\ item_qty' = [item_qty EXCEPT ![k] = q] /\ status' = [status EXCEPT ![k] = st]
           /\ st = "none" => q = NoQty
  <2>1. CASE \E q \in Plans : Reserve(k, q) \/ Dispatch(k, q) \/ Replace(k, q)
    <3> PICK q \in Plans : Reserve(k, q) \/ Dispatch(k, q) \/ Replace(k, q)
      BY <2>1
    <3> QED BY <1>1, <1>2, <1>3 DEF LedgerTypes
  <2>2. CASE Release(k)
    BY <1>0, <1>4, <2>2 DEF LedgerTypes
  <2>3. CASE Drop(k)
    <3>1. status[k] \in {"none", "P", "D"} /\ status' = [status EXCEPT ![k] = status[k]]
      BY <1>5, <2>3 DEF LedgerTypes
    <3> QED BY <1>0, <1>5, <2>3, <3>1 DEF LedgerTypes
  <2> QED BY <2>1, <2>2, <2>3 DEF Operate
<1> QED BY <1>6 DEF LedgerTypes

LEMMA TypesAtStart == LedgerConstants /\ Init => LedgerTypes
BY DEF LedgerConstants, Init, LedgerTypes, Solvent, NoQty

LEMMA TypesStutter ==
  ASSUME LedgerTypes, UNCHANGED ledger
  PROVE  LedgerTypes'
BY DEF LedgerTypes, ledger, Solvent

-----------------------------------------------------------------------------
(* The books.                                                              *)

\* Only the operated package moves the units in packages of some status.
LEMMA HoldingMoves ==
  ASSUME LedgerConstants, LedgerTypes, LedgerTypes', NEW k \in Packages,
         \A j \in Packages \ {k} : status'[j] = status[j] /\ item_qty'[j] = item_qty[j],
         NEW st, NEW b \in Batches
  PROVE  LET before == Holding(st, b)
             after  == Holding(st, b)'
         IN  /\ before[k] \in Nat /\ after[k] \in Nat
             /\ SumOver(Packages, before) \in Nat /\ SumOver(Packages, after) \in Nat
             /\ before[k] <= SumOver(Packages, before)
             /\ SumOver(Packages, after) = SumOver(Packages, before) - before[k] + after[k]
<1> DEFINE before == Holding(st, b)
           after  == Holding(st, b)'
<1>1. \A j \in Packages : item_qty[j][b] \in Nat /\ item_qty'[j][b] \in Nat
  BY DEF LedgerConstants, LedgerTypes
<1>2. IsQty(Packages, before) /\ IsQty(Packages, after)
  BY <1>1 DEF IsQty, Holding
<1>3. \A j \in Packages \ {k} : before[j] = after[j]
  BY DEF Holding
<1>4. before[k] \in Nat /\ after[k] \in Nat
  BY <1>2 DEF IsQty
<1>5. IsFiniteSet(Packages)
  BY DEF LedgerConstants
<1> HIDE DEF before, after
<1>6. SumOver(Packages, before) \in Nat /\ SumOver(Packages, after) \in Nat
  BY <1>2, <1>5, SumType
<1>7. before[k] <= SumOver(Packages, before)
  BY <1>2, <1>5, SumMember
<1>8. SumOver(Packages, after) = SumOver(Packages, before) - before[k] + after[k]
  BY <1>2, <1>3, <1>5, SumUpdate
<1> QED BY <1>4, <1>6, <1>7, <1>8 DEF before, after

\* Nothing is in a package at the start.
LEMMA BooksAtStart ==
  ASSUME LedgerConstants, Init
  PROVE  Balanced /\ Covering
<1>1. \A st \in {"P", "D"}, b \in Batches : SumOver(Packages, Holding(st, b)) = 0
  <2> TAKE st \in {"P", "D"}, b \in Batches
  <2>1. \A k \in Packages : Holding(st, b)[k] = 0
    BY DEF Init, Holding
  <2> QED BY <2>1, SumZero
<1>2. \A b \in Batches : Claimed(b) = 0 /\ Shipped(b) = 0
  BY <1>1 DEF Claimed, Shipped
<1>3. \A b \in Batches : reserved_qty[b] = 0 /\ usable_qty[b] = InitialUsable[b]
                         /\ InitialUsable[b] \in Nat
  BY DEF Init, NoQty, LedgerConstants
<1> QED BY <1>2, <1>3 DEF Balanced, Covering

LEMMA BooksStutter ==
  ASSUME UNCHANGED ledger
  PROVE  (Balanced' <=> Balanced) /\ (Covering' <=> Covering)
BY DEF ledger, Balanced, Covering, Claimed, Shipped, Holding

\* What leaves the shelf is in the package that leaves.
LEMMA OrderlyStep ==
  ASSUME LedgerConstants, LedgerTypes, LedgerTypes', Balanced, NEW k \in Packages, Orderly(k),
         \A j \in Packages \ {k} : status'[j] = status[j] /\ item_qty'[j] = item_qty[j]
  PROVE  Balanced'
<1> SUFFICES ASSUME NEW b \in Batches
             PROVE  usable_qty'[b] + Shipped(b)' = InitialUsable[b]
  BY DEF Balanced
<1> DEFINE before == Holding("D", b)
           after  == Holding("D", b)'
<1>1. /\ before[k] \in Nat /\ after[k] \in Nat
      /\ SumOver(Packages, before) \in Nat /\ SumOver(Packages, after) \in Nat
      /\ SumOver(Packages, after) = SumOver(Packages, before) - before[k] + after[k]
  BY HoldingMoves
<1>2. Shipped(b) = SumOver(Packages, before) /\ Shipped(b)' = SumOver(Packages, after)
  BY DEF Shipped
<1>3. usable_qty[b] + Shipped(b) = InitialUsable[b]
  BY DEF Balanced
<1>4. /\ before[k] = 0
      /\ after[k] = IF status'[k] = "D" THEN item_qty'[k][b] ELSE 0
  BY DEF Holding, Orderly
<1> HIDE DEF before, after
<1>5. usable_qty[b] \in Nat /\ usable_qty'[b] \in Nat
  BY DEF LedgerTypes
<1>6. /\ status[k] \in {"none", "P"}
      /\ status \in [Packages -> {"none", "P", "D"}] /\ item_qty \in [Packages -> Plans]
  BY DEF LedgerTypes, Orderly
<1>7. ASSUME NEW q \in Plans, Dispatch(k, q) \/ Replace(k, q)
      PROVE  usable_qty'[b] = usable_qty[b] - after[k]
  BY <1>4, <1>6, <1>7 DEF Dispatch, Replace
<1>8. ASSUME NEW q \in Plans, Reserve(k, q)
      PROVE  usable_qty'[b] = usable_qty[b] /\ after[k] = 0
  BY <1>4, <1>6, <1>8 DEF Reserve
<1>9. ASSUME Release(k) \/ Drop(k)
      PROVE  usable_qty'[b] = usable_qty[b] /\ after[k] = 0
  BY <1>4, <1>6, <1>9 DEF Release, Drop
<1>10. usable_qty'[b] = usable_qty[b] - after[k]
  BY <1>1, <1>5, <1>7, <1>8, <1>9 DEF Orderly, Operate
<1> QED BY <1>1, <1>2, <1>3, <1>4, <1>5, <1>10

\* What pending packages hold beyond a package's own is reserved all along.
LEMMA ReservedStep ==
  ASSUME LedgerConstants, LedgerTypes, LedgerTypes', Covering,
         NEW k \in Packages, WithinReservation(k),
         \A j \in Packages \ {k} : status'[j] = status[j] /\ item_qty'[j] = item_qty[j]
  PROVE  Covering'
<1> SUFFICES ASSUME NEW b \in Batches
             PROVE  Claimed(b)' <= reserved_qty'[b]
  BY DEF Covering
<1> DEFINE before == Holding("P", b)
           after  == Holding("P", b)'
<1>1. /\ before[k] \in Nat /\ after[k] \in Nat
      /\ SumOver(Packages, before) \in Nat /\ SumOver(Packages, after) \in Nat
      /\ before[k] <= SumOver(Packages, before)
      /\ SumOver(Packages, after) = SumOver(Packages, before) - before[k] + after[k]
  BY HoldingMoves
<1>2. Claimed(b) = SumOver(Packages, before) /\ Claimed(b)' = SumOver(Packages, after)
  BY DEF Claimed
<1>3. Claimed(b) <= reserved_qty[b]
  BY DEF Covering
<1>4. /\ status[k] \in {"none", "P"}
      /\ status \in [Packages -> {"none", "P", "D"}] /\ item_qty \in [Packages -> Plans]
      /\ reserved_qty[b] \in Nat /\ reserved_qty'[b] \in Nat /\ item_qty[k][b] \in Nat
      /\ \A q \in Plans : q[b] \in Nat
  BY DEF LedgerConstants, LedgerTypes, WithinReservation
<1>5. /\ before[k] = item_qty[k][b]
      /\ after[k] = IF status'[k] = "P" THEN item_qty'[k][b] ELSE 0
  <2>1. before[k] = (IF status[k] = "P" THEN item_qty[k][b] ELSE 0)
        /\ after[k] = IF status'[k] = "P" THEN item_qty'[k][b] ELSE 0
    BY DEF Holding
  <2>2. status[k] = "none" => item_qty[k][b] = 0
    BY DEF LedgerTypes, NoQty
  <2> QED BY <1>4, <2>1, <2>2
<1> HIDE DEF before, after
<1>6. ASSUME NEW q \in Plans, Reserve(k, q)
      PROVE  reserved_qty'[b] - after[k] >= reserved_qty[b] - before[k]
  <2>1. after[k] = q[b] /\ reserved_qty'[b] = AtLeastZero(reserved_qty[b] + (q[b] - item_qty[k][b]))
    BY <1>4, <1>5, <1>6 DEF Reserve
  <2> QED BY <1>4, <1>5, <2>1 DEF AtLeastZero
<1>7. ASSUME NEW q \in Plans, Dispatch(k, q), q[b] <= item_qty[k][b]
      PROVE  reserved_qty'[b] - after[k] >= reserved_qty[b] - before[k]
  <2>1. after[k] = 0 /\ reserved_qty'[b] = AtLeastZero(reserved_qty[b] - q[b])
    BY <1>4, <1>5, <1>7 DEF Dispatch
  <2> QED BY <1>4, <1>5, <1>7, <2>1 DEF AtLeastZero
<1>8. ASSUME NEW q \in Plans, Replace(k, q)
      PROVE  reserved_qty'[b] - after[k] >= reserved_qty[b] - before[k]
  <2>1. after[k] = 0 /\ reserved_qty'[b] = reserved_qty[b] - item_qty[k][b]
    BY <1>4, <1>5, <1>8 DEF Replace
  <2> QED BY <1>4, <1>5, <2>1
<1>9. ASSUME Release(k)
      PROVE  reserved_qty'[b] - after[k] >= reserved_qty[b] - before[k]
  <2>1. after[k] = 0 /\ reserved_qty'[b] = reserved_qty[b] - item_qty[k][b]
    BY <1>4, <1>5, <1>9 DEF Release
  <2> QED BY <1>4, <1>5, <2>1
<1>10. ASSUME Drop(k)
       PROVE  reserved_qty'[b] - after[k] >= reserved_qty[b] - before[k]
  <2>1. after[k] = 0 /\ reserved_qty'[b] = reserved_qty[b]
    BY <1>4, <1>5, <1>10 DEF Drop, NoQty
  <2> QED BY <1>1, <1>4, <2>1
<1>11. reserved_qty'[b] - after[k] >= reserved_qty[b] - before[k]
  BY <1>6, <1>7, <1>8, <1>9, <1>10 DEF WithinReservation
<1> QED BY <1>1, <1>2, <1>3, <1>4, <1>11

-----------------------------------------------------------------------------
(* Theorems.                                                               *)

\* While packages that have left are not operated on, no unit is lost.
THEOREM LedgerBalances == LedgerConstants /\ OrderlySpec => []Balanced
<1> DEFINE Inv == LedgerConstants /\ LedgerTypes /\ Balanced
           Step == Solvent' /\ \E k \in Packages : Orderly(k)
<1>1. LedgerConstants /\ Init => Inv
  BY TypesAtStart, BooksAtStart
<1>2. ASSUME Inv, [Step]_ledger PROVE Inv'
  <2>1. CASE UNCHANGED ledger
    BY <1>2, <2>1, TypesStutter, BooksStutter DEF LedgerConstants, NoQty
  <2>2. ASSUME NEW k \in Packages, Orderly(k), Solvent' PROVE Inv'
    <3>1. LedgerTypes' /\ \A j \in Packages \ {k} : status'[j] = status[j] /\ item_qty'[j] = item_qty[j]
      BY <1>2, <2>2, OperationTypes DEF Orderly
    <3>2. Balanced'
      BY <1>2, <2>2, <3>1, OrderlyStep
    <3> QED BY <1>2, <3>1, <3>2 DEF LedgerConstants, NoQty
  <2> QED BY <1>2, <2>1, <2>2
<1>3. Inv => Balanced
  OBVIOUS
<1> QED BY <1>1, <1>2, <1>3, PTL DEF OrderlySpec

\* While, besides, no dispatch takes more than its package had reserved, no batch
\* is promised twice.
THEOREM LedgerNeverPromisesTwice == LedgerConstants /\ ReservedSpec => []NoDoubleAllocation
<1> DEFINE Inv == LedgerConstants /\ LedgerTypes /\ Covering
           Step == Solvent' /\ \E k \in Packages : WithinReservation(k)
<1>1. LedgerConstants /\ Init => Inv
  BY TypesAtStart, BooksAtStart
<1>2. ASSUME Inv, [Step]_ledger PROVE Inv'
  <2>1. CASE UNCHANGED ledger
    BY <1>2, <2>1, TypesStutter, BooksStutter DEF LedgerConstants, NoQty
  <2>2. ASSUME NEW k \in Packages, WithinReservation(k), Solvent' PROVE Inv'
    <3>1. Operate(k)
      BY <2>2 DEF WithinReservation, Operate
    <3>2. LedgerTypes' /\ \A j \in Packages \ {k} : status'[j] = status[j] /\ item_qty'[j] = item_qty[j]
      BY <1>2, <2>2, <3>1, OperationTypes
    <3>3. Covering'
      BY <1>2, <2>2, <3>2, ReservedStep
    <3> QED BY <1>2, <3>2, <3>3 DEF LedgerConstants, NoQty
  <2> QED BY <1>2, <2>1, <2>2
<1>3. ASSUME Inv PROVE NoDoubleAllocation
  <2> SUFFICES ASSUME NEW b \in Batches PROVE Claimed(b) <= usable_qty[b]
    BY DEF NoDoubleAllocation
  <2>1. Claimed(b) <= reserved_qty[b] /\ reserved_qty[b] <= usable_qty[b]
    BY <1>3 DEF Covering, LedgerTypes, Solvent
  <2>2. reserved_qty[b] \in Nat /\ usable_qty[b] \in Nat
    BY <1>3 DEF LedgerTypes
  <2>3. \A k \in Packages : item_qty[k][b] \in Nat
    BY <1>3 DEF LedgerConstants, LedgerTypes
  <2>4. IsFiniteSet(Packages) /\ IsQty(Packages, Holding("P", b))
    BY <1>3, <2>3 DEF IsQty, Holding, LedgerConstants
  <2>5. Claimed(b) \in Nat
    BY <2>4, SumType DEF Claimed
  <2> QED BY <2>1, <2>2, <2>5
<1> QED BY <1>1, <1>2, <1>3, PTL DEF ReservedSpec
=============================================================================
