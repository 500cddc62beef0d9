----------------------- MODULE StockTransactionsProofs -----------------------
(***************************************************************************)
(* Interleaved stock transactions implement the atomic ledger.             *)
(***************************************************************************)
EXTENDS StockTransactions, QuantityProofs, WellFoundedInduction

\* How far the transaction of k is: every batch it touches is written or to do.
Progress(k) ==
  /\ op[k] = "idle" => wrote[k] = {} /\ todo[k] = {}
  /\ op[k] # "idle" => wrote[k] \cup todo[k] = Touched(k, op[k], plan[k])
  /\ op[k] = "cancel" => plan[k] = NoQty /\ status[k] \in {"P", "D"}

TxnInv ==
  /\ TypeOK
  /\ LockedRowsCurrent
  /\ \A k \in Packages : Progress(k)

\* The plans and quantities of a package are natural numbers.
LEMMA PlanTypes ==
  ASSUME TypeOK, NEW k \in Packages, NEW b \in Batches
  PROVE  /\ plan[k][b] \in Nat /\ item_qty[k][b] \in Nat
         /\ usable_qty[b] \in Nat /\ reserved_qty[b] \in Nat
BY TransactionAssumptions DEF TypeOK

\* A validated update writes a row that satisfies the CHECK constraints.
LEMMA NewRowType ==
  ASSUME TypeOK, NEW k \in Packages, NEW b \in Batches, op[k] # "idle", MayUpdate(k, b)
  PROVE  /\ NewRow(k, b) \in Stock
         /\ NewRow(k, b).reserved_qty <= NewRow(k, b).usable_qty
<1>1. /\ plan[k][b] \in Nat /\ item_qty[k][b] \in Nat
      /\ usable_qty[b] \in Nat /\ reserved_qty[b] \in Nat
  BY PlanTypes
<1>2. op[k] \in Ops
  BY DEF TypeOK
<1> QED BY <1>1, <1>2 DEF MayUpdate, NewRow, Stock, Ops, AtLeastZero

\* What a transaction sees of a batch satisfies them as well.
LEMMA VisibleType ==
  ASSUME TxnInv, NEW k \in Packages, NEW b \in Batches
  PROVE  /\ Visible(k, b) \in Stock
         /\ Visible(k, b).reserved_qty <= Visible(k, b).usable_qty
<1>1. CASE b \in wrote[k]
  <2>1. op[k] # "idle" /\ MayUpdate(k, b) /\ row[k][b] = NewRow(k, b)
    BY <1>1 DEF TxnInv, LockedRowsCurrent, Progress
  <2>2. NewRow(k, b) \in Stock /\ NewRow(k, b).reserved_qty <= NewRow(k, b).usable_qty
    BY <2>1, NewRowType DEF TxnInv
  <2> QED BY <1>1, <2>1, <2>2 DEF Visible
<1>2. CASE b \notin wrote[k]
  BY <1>2 DEF Visible, TxnInv, TypeOK, Stock
<1> QED BY <1>1, <1>2

\* Sums over batches are natural numbers.
LEMMA SumTypes ==
  ASSUME NEW q \in [Batches -> Nat], NEW p \in Pairs
  PROVE  SumOver(BatchesAt(p), q) \in Nat
<1>1. IsFiniteSet(BatchesAt(p))
  BY TransactionAssumptions, FS_Subset DEF BatchesAt
<1>2. IsQty(BatchesAt(p), q)
  BY DEF BatchesAt, IsQty
<1> QED BY <1>1, <1>2, SumType

\* The columns of a row.
LEMMA StockColumns ==
  ASSUME NEW s \in Stock
  PROVE  s.usable_qty \in Nat /\ s.reserved_qty \in Nat
BY DEF Stock

-----------------------------------------------------------------------------
(* A step of k changes the transaction of no other package.                *)

Others(k) == \A j \in Packages \ {k} :
  /\ op'[j] = op[j] /\ plan'[j] = plan[j] /\ todo'[j] = todo[j]
  /\ wrote'[j] = wrote[j] /\ row'[j] = row[j]
  /\ status'[j] = status[j] /\ item_qty'[j] = item_qty[j]

\* Nothing another transaction wrote is disturbed by k, as long as k locks no
\* batch the other has and commits none of the other's.
LEMMA OthersKeep ==
  ASSUME TxnInv, NEW k \in Packages, Others(k),
         \A j \in Packages \ {k} : wrote'[k] \cap wrote[j] = {},
         \A j \in Packages \ {k} : \A b \in wrote[j] :
            usable_qty'[b] = usable_qty[b] /\ reserved_qty'[b] = reserved_qty[b],
         NEW j \in Packages \ {k}
  PROVE  /\ Progress(j)'
         /\ \A b \in wrote'[j] :
              BatchFree(j, b)' /\ MayUpdate(j, b)' /\ row'[j][b] = NewRow(j, b)'
<1>1. Progress(j)'
  BY DEF Progress, TxnInv, Others, Touched
<1>2. ASSUME NEW b \in wrote'[j]
      PROVE  BatchFree(j, b)' /\ MayUpdate(j, b)' /\ row'[j][b] = NewRow(j, b)'
  <2>1. /\ b \in wrote[j] /\ BatchFree(j, b) /\ MayUpdate(j, b) /\ row[j][b] = NewRow(j, b)
    BY <1>2 DEF Others, TxnInv, LockedRowsCurrent
  <2>2. BatchFree(j, b)'
    <3>1. ASSUME NEW i \in Packages \ {j} PROVE b \notin wrote'[i]
      BY <2>1, <3>1 DEF BatchFree, Others
    <3> QED BY <3>1 DEF BatchFree
  <2>3. NewRow(j, b)' = NewRow(j, b) /\ (MayUpdate(j, b)' <=> MayUpdate(j, b))
    BY <2>1 DEF NewRow, MayUpdate, Others
  <2> QED BY <2>1, <2>2, <2>3 DEF Others
<1> QED BY <1>1, <1>2

\* The invariant after a step of k, from its parts.
LEMMA Assemble ==
  ASSUME TypeOK', NEW k \in Packages, Progress(k)',
         \A b \in wrote'[k] : BatchFree(k, b)' /\ MayUpdate(k, b)' /\ row'[k][b] = NewRow(k, b)',
         \A j \in Packages \ {k} :
           /\ Progress(j)'
           /\ \A b \in wrote'[j] :
                BatchFree(j, b)' /\ MayUpdate(j, b)' /\ row'[j][b] = NewRow(j, b)'
  PROVE  TxnInv'
<1>1. \A j \in Packages : Progress(j)'
  OBVIOUS
<1>2. \A j \in Packages : \A b \in wrote'[j] :
        BatchFree(j, b)' /\ MayUpdate(j, b)' /\ row'[j][b] = NewRow(j, b)'
  OBVIOUS
<1> QED BY <1>1, <1>2 DEF TxnInv, LockedRowsCurrent

-----------------------------------------------------------------------------
(* One lemma per step.                                                     *)

\* A transaction starts with nothing written.
LEMMA StartStep ==
  ASSUME TxnInv, NEW k \in Packages, op[k] = "idle", NEW o \in Ops, NEW q \in Plans,
         o = "cancel" => q = NoQty /\ status[k] \in {"P", "D"}, Start(k, o, q)
  PROVE  TxnInv'
<1>1. TypeOK'
  BY TransactionAssumptions DEF Start, TxnInv, TypeOK, committed, Touched, Affected, PairsOf, Ops
<1>2. /\ op'[k] = o /\ plan'[k] = q /\ todo'[k] = Touched(k, o, q) /\ wrote'[k] = {}
      /\ item_qty' = item_qty /\ status' = status
  BY DEF Start, TxnInv, TypeOK, committed, Progress
<1>3. Progress(k)'
  BY <1>2 DEF Progress, Touched, Ops
<1>4. Others(k)
  BY DEF Others, Start, TxnInv, TypeOK, committed
<1>5. \A j \in Packages \ {k} : wrote'[k] \cap wrote[j] = {}
  BY <1>2
<1>6. \A j \in Packages \ {k} :
        /\ Progress(j)'
        /\ \A b \in wrote'[j] :
             BatchFree(j, b)' /\ MayUpdate(j, b)' /\ row'[j][b] = NewRow(j, b)'
  BY <1>4, <1>5, OthersKeep DEF Start, committed
<1> QED BY <1>1, <1>2, <1>3, <1>6, Assemble

\* Steps that leave the batches of every transaction alone.
LEMMA Untouched ==
  ASSUME TxnInv, TypeOK',
         UNCHANGED <<status, item_qty, usable_qty, reserved_qty, op, plan, todo, wrote, row>>
  PROVE  TxnInv'
<1>1. ASSUME NEW k \in Packages, NEW b
      PROVE  /\ NewRow(k, b)' = NewRow(k, b)
             /\ MayUpdate(k, b)' <=> MayUpdate(k, b)
             /\ BatchFree(k, b)' <=> BatchFree(k, b)
  BY DEF NewRow, MayUpdate, BatchFree
<1>2. LockedRowsCurrent'
  BY <1>1 DEF TxnInv, LockedRowsCurrent
<1>3. ASSUME NEW k \in Packages PROVE Progress(k)'
  BY DEF TxnInv, Progress, Touched
<1> QED BY <1>2, <1>3 DEF TxnInv

\* Asking for a lock changes nothing else.
LEMMA AskStep ==
  ASSUME TxnInv, NEW k \in Packages, NEW b \in Batches, AskBatch(k, b)
  PROVE  TxnInv'
<1>1. TypeOK'
  BY DEF AskBatch, TxnInv, TypeOK, committed
<1>2. UNCHANGED <<status, item_qty, usable_qty, reserved_qty, op, plan, todo, wrote, row>>
  BY DEF AskBatch, committed
<1> QED BY <1>1, <1>2, Untouched

\* A batch is updated under its lock.
LEMMA UpdateStep ==
  ASSUME TxnInv, NEW k \in Packages, NEW b \in Batches, UpdateBatch(k, b)
  PROVE  TxnInv'
<1>0. TypeOK /\ Progress(k)
  BY DEF TxnInv
<1>1. op[k] # "idle"
  <2>1. ASSUME op[k] = "idle" PROVE FALSE
    BY <2>1, <1>0 DEF UpdateBatch, Progress
  <2> QED BY <2>1
<1>2. NewRow(k, b) \in Stock
  BY <1>0, <1>1, NewRowType DEF UpdateBatch
<1>3. TypeOK'
  BY <1>0, <1>2 DEF UpdateBatch, TypeOK, committed
<1>4. /\ op' = op /\ plan' = plan /\ item_qty' = item_qty /\ status' = status
      /\ usable_qty' = usable_qty /\ reserved_qty' = reserved_qty
      /\ wrote'[k] = wrote[k] \cup {b} /\ todo'[k] = todo[k] \ {b} /\ b \in todo[k]
      /\ row'[k] = [row[k] EXCEPT ![b] = NewRow(k, b)]
  BY <1>0 DEF UpdateBatch, TypeOK, committed
<1>5. Others(k)
  BY <1>0 DEF Others, UpdateBatch, TypeOK, committed
<1>6. Progress(k)'
  <2>1. Touched(k, op[k], plan[k])' = Touched(k, op[k], plan[k])
    BY <1>4 DEF Touched
  <2>2. wrote'[k] \cup todo'[k] = wrote[k] \cup todo[k]
    BY <1>4
  <2> QED BY <1>0, <1>1, <1>4, <2>1, <2>2 DEF Progress
<1>7. ASSUME NEW c \in wrote'[k]
      PROVE  BatchFree(k, c)' /\ MayUpdate(k, c)' /\ row'[k][c] = NewRow(k, c)'
  <2>1. NewRow(k, c)' = NewRow(k, c) /\ (MayUpdate(k, c)' <=> MayUpdate(k, c))
    BY <1>4 DEF NewRow, MayUpdate
  <2>2. BatchFree(k, c)' <=> BatchFree(k, c)
    BY <1>5 DEF BatchFree, Others
  <2>3. row[k] \in [Batches -> Stock]
    BY <1>0 DEF TypeOK
  <2>4. CASE c = b
    BY <1>4, <2>1, <2>2, <2>3, <2>4 DEF UpdateBatch
  <2>5. CASE c # b
    <3>1. c \in wrote[k] /\ c \in Batches
      BY <1>0, <1>4, <1>7, <2>5 DEF TypeOK
    <3>2. BatchFree(k, c) /\ MayUpdate(k, c) /\ row[k][c] = NewRow(k, c)
      BY <3>1 DEF TxnInv, LockedRowsCurrent
    <3> QED BY <1>4, <2>1, <2>2, <2>3, <2>5, <3>1, <3>2
  <2> QED BY <2>4, <2>5
<1>8. \A j \in Packages \ {k} : wrote'[k] \cap wrote[j] = {}
  <2>1. ASSUME NEW j \in Packages \ {k}, NEW c \in wrote'[k] PROVE c \notin wrote[j]
    <3>1. BatchFree(k, c)
      BY <1>7, <1>5, <2>1 DEF BatchFree, Others
    <3> QED BY <3>1 DEF BatchFree
  <2> QED BY <2>1
<1>9. \A j \in Packages \ {k} :
        /\ Progress(j)'
        /\ \A c \in wrote'[j] :
             BatchFree(j, c)' /\ MayUpdate(j, c)' /\ row'[j][c] = NewRow(j, c)'
  BY <1>4, <1>5, <1>8, OthersKeep
<1> QED BY <1>3, <1>6, <1>7, <1>9, Assemble

\* The totals play no part in what is written to the batches.
LEMMA SumStep ==
  ASSUME TxnInv, NEW k \in Packages, NEW p \in Pairs, SumBatches(k, p)
  PROVE  TxnInv'
<1> DEFINE u == [b \in Batches |-> Visible(k, b).usable_qty]
           r == [b \in Batches |-> Visible(k, b).reserved_qty]
<1>1. u \in [Batches -> Nat] /\ r \in [Batches -> Nat]
  BY VisibleType, StockColumns
<1>2. SumOver(BatchesAt(p), u) \in Nat /\ SumOver(BatchesAt(p), r) \in Nat
  BY <1>1, SumTypes
<1>3. total' = [total EXCEPT ![k][p] = [usable_qty   |-> SumOver(BatchesAt(p), u),
                                        reserved_qty |-> SumOver(BatchesAt(p), r)]]
  BY DEF SumBatches
<1> HIDE DEF u, r
<1>4. total' \in [Packages -> [Pairs -> Stock]]
  BY <1>2, <1>3 DEF TxnInv, TypeOK, Stock
<1>5. TypeOK'
  BY <1>4 DEF SumBatches, TxnInv, TypeOK, committed
<1>6. UNCHANGED <<status, item_qty, usable_qty, reserved_qty, op, plan, todo, wrote, row>>
  BY DEF SumBatches, committed
<1> QED BY <1>5, <1>6, Untouched

LEMMA WriteTotalStep ==
  ASSUME TxnInv, NEW k \in Packages, NEW p \in Pairs, WriteTotal(k, p)
  PROVE  TxnInv'
<1>1. NewTotal(k, p) \in Stock
  <2>1. /\ total[k][p].usable_qty \in Nat /\ total[k][p].reserved_qty \in Nat
        /\ inventory[p].usable_qty \in Nat
    BY DEF TxnInv, TypeOK, Stock
  <2>2. /\ Rounded(total[k][p].usable_qty, Scale) \in Nat
        /\ Rounded(total[k][p].reserved_qty, Scale) \in Nat
    BY <2>1, RoundedType, TransactionAssumptions
  <2> QED BY <2>1, <2>2 DEF NewTotal, Stock
<1>2. TypeOK'
  BY <1>1 DEF WriteTotal, TxnInv, TypeOK, committed
<1>3. UNCHANGED <<status, item_qty, usable_qty, reserved_qty, op, plan, todo, wrote, row>>
  BY DEF WriteTotal, committed
<1> QED BY <1>2, <1>3, Untouched

\* An ended transaction holds nothing.
LEMMA Ended ==
  ASSUME TxnInv, NEW k \in Packages, End(k)
  PROVE  /\ op'[k] = "idle" /\ wrote'[k] = {} /\ todo'[k] = {}
         /\ Progress(k)'
         /\ \A j \in Packages \ {k} :
              /\ op'[j] = op[j] /\ plan'[j] = plan[j] /\ todo'[j] = todo[j]
              /\ wrote'[j] = wrote[j] /\ row'[j] = row[j]
<1>1. TypeOK
  BY DEF TxnInv
<1>2. op'[k] = "idle" /\ wrote'[k] = {} /\ todo'[k] = {}
  BY <1>1 DEF End, TypeOK
<1> QED BY <1>1, <1>2 DEF End, TypeOK, Progress

\* Types of an ended transaction.
LEMMA EndTypes ==
  ASSUME TypeOK, NEW k \in Packages, End(k)
  PROVE  /\ op' \in [Packages -> Ops \cup {"idle"}] /\ plan' \in [Packages -> Plans]
         /\ todo' \in [Packages -> SUBSET Batches] /\ wrote' \in [Packages -> SUBSET Batches]
         /\ row' \in [Packages -> [Batches -> Stock]]
         /\ recalc' \in [Packages -> SUBSET Pairs] /\ wrote_total' \in [Packages -> SUBSET Pairs]
         /\ total' \in [Packages -> [Pairs -> Stock]]
         /\ want' \in [Packages -> Batches \cup Pairs \cup {NoRow}]
<1>1. NoStock \in Stock /\ NoQty \in Plans
  BY TransactionAssumptions DEF NoStock, Stock
<1> QED BY <1>1 DEF End, TypeOK

LEMMA RollbackStep ==
  ASSUME TxnInv, NEW k \in Packages, Rollback(k)
  PROVE  TxnInv'
<1>1. TypeOK'
  BY EndTypes DEF TxnInv, TypeOK, Rollback, committed
<1>2. Others(k)
  BY Ended DEF Rollback, committed, Others
<1>3. wrote'[k] = {} /\ Progress(k)'
  BY Ended DEF Rollback
<1>4. \A j \in Packages \ {k} :
        /\ Progress(j)'
        /\ \A b \in wrote'[j] :
             BatchFree(j, b)' /\ MayUpdate(j, b)' /\ row'[j][b] = NewRow(j, b)'
  BY <1>2, <1>3, OthersKeep DEF Rollback, committed
<1> QED BY <1>1, <1>3, <1>4, Assemble

\* A commit publishes the batches of one transaction, which no other has.
LEMMA CommitStep ==
  ASSUME TxnInv, NEW k \in Packages, Commit(k)
  PROVE  TxnInv'
<1>0. TypeOK
  BY DEF TxnInv
<1>1. /\ usable_qty' \in [Batches -> Nat] /\ reserved_qty' \in [Batches -> Nat]
      /\ \A b \in Batches : reserved_qty'[b] <= usable_qty'[b]
  BY VisibleType, StockColumns DEF Commit
<1>2. /\ item_qty' \in [Packages -> Plans] /\ inventory' \in [Pairs -> Stock]
      /\ status' \in [Packages -> {"none", "P", "D"}]
  BY <1>0 DEF Commit, TypeOK
<1>3. TypeOK'
  BY <1>0, <1>1, <1>2, EndTypes DEF TypeOK, Commit
<1>4. Others(k)
  BY <1>0, Ended DEF Commit, Others, TypeOK
<1>5. wrote'[k] = {} /\ Progress(k)'
  BY Ended DEF Commit
<1>6. ASSUME NEW j \in Packages \ {k}, NEW b \in wrote[j]
      PROVE  usable_qty'[b] = usable_qty[b] /\ reserved_qty'[b] = reserved_qty[b]
  <2>1. b \in Batches /\ BatchFree(j, b)
    BY <1>0 DEF TxnInv, LockedRowsCurrent, TypeOK
  <2>2. b \notin wrote[k]
    BY <2>1 DEF BatchFree
  <2> QED BY <2>1, <2>2 DEF Commit, Visible
<1>7. \A j \in Packages \ {k} :
        /\ Progress(j)'
        /\ \A b \in wrote'[j] :
             BatchFree(j, b)' /\ MayUpdate(j, b)' /\ row'[j][b] = NewRow(j, b)'
  BY <1>4, <1>5, <1>6, OthersKeep
<1> QED BY <1>3, <1>5, <1>7, Assemble

LEMMA TxnInit == Init => TxnInv
<1> SUFFICES ASSUME Init PROVE TxnInv
  OBVIOUS
<1>1. NoStock \in Stock /\ NoQty \in Plans /\ NoQty \in [Batches -> Nat]
  BY TransactionAssumptions DEF NoStock, Stock, NoQty
<1>2. ASSUME NEW p \in Pairs PROVE Rounded(SumOver(BatchesAt(p), InitialUsable), Scale) \in Nat
  BY SumTypes, RoundedType, TransactionAssumptions
<1>3. inventory \in [Pairs -> Stock]
  BY <1>2 DEF Init, Stock
<1>4. \A b \in Batches : reserved_qty[b] <= usable_qty[b]
  BY TransactionAssumptions DEF Init, NoQty
<1>5. TypeOK
  BY <1>1, <1>3, <1>4, TransactionAssumptions DEF Init, TypeOK
<1>6. LockedRowsCurrent /\ \A k \in Packages : Progress(k)
  BY DEF Init, LockedRowsCurrent, Progress
<1> QED BY <1>5, <1>6 DEF TxnInv

LEMMA TxnStep ==
  ASSUME TxnInv, [Next]_vars
  PROVE  TxnInv'
<1>1. CASE UNCHANGED vars
  <2>1. TypeOK'
    BY <1>1 DEF TxnInv, TypeOK, vars, txn, committed
  <2> QED BY <1>1, <2>1, Untouched DEF vars, txn, committed
<1>2. ASSUME NEW k \in Packages, Begin(k) PROVE TxnInv'
  <2>1. NoQty \in Plans
    BY TransactionAssumptions
  <2> QED BY <1>2, <2>1, StartStep DEF Begin, Ops
<1>3. ASSUME NEW k \in Packages, Advance(k) PROVE TxnInv'
  BY <1>3, AskStep, UpdateStep, SumStep, WriteTotalStep, CommitStep DEF Advance
<1>4. ASSUME NEW k \in Packages, Rollback(k) PROVE TxnInv'
  BY <1>4, RollbackStep
<1> QED BY <1>1, <1>2, <1>3, <1>4 DEF Next

LEMMA TxnInvariant == Spec => []TxnInv
<1>1. Init => TxnInv
  BY TxnInit
<1>2. TxnInv /\ [Next]_vars => TxnInv'
  BY TxnStep
<1> QED BY <1>1, <1>2, PTL DEF Spec

\* Quantities and totals stay natural numbers and every committed batch keeps
\* reserved_qty <= usable_qty, however the transactions interleave.
THEOREM TransactionTypes == Spec => []TypeOK
<1>1. TxnInv => TypeOK
  BY DEF TxnInv
<1> QED BY <1>1, TxnInvariant, PTL

\* What was read and validated under a batch's lock is still true until the end
\* of the transaction.
THEOREM LocksProtectRows == Spec => []LockedRowsCurrent
<1>1. TxnInv => LockedRowsCurrent
  BY DEF TxnInv
<1> QED BY <1>1, TxnInvariant, PTL

-----------------------------------------------------------------------------
(* Refinement.                                                             *)

LEMMA LedgerInit == Init => Ledger!Init
BY DEF Init, Ledger!Init, NoQty, Ledger!NoQty

\* Only a commit is visible in the ledger, and it is the ledger's operation.
LEMMA CommitIsLedgerStep ==
  ASSUME TxnInv, NEW k \in Packages, Commit(k)
  PROVE  /\ \/ op[k] = "reserve" /\ Ledger!Reserve(k, plan[k])
            \/ op[k] = "commit"  /\ Ledger!Dispatch(k, plan[k])
            \/ op[k] = "cancel"  /\ Ledger!Release(k)
         /\ plan[k] \in Plans /\ Ledger!Solvent'
<1>0. TypeOK /\ op[k] \in Ops /\ plan[k] \in Plans
  BY DEF TxnInv, TypeOK, Commit
<1>1. wrote[k] = Touched(k, op[k], plan[k])
  BY DEF TxnInv, Progress, Commit
<1>2. ASSUME NEW b \in Batches
      PROVE  /\ plan[k][b] \in Nat /\ item_qty[k][b] \in Nat
             /\ usable_qty[b] \in Nat /\ reserved_qty[b] \in Nat
  BY <1>0, PlanTypes
<1>3. ASSUME NEW b \in wrote[k] PROVE MayUpdate(k, b) /\ Visible(k, b) = NewRow(k, b)
  BY <1>3 DEF TxnInv, LockedRowsCurrent, Visible
<1>4. Ledger!Solvent'
  <2>1. TypeOK'
    BY CommitStep DEF TxnInv
  <2> QED BY <2>1 DEF TypeOK, Ledger!Solvent
<1>5. /\ item_qty' = [item_qty EXCEPT ![k] = plan[k]]
      /\ usable_qty' = [b \in Batches |-> Visible(k, b).usable_qty]
      /\ reserved_qty' = [b \in Batches |-> Visible(k, b).reserved_qty]
      /\ usable_qty = [b \in Batches |-> usable_qty[b]]
  BY <1>0 DEF Commit, TypeOK
<1>6. CASE op[k] = "reserve"
  <2>1. ASSUME NEW b \in Batches
        PROVE  /\ Visible(k, b).usable_qty = usable_qty[b]
               /\ Visible(k, b).reserved_qty
                    = AtLeastZero(reserved_qty[b] + (plan[k][b] - item_qty[k][b]))
               /\ plan[k][b] # item_qty[k][b] =>
                    reserved_qty[b] + (plan[k][b] - item_qty[k][b]) <= usable_qty[b]
    <3>1. CASE b \in wrote[k]
      BY <1>2, <1>3, <1>6, <3>1 DEF NewRow, MayUpdate
    <3>2. CASE b \notin wrote[k]
      BY <1>1, <1>2, <1>6, <3>2 DEF Touched, Visible, AtLeastZero
    <3> QED BY <3>1, <3>2
  <2>2. Ledger!Reserve(k, plan[k])
    BY <1>5, <1>6, <2>1 DEF Commit, Ledger!Reserve, AtLeastZero, Ledger!AtLeastZero
  <2> QED BY <1>0, <1>4, <1>6, <2>2
<1>7. CASE op[k] = "commit"
  <2>1. ASSUME NEW b \in Batches
        PROVE  /\ Visible(k, b).usable_qty = usable_qty[b] - plan[k][b]
               /\ Visible(k, b).reserved_qty = AtLeastZero(reserved_qty[b] - plan[k][b])
               /\ plan[k][b] <= usable_qty[b]
    <3>1. CASE b \in wrote[k]
      BY <1>2, <1>3, <1>7, <3>1 DEF NewRow, MayUpdate
    <3>2. CASE b \notin wrote[k]
      BY <1>1, <1>2, <1>7, <3>2 DEF Touched, Visible, AtLeastZero
    <3> QED BY <3>1, <3>2
  <2>2. Ledger!Dispatch(k, plan[k])
    BY <1>5, <1>7, <2>1 DEF Commit, Ledger!Dispatch, AtLeastZero, Ledger!AtLeastZero
  <2> QED BY <1>0, <1>4, <1>7, <2>2
<1>8. CASE op[k] = "cancel"
  <2>1. ASSUME NEW b \in Batches
        PROVE  /\ Visible(k, b).usable_qty = usable_qty[b]
               /\ Visible(k, b).reserved_qty = reserved_qty[b] - item_qty[k][b]
               /\ item_qty[k][b] <= reserved_qty[b]
    <3>1. CASE b \in wrote[k]
      BY <1>2, <1>3, <1>8, <3>1 DEF NewRow, MayUpdate
    <3>2. CASE b \notin wrote[k]
      BY <1>1, <1>2, <1>8, <3>2 DEF Touched, Visible
    <3> QED BY <3>1, <3>2
  <2>2. plan[k] = NoQty /\ status[k] \in {"P", "D"}
    BY <1>8 DEF TxnInv, Progress
  <2>3. Ledger!Release(k)
    BY <1>5, <1>8, <2>1, <2>2 DEF Commit, Ledger!Release, NoQty, Ledger!NoQty
  <2> QED BY <1>0, <1>4, <1>8, <2>3
<1> QED BY <1>0, <1>6, <1>7, <1>8 DEF Ops

LEMMA LedgerStep ==
  ASSUME TxnInv, [Next]_vars
  PROVE  [Ledger!Next]_(Ledger!ledger)
<1>1. CASE UNCHANGED vars
  BY <1>1 DEF vars, committed, Ledger!ledger
<1>2. ASSUME NEW k \in Packages, Begin(k) \/ Rollback(k) PROVE UNCHANGED Ledger!ledger
  BY <1>2 DEF Begin, Start, Rollback, committed, Ledger!ledger
<1>3. ASSUME NEW k \in Packages, Advance(k)
      PROVE  Ledger!Next \/ UNCHANGED Ledger!ledger
  BY <1>3, CommitIsLedgerStep
     DEF Ledger!Next, Ledger!Operate, Advance, AskBatch, UpdateBatch, SumBatches, WriteTotal, committed, Ledger!ledger
<1> QED BY <1>1, <1>2, <1>3 DEF Next

\* However the statements of reserve_inventory, commit_inventory and
\* cancel_relief_package interleave, and whichever transactions are rolled
\* back, batches and packages go through states of the atomic ledger.
THEOREM TransactionsImplementLedger == Spec => ImplementsLedger
<1>1. Init => Ledger!Init
  BY LedgerInit
<1>2. TxnInv /\ [Next]_vars => [Ledger!Next]_(Ledger!ledger)
  BY LedgerStep
<1> QED BY <1>1, <1>2, TxnInvariant, PTL DEF Spec, ImplementsLedger, Ledger!Spec

-----------------------------------------------------------------------------
(* What interleaved transactions inherit from the ledger.                  *)

Books == INSTANCE StockLedgerProofs

\* No transaction on a package that has been dispatched commits.
OnPending == [][\A k \in Packages : Commit(k) => status[k] # "D"]_vars

\* commit_inventory is called with what reserve_inventory reserved, or less.
CommittedAsReserved ==
  [][\A k \in Packages : Commit(k) /\ op[k] = "commit" =>
       \A b \in Batches : plan[k][b] <= item_qty[k][b]]_vars

\* The ledger of the books is the one that is implemented.
LEMMA SameLedger ==
  /\ Books!LedgerConstants
  /\ Ledger!Init => Books!Init
  /\ Ledger!Solvent' => Books!Solvent'
  /\ \A k \in Packages : Ledger!Release(k) <=> Books!Release(k)
  /\ \A k \in Packages : \A q \in Plans :
       /\ Ledger!Reserve(k, q) <=> Books!Reserve(k, q)
       /\ Ledger!Dispatch(k, q) <=> Books!Dispatch(k, q)
<1>1. Books!LedgerConstants
  <2>1. Books!IsFiniteSet(Packages)
    BY TransactionAssumptions DEF IsFiniteSet, Books!IsFiniteSet
  <2> QED BY <2>1, TransactionAssumptions DEF Books!LedgerConstants, Books!NoQty, NoQty
<1>2. Ledger!Init => Books!Init
  BY DEF Ledger!Init, Books!Init, Ledger!NoQty, Books!NoQty
<1>3. Ledger!Solvent' => Books!Solvent'
  BY DEF Ledger!Solvent, Books!Solvent
<1>4. \A k \in Packages : Ledger!Release(k) <=> Books!Release(k)
  BY DEF Ledger!Release, Books!Release, Ledger!NoQty, Books!NoQty
<1>5. \A n : Ledger!AtLeastZero(n) = Books!AtLeastZero(n)
  BY DEF Ledger!AtLeastZero, Books!AtLeastZero
<1>6. ASSUME NEW k \in Packages, NEW q \in Plans
      PROVE  Ledger!Reserve(k, q) <=> Books!Reserve(k, q)
  BY <1>5 DEF Ledger!Reserve, Books!Reserve
<1>7. ASSUME NEW k \in Packages, NEW q \in Plans
      PROVE  Ledger!Dispatch(k, q) <=> Books!Dispatch(k, q)
  BY <1>5 DEF Ledger!Dispatch, Books!Dispatch
<1> QED BY <1>1, <1>2, <1>3, <1>4, <1>6, <1>7

\* A step that commits nothing is not visible in the ledger.
LEMMA OnlyCommitsShow ==
  ASSUME [Next]_vars
  PROVE  (\E k \in Packages : Commit(k)) \/ UNCHANGED Books!ledger
<1>1. CASE UNCHANGED vars
  BY <1>1 DEF vars, committed, Books!ledger
<1>2. ASSUME NEW k \in Packages, Begin(k) \/ Rollback(k) PROVE UNCHANGED Books!ledger
  BY <1>2 DEF Begin, Start, Rollback, committed, Books!ledger
<1>3. ASSUME NEW k \in Packages, Advance(k), ~Commit(k) PROVE UNCHANGED Books!ledger
  BY <1>3 DEF Advance, AskBatch, UpdateBatch, SumBatches, WriteTotal, committed, Books!ledger
<1> QED BY <1>1, <1>2, <1>3 DEF Next

\* However statements interleave and transactions fail, shelf and shipments add up
\* to the initial stock, as long as no dispatched package is worked on.
THEOREM InterleavedStockBalances == Spec /\ OnPending => []Books!Balanced
<1>1. Init => Books!Init
  BY LedgerInit, SameLedger
<1>2. ASSUME TxnInv, [Next]_vars, [\A k \in Packages : Commit(k) => status[k] # "D"]_vars
      PROVE  [Books!Solvent' /\ \E k \in Packages : Books!Orderly(k)]_(Books!ledger)
  <2>1. ASSUME NEW k \in Packages, Commit(k), ~UNCHANGED vars
        PROVE  Books!Solvent' /\ Books!Orderly(k)
    BY <1>2, <2>1, CommitIsLedgerStep, SameLedger DEF Books!Orderly, Books!Operate
  <2>2. UNCHANGED vars => UNCHANGED Books!ledger
    BY DEF vars, committed, Books!ledger
  <2> QED BY <1>2, <2>1, <2>2, OnlyCommitsShow
<1>3. Spec /\ OnPending => Books!OrderlySpec
  BY <1>1, <1>2, TxnInvariant, PTL DEF Spec, OnPending, Books!OrderlySpec
<1>4. Books!LedgerConstants
  BY SameLedger
<1> QED BY <1>3, <1>4, Books!LedgerBalances, PTL

\* inventory_reservation_service prevents double allocation under any interleaving
\* and any failures, as long as, besides, commit_inventory is called with no more
\* than the package had reserved: the row locks suffice, the callers do not.
THEOREM InterleavedNoDoubleAllocation ==
  Spec /\ OnPending /\ CommittedAsReserved => []Books!NoDoubleAllocation
<1>1. Init => Books!Init
  BY LedgerInit, SameLedger
<1>2. ASSUME TxnInv, [Next]_vars, [\A k \in Packages : Commit(k) => status[k] # "D"]_vars,
             [\A k \in Packages : Commit(k) /\ op[k] = "commit" =>
                \A b \in Batches : plan[k][b] <= item_qty[k][b]]_vars
      PROVE  [Books!Solvent' /\ \E k \in Packages : Books!WithinReservation(k)]_(Books!ledger)
  <2>1. ASSUME NEW k \in Packages, Commit(k), ~UNCHANGED vars
        PROVE  Books!Solvent' /\ Books!WithinReservation(k)
    BY <1>2, <2>1, CommitIsLedgerStep, SameLedger DEF Books!WithinReservation
  <2>2. UNCHANGED vars => UNCHANGED Books!ledger
    BY DEF vars, committed, Books!ledger
  <2> QED BY <1>2, <2>1, <2>2, OnlyCommitsShow
<1>3. Spec /\ OnPending /\ CommittedAsReserved => Books!ReservedSpec
  BY <1>1, <1>2, TxnInvariant, PTL DEF Spec, OnPending, CommittedAsReserved, Books!ReservedSpec
<1>4. Books!LedgerConstants
  BY SameLedger
<1> QED BY <1>3, <1>4, Books!LedgerNeverPromisesTwice, PTL

-----------------------------------------------------------------------------
(* The totals.                                                             *)

\* The inventory rows that k has summed and not yet published.
Summed(k) == wrote_total[k] \cup ({want[k]} \cap recalc[k])

\* No transaction publishes new batches of an inventory row between the moment
\* another one sums them and the moment that one ends. The code would see to it by
\* locking the inventory row before the sum; it locks it after.
NotOvertaken ==
  [][\A k \in Packages : Commit(k) =>
       \A j \in Packages \ {k} : wrote_total[k] \cap Summed(j) = {}]_vars

\* What k sees of the batches, and the sums of what is seen.
SeenUsable(k)   == [b \in Batches |-> Visible(k, b).usable_qty]
SeenReserved(k) == [b \in Batches |-> Visible(k, b).reserved_qty]
Sums(p, u, r) ==
  [usable_qty |-> SumOver(BatchesAt(p), u), reserved_qty |-> SumOver(BatchesAt(p), r)]

\* The sums as an inventory row stores them.
RoundedSums(p, u, r) ==
  [usable_qty   |-> Rounded(SumOver(BatchesAt(p), u), Scale),
   reserved_qty |-> Rounded(SumOver(BatchesAt(p), r), Scale)]

\* What k has summed, or written, for p.
SeenTotal(k, p) ==
  IF p \in wrote_total[k] THEN RoundedSums(p, SeenUsable(k), SeenReserved(k))
                          ELSE Sums(p, SeenUsable(k), SeenReserved(k))

\* The inventory rows of k: all it affects are summed after its batches are
\* written, each is written once, and what it has summed is what it sees.
Recalculates(k) ==
  /\ op[k] = "idle" => recalc[k] = {} /\ wrote_total[k] = {} /\ want[k] = NoRow
  /\ op[k] # "idle" => recalc[k] \cup wrote_total[k] = Affected(k, op[k], plan[k])
  /\ Summed(k) # {} => todo[k] = {}
  /\ recalc[k] \cap wrote_total[k] = {}
  /\ \A p \in Summed(k) : total[k][p] = SeenTotal(k, p)

\* The inductive invariant of the totals.
TotalsInv ==
  /\ \A p \in Pairs : inventory[p] = RoundedSums(p, usable_qty, reserved_qty)
  /\ \A k \in Packages : Recalculates(k)

\* A batch is written only where the total is recalculated.
LEMMA WrittenIsAffected ==
  ASSUME TxnInv, NEW k \in Packages, Recalculates(k), NEW b \in wrote[k]
  PROVE  PairOf[b] \in recalc[k] \cup wrote_total[k]
<1>1. b \in Batches /\ op[k] # "idle" /\ b \in Touched(k, op[k], plan[k])
  BY DEF TxnInv, TypeOK, Progress
<1>2. plan[k][b] \in Nat /\ item_qty[k][b] \in Nat
  BY <1>1, PlanTypes DEF TxnInv
<1>3. PairOf[b] \in Affected(k, op[k], plan[k])
  BY <1>1, <1>2 DEF Touched, Affected, PairsOf
<1> QED BY <1>1, <1>3 DEF Recalculates

\* A step of another transaction that publishes no batch of a row that j has summed
\* leaves j's totals right.
LEMMA TotalsKeep ==
  ASSUME NEW j \in Packages, Recalculates(j), Summed(j) \subseteq Pairs,
         op'[j] = op[j], plan'[j] = plan[j], todo'[j] = todo[j], wrote'[j] = wrote[j],
         row'[j] = row[j], recalc'[j] = recalc[j], wrote_total'[j] = wrote_total[j],
         total'[j] = total[j], want'[j] = want[j], item_qty'[j] = item_qty[j],
         \A p \in Summed(j) : \A b \in BatchesAt(p) :
           usable_qty'[b] = usable_qty[b] /\ reserved_qty'[b] = reserved_qty[b]
  PROVE  Recalculates(j)'
<1>1. Summed(j)' = Summed(j) /\ Affected(j, op[j], plan[j])' = Affected(j, op[j], plan[j])
  BY DEF Summed, Affected
<1>2. ASSUME NEW p \in Summed(j)
      PROVE  SeenTotal(j, p)' = SeenTotal(j, p)
  <2>1. ASSUME NEW b \in BatchesAt(p)
        PROVE  /\ SeenUsable(j)'[b] = SeenUsable(j)[b]
               /\ SeenReserved(j)'[b] = SeenReserved(j)[b]
    <3>1. b \in Batches
      BY DEF BatchesAt
    <3> QED BY <1>2, <2>1, <3>1 DEF SeenUsable, SeenReserved, Visible
  <2>2. /\ SumOver(BatchesAt(p), SeenUsable(j)') = SumOver(BatchesAt(p), SeenUsable(j))
        /\ SumOver(BatchesAt(p), SeenReserved(j)') = SumOver(BatchesAt(p), SeenReserved(j))
    BY <2>1, SumSame
  <2> QED BY <2>2 DEF SeenTotal, Sums, RoundedSums
<1>3. \A p \in Summed(j)' : total'[j][p] = SeenTotal(j, p)'
  BY <1>1, <1>2 DEF Recalculates
<1> QED BY <1>1, <1>3 DEF Recalculates

\* A transaction that has summed nothing has no totals to get wrong.
LEMMA NothingSummed ==
  ASSUME NEW k \in Packages, op'[k] # "idle", Summed(k)' = {},
         recalc'[k] \cup wrote_total'[k] = Affected(k, op[k], plan[k])'
  PROVE  Recalculates(k)'
<1>1. wrote_total'[k] = {}
  BY DEF Summed
<1> QED BY <1>1 DEF Recalculates

\* What a transaction has summed are inventory rows.
LEMMA SummedArePairs ==
  ASSUME TypeOK, NEW k \in Packages
  PROVE  Summed(k) \subseteq Pairs
BY DEF TypeOK, Summed

\* The rows of the transactions other than k.
Bystanders(k) == \A j \in Packages \ {k} :
  /\ op'[j] = op[j] /\ plan'[j] = plan[j] /\ todo'[j] = todo[j] /\ wrote'[j] = wrote[j]
  /\ row'[j] = row[j] /\ recalc'[j] = recalc[j] /\ wrote_total'[j] = wrote_total[j]
  /\ total'[j] = total[j] /\ want'[j] = want[j] /\ item_qty'[j] = item_qty[j]

\* A statement that commits nothing keeps the totals of the others and of the database.
LEMMA StatementKeeps ==
  ASSUME TxnInv, TotalsInv, NEW k \in Packages, UNCHANGED committed, Bystanders(k),
         Recalculates(k)'
  PROVE  TotalsInv'
<1>1. ASSUME NEW j \in Packages \ {k} PROVE Recalculates(j)'
  <2>1. Recalculates(j) /\ Summed(j) \subseteq Pairs
    BY SummedArePairs DEF TotalsInv, TxnInv
  <2>2. /\ op'[j] = op[j] /\ plan'[j] = plan[j] /\ todo'[j] = todo[j] /\ wrote'[j] = wrote[j]
        /\ row'[j] = row[j] /\ recalc'[j] = recalc[j] /\ wrote_total'[j] = wrote_total[j]
        /\ total'[j] = total[j] /\ want'[j] = want[j] /\ item_qty'[j] = item_qty[j]
    BY DEF Bystanders
  <2> QED BY <2>1, <2>2, TotalsKeep DEF committed
<1>2. \A p \in Pairs : inventory'[p] = RoundedSums(p, usable_qty', reserved_qty')
  BY DEF committed, TotalsInv
<1>3. \A j \in Packages : Recalculates(j)'
  BY <1>1
<1> QED BY <1>2, <1>3 DEF TotalsInv

\* The statements that come before the sums.
LEMMA BatchStatements ==
  ASSUME TxnInv, TotalsInv, NEW k \in Packages,
         \/ Begin(k)
         \/ \E b \in Batches : AskBatch(k, b) \/ UpdateBatch(k, b)
  PROVE  TotalsInv'
<1>0. TypeOK /\ Recalculates(k) /\ Progress(k) /\ NoRow \notin Pairs /\ Batches \cap Pairs = {}
  BY TransactionAssumptions DEF TxnInv, TotalsInv
<1>1. UNCHANGED committed /\ Bystanders(k)
  BY <1>0 DEF Begin, Start, AskBatch, UpdateBatch, Bystanders, committed, TypeOK
<1>2. CASE Begin(k)
  <2>1. PICK o \in Ops, q \in Plans : Start(k, o, q) /\ op[k] = "idle"
    BY <1>2, TransactionAssumptions DEF Begin, Ops
  <2>2. /\ op'[k] = o /\ plan'[k] = q /\ o # "idle" /\ recalc'[k] = Affected(k, o, q)
        /\ wrote_total'[k] = {} /\ want'[k] = NoRow /\ item_qty' = item_qty
    BY <1>0, <2>1 DEF Start, committed, TypeOK, Recalculates, Ops
  <2>3. recalc'[k] \subseteq Pairs /\ Affected(k, op[k], plan[k])' = recalc'[k]
    BY <2>2, TransactionAssumptions DEF Affected, PairsOf
  <2>4. Summed(k)' = {}
    BY <1>0, <2>2, <2>3 DEF Summed
  <2>5. Recalculates(k)'
    BY <2>2, <2>3, <2>4, NothingSummed
  <2> QED BY <1>1, <2>5, StatementKeeps
<1>3. ASSUME NEW b \in Batches, AskBatch(k, b) \/ UpdateBatch(k, b)
      PROVE  TotalsInv'
  <2>1. b \in todo[k] /\ op[k] # "idle"
    BY <1>0, <1>3 DEF AskBatch, UpdateBatch, Progress
  <2>2. wrote_total[k] = {}
    BY <1>0, <2>1 DEF Recalculates, Summed
  <2>3. /\ UNCHANGED <<op, plan, recalc, wrote_total, item_qty>>
        /\ want'[k] = b \/ want'[k] = NoRow
    BY <1>0, <1>3 DEF AskBatch, UpdateBatch, committed, TypeOK
  <2>4. recalc[k] \subseteq Pairs
    BY <1>0 DEF TypeOK
  <2>5. Summed(k)' = {}
    BY <1>0, <2>2, <2>3, <2>4 DEF Summed
  <2>6. recalc'[k] \cup wrote_total'[k] = Affected(k, op[k], plan[k])'
    BY <1>0, <2>1, <2>3 DEF Recalculates, Affected
  <2>7. Recalculates(k)'
    BY <2>1, <2>3, <2>5, <2>6, NothingSummed
  <2> QED BY <1>1, <2>7, StatementKeeps
<1> QED BY <1>2, <1>3

\* The sum is what the transaction sees.
LEMMA SumStatement ==
  ASSUME TxnInv, TotalsInv, NEW k \in Packages, NEW p \in Pairs, SumBatches(k, p)
  PROVE  TotalsInv'
<1>0. TypeOK /\ Recalculates(k)
  BY DEF TxnInv, TotalsInv
<1>1. /\ UNCHANGED committed /\ UNCHANGED <<op, plan, todo, wrote, row, recalc, wrote_total>>
      /\ op[k] # "idle" /\ todo[k] = {} /\ p \in recalc[k] /\ p \notin wrote_total[k]
      /\ total' = [total EXCEPT ![k][p] = Sums(p, SeenUsable(k), SeenReserved(k))]
      /\ want' = [want EXCEPT ![k] = p]
  BY <1>0 DEF SumBatches, Sums, SeenUsable, SeenReserved, Recalculates
<1>2. Bystanders(k)
  BY <1>0, <1>1 DEF Bystanders, committed, TypeOK
<1>3. \A s : SeenTotal(k, s)' = SeenTotal(k, s)
  BY <1>1 DEF committed, SeenTotal, SeenUsable, SeenReserved, Visible, Sums, RoundedSums
<1>4. Summed(k)' = wrote_total[k] \cup {p} /\ wrote_total[k] \subseteq Pairs
  BY <1>0, <1>1 DEF Summed, TypeOK
<1>5. Affected(k, op[k], plan[k])' = Affected(k, op[k], plan[k])
  BY <1>1 DEF Affected, committed
<1>6. ASSUME NEW s \in Summed(k)'
      PROVE  total'[k][s] = SeenTotal(k, s)
  <2>1. total'[k] = [total[k] EXCEPT ![p] = Sums(p, SeenUsable(k), SeenReserved(k))]
        /\ total[k] \in [Pairs -> Stock] /\ s \in Pairs
    BY <1>0, <1>1, <1>4 DEF TypeOK
  <2>2. CASE s = p
    BY <1>1, <2>1, <2>2 DEF SeenTotal
  <2>3. CASE s # p
    <3>1. s \in wrote_total[k] /\ s \in Summed(k)
      BY <1>4, <1>6, <2>3 DEF Summed
    <3> QED BY <1>0, <2>1, <2>3, <3>1 DEF Recalculates
  <2> QED BY <2>2, <2>3
<1>7. \A s \in Summed(k)' : total'[k][s] = SeenTotal(k, s)'
  BY <1>3, <1>6
<1>8. Recalculates(k)'
  BY <1>0, <1>1, <1>5, <1>7 DEF Recalculates
<1> QED BY <1>1, <1>2, <1>8, StatementKeeps

\* The total is written as it was summed, rounded. The operations other than
\* commit_inventory leave the usable total, and no usable quantity changes in them.
LEMMA TotalStatement ==
  ASSUME TxnInv, TotalsInv, NEW k \in Packages, NEW p \in Pairs, WriteTotal(k, p)
  PROVE  TotalsInv'
<1>0. TypeOK /\ Recalculates(k) /\ NoRow \notin Pairs
  BY TransactionAssumptions DEF TxnInv, TotalsInv
<1>1. /\ UNCHANGED committed /\ UNCHANGED <<op, plan, todo, wrote, row>>
      /\ want[k] = p /\ p \in recalc[k] /\ p \notin wrote_total[k]
      /\ total' = [total EXCEPT ![k][p] = NewTotal(k, p)]
      /\ wrote_total' = [wrote_total EXCEPT ![k] = @ \cup {p}]
      /\ recalc' = [recalc EXCEPT ![k] = @ \ {p}]
      /\ want' = [want EXCEPT ![k] = NoRow]
  BY <1>0 DEF WriteTotal, Recalculates
<1>2. Bystanders(k)
  BY <1>0, <1>1 DEF Bystanders, committed, TypeOK
<1>3. SeenUsable(k)' = SeenUsable(k) /\ SeenReserved(k)' = SeenReserved(k)
  BY <1>1 DEF committed, SeenUsable, SeenReserved, Visible
<1>4. /\ wrote_total'[k] = wrote_total[k] \cup {p} /\ recalc'[k] = recalc[k] \ {p}
      /\ want'[k] = NoRow /\ recalc[k] \subseteq Pairs /\ wrote_total[k] \subseteq Pairs
  BY <1>0, <1>1 DEF TypeOK
<1>5. Summed(k)' = wrote_total[k] \cup {p}
  BY <1>0, <1>4 DEF Summed
<1>6. p \in Summed(k) /\ wrote_total[k] \subseteq Summed(k)
  BY <1>1 DEF Summed
<1>7. total[k][p] = Sums(p, SeenUsable(k), SeenReserved(k)) /\ todo[k] = {}
  BY <1>0, <1>1, <1>6 DEF Recalculates, SeenTotal
<1>8. op[k] # "idle"
  BY <1>0, <1>1 DEF Recalculates
<1>9. op[k] # "commit" =>
        SumOver(BatchesAt(p), SeenUsable(k)) = SumOver(BatchesAt(p), usable_qty)
  <2> SUFFICES ASSUME op[k] # "commit", NEW b \in BatchesAt(p)
               PROVE  SeenUsable(k)[b] = usable_qty[b]
    BY SumSame
  <2>1. b \in Batches /\ usable_qty[b] \in Nat
    BY <1>0 DEF BatchesAt, TypeOK
  <2>2. CASE b \in wrote[k]
    <3>1. Visible(k, b) = NewRow(k, b)
      BY <2>2 DEF TxnInv, LockedRowsCurrent, Visible
    <3>2. NewRow(k, b).usable_qty = usable_qty[b]
      BY <2>1 DEF NewRow
    <3> QED BY <2>1, <3>1, <3>2 DEF SeenUsable
  <2>3. CASE b \notin wrote[k]
    BY <2>1, <2>3 DEF SeenUsable, Visible
  <2> QED BY <2>2, <2>3
<1>10. NewTotal(k, p) = RoundedSums(p, SeenUsable(k), SeenReserved(k))
  <2>1. inventory[p] = RoundedSums(p, usable_qty, reserved_qty)
    BY DEF TotalsInv
  <2> QED BY <1>7, <1>9, <2>1 DEF NewTotal, Sums, RoundedSums
<1>11. ASSUME NEW s \in Summed(k)'
       PROVE  total'[k][s] = SeenTotal(k, s)'
  <2>1. total'[k] = [total[k] EXCEPT ![p] = NewTotal(k, p)]
        /\ total[k] \in [Pairs -> Stock] /\ s \in Pairs
    BY <1>0, <1>1, <1>4, <1>5 DEF TypeOK
  <2>2. CASE s = p
    BY <1>3, <1>4, <1>10, <2>1, <2>2 DEF SeenTotal
  <2>3. CASE s # p
    <3>1. s \in Summed(k) /\ s \in wrote_total[k] /\ s \in wrote_total'[k]
      BY <1>4, <1>5, <1>6, <1>11, <2>3
    <3>2. total[k][s] = RoundedSums(s, SeenUsable(k), SeenReserved(k))
      BY <1>0, <3>1 DEF Recalculates, SeenTotal
    <3> QED BY <1>3, <2>1, <2>3, <3>1, <3>2 DEF SeenTotal
  <2> QED BY <2>2, <2>3
<1>12. recalc'[k] \cap wrote_total'[k] = {}
  BY <1>0, <1>4 DEF Recalculates
<1>13. recalc'[k] \cup wrote_total'[k] = Affected(k, op[k], plan[k])'
  <2>1. Affected(k, op[k], plan[k])' = Affected(k, op[k], plan[k])
    BY <1>1 DEF Affected, committed
  <2>2. recalc'[k] \cup wrote_total'[k] = recalc[k] \cup wrote_total[k]
    BY <1>1, <1>4
  <2> QED BY <1>0, <1>8, <2>1, <2>2 DEF Recalculates
<1>14. Recalculates(k)'
  BY <1>1, <1>7, <1>8, <1>11, <1>12, <1>13 DEF Recalculates
<1> QED BY <1>1, <1>2, <1>14, StatementKeeps

\* An ended transaction has summed nothing, and the others go on as they were.
LEMMA EndTotals ==
  ASSUME TypeOK, NEW k \in Packages, End(k)
  PROVE  /\ Recalculates(k)'
         /\ \A j \in Packages \ {k} :
              /\ op'[j] = op[j] /\ plan'[j] = plan[j] /\ todo'[j] = todo[j]
              /\ wrote'[j] = wrote[j] /\ row'[j] = row[j] /\ recalc'[j] = recalc[j]
              /\ wrote_total'[j] = wrote_total[j] /\ total'[j] = total[j] /\ want'[j] = want[j]
<1>1. /\ op'[k] = "idle" /\ recalc'[k] = {} /\ wrote_total'[k] = {} /\ want'[k] = NoRow
  BY DEF End, TypeOK
<1>2. Summed(k)' = {}
  BY <1>1 DEF Summed
<1>3. Recalculates(k)'
  BY <1>1, <1>2 DEF Recalculates
<1> QED BY <1>3 DEF End, TypeOK

\* A commit publishes totals that match the batches it publishes.
LEMMA CommitTotals ==
  ASSUME TxnInv, TotalsInv, NEW k \in Packages, Commit(k),
         \A j \in Packages \ {k} : wrote_total[k] \cap Summed(j) = {}
  PROVE  TotalsInv'
<1>0. TypeOK /\ Recalculates(k) /\ op[k] # "idle" /\ recalc[k] = {} /\ End(k)
  BY DEF TxnInv, TotalsInv, Commit
<1>1. usable_qty' = SeenUsable(k) /\ reserved_qty' = SeenReserved(k)
  BY DEF Commit, SeenUsable, SeenReserved
<1>2. ASSUME NEW p \in Pairs \ wrote_total[k], NEW b \in BatchesAt(p)
      PROVE  usable_qty'[b] = usable_qty[b] /\ reserved_qty'[b] = reserved_qty[b]
  <2>1. b \in Batches /\ PairOf[b] = p
    BY DEF BatchesAt
  <2>2. b \notin wrote[k]
    BY <1>0, <1>2, <2>1, WrittenIsAffected
  <2> QED BY <1>1, <2>1, <2>2 DEF SeenUsable, SeenReserved, Visible
<1>3. ASSUME NEW p \in Pairs PROVE inventory'[p] = RoundedSums(p, usable_qty', reserved_qty')
  <2>1. CASE p \in wrote_total[k]
    <3>1. total[k][p] = RoundedSums(p, SeenUsable(k), SeenReserved(k))
      BY <1>0, <2>1 DEF Recalculates, Summed, SeenTotal
    <3>2. inventory'[p] = total[k][p]
      BY <2>1 DEF Commit
    <3> QED BY <1>1, <3>1, <3>2
  <2>2. CASE p \notin wrote_total[k]
    <3>1. inventory'[p] = inventory[p] /\ inventory[p] = RoundedSums(p, usable_qty, reserved_qty)
      BY <2>2 DEF Commit, TotalsInv
    <3>2. /\ SumOver(BatchesAt(p), usable_qty') = SumOver(BatchesAt(p), usable_qty)
          /\ SumOver(BatchesAt(p), reserved_qty') = SumOver(BatchesAt(p), reserved_qty)
      BY <1>2, <2>2, SumSame
    <3> QED BY <3>1, <3>2 DEF RoundedSums
  <2> QED BY <2>1, <2>2
<1>4. ASSUME NEW j \in Packages \ {k} PROVE Recalculates(j)'
  <2>1. Recalculates(j) /\ Summed(j) \subseteq Pairs
    BY <1>0, SummedArePairs DEF TotalsInv
  <2>2. \A p \in Summed(j) : \A b \in BatchesAt(p) :
          usable_qty'[b] = usable_qty[b] /\ reserved_qty'[b] = reserved_qty[b]
    BY <1>2, <2>1
  <2>3. item_qty'[j] = item_qty[j]
    BY <1>0 DEF Commit, TypeOK
  <2>4. /\ op'[j] = op[j] /\ plan'[j] = plan[j] /\ todo'[j] = todo[j] /\ wrote'[j] = wrote[j]
        /\ row'[j] = row[j] /\ recalc'[j] = recalc[j] /\ wrote_total'[j] = wrote_total[j]
        /\ total'[j] = total[j] /\ want'[j] = want[j]
    BY <1>0, EndTotals
  <2> QED BY <2>1, <2>2, <2>3, <2>4, TotalsKeep
<1>5. Recalculates(k)'
  BY <1>0, EndTotals
<1>6. \A j \in Packages : Recalculates(j)'
  BY <1>4, <1>5
<1> QED BY <1>3, <1>6 DEF TotalsInv

\* Every inventory row holds the sums of its batches, rounded to two decimals.
TotalsAreStoredSums ==
  \A p \in Pairs : inventory[p] = RoundedSums(p, usable_qty, reserved_qty)

\* Any number of interleaved reservations, dispatches, cancellations and rollbacks
\* in which no sum is overtaken leaves the totals what the columns can hold of the
\* sums of the batches: the lock that comes after the sum is all that interleaving
\* can get wrong.
THEOREM TotalsWrongOnlyIfOvertaken == Spec /\ NotOvertaken => []TotalsAreStoredSums
<1> DEFINE Calm == \A k \in Packages : Commit(k) =>
                     \A j \in Packages \ {k} : wrote_total[k] \cap Summed(j) = {}
<1>1. Init => TotalsInv
  <2> SUFFICES ASSUME Init PROVE TotalsInv
    OBVIOUS
  <2>1. ASSUME NEW p \in Pairs PROVE inventory[p] = RoundedSums(p, usable_qty, reserved_qty)
    <3>1. SumOver(BatchesAt(p), reserved_qty) = 0
      BY SumZero DEF Init, NoQty, BatchesAt
    <3>2. Rounded(0, Scale) = 0
      BY TransactionAssumptions, RoundedWhole DEF Whole
    <3> QED BY <3>1, <3>2 DEF Init, RoundedSums
  <2>2. \A k \in Packages : Recalculates(k)
    BY DEF Init, Recalculates, Summed
  <2> QED BY <2>1, <2>2 DEF TotalsInv
<1>2. ASSUME TxnInv, TotalsInv, [Next]_vars, [Calm]_vars
      PROVE  TotalsInv'
  <2>1. CASE UNCHANGED vars
    <3>1. UNCHANGED <<committed, txn>>
      BY <2>1 DEF vars
    <3>2. \A k \in Packages : Recalculates(k)'
      <4> TAKE k \in Packages
      <4>1. Recalculates(k) /\ Summed(k) \subseteq Pairs
        BY <1>2, SummedArePairs DEF TotalsInv, TxnInv
      <4> QED BY <3>1, <4>1, TotalsKeep DEF committed, txn
    <3>3. \A p \in Pairs : inventory'[p] = RoundedSums(p, usable_qty', reserved_qty')
      BY <1>2, <3>1 DEF committed, TotalsInv
    <3> QED BY <3>2, <3>3 DEF TotalsInv
  <2>2. CASE Next /\ ~ UNCHANGED vars
    <3>1. Calm
      BY <1>2, <2>2
    <3>2. PICK k \in Packages : Begin(k) \/ Advance(k) \/ Rollback(k)
      BY <2>2 DEF Next
    <3>3. CASE Rollback(k)
      <4>1. UNCHANGED committed /\ End(k) /\ TypeOK
        BY <1>2, <3>3 DEF Rollback, TxnInv
      <4>2. Recalculates(k)' /\ Bystanders(k)
        BY <4>1, EndTotals DEF Bystanders, committed
      <4> QED BY <1>2, <4>1, <4>2, StatementKeeps
    <3>4. CASE Commit(k)
      BY <1>2, <3>1, <3>4, CommitTotals
    <3> QED BY <1>2, <3>2, <3>3, <3>4, BatchStatements, SumStatement, TotalStatement DEF Advance
  <2> QED BY <1>2, <2>1, <2>2
<1>3. TotalsInv => TotalsAreStoredSums
  BY DEF TotalsInv, TotalsAreStoredSums
<1> QED BY <1>1, <1>2, <1>3, TxnInvariant, PTL DEF Spec, NotOvertaken

\* The batches of every inventory row add up to whole hundredths.
WholeTotals ==
  \A p \in Pairs : /\ Whole(SumOver(BatchesAt(p), usable_qty), Scale)
                   /\ Whole(SumOver(BatchesAt(p), reserved_qty), Scale)

\* The header of commit_inventory ("ensures inventory.usable_qty and
\* inventory.reserved_qty match the sum of their batches") holds where no sum is
\* overtaken and the columns of the totals have decimals enough: the late lock and
\* the rounding are all that is wrong with it.
THEOREM TotalsMatchOtherwise ==
  Spec /\ NotOvertaken /\ []WholeTotals => []TotalsMatchBatches
<1>1. TxnInv /\ WholeTotals /\ TotalsAreStoredSums => TotalsMatchBatches
  <2> SUFFICES ASSUME TxnInv, WholeTotals, TotalsAreStoredSums
               PROVE  \A p \in Pairs : /\ inventory[p].usable_qty = SumOver(BatchesAt(p), usable_qty)
                                       /\ inventory[p].reserved_qty = SumOver(BatchesAt(p), reserved_qty)
    BY DEF TotalsMatchBatches
  <2> TAKE p \in Pairs
  <2>1. /\ SumOver(BatchesAt(p), usable_qty) \in Nat
        /\ SumOver(BatchesAt(p), reserved_qty) \in Nat
    BY SumTypes DEF TxnInv, TypeOK
  <2>2. /\ inventory[p].usable_qty = Rounded(SumOver(BatchesAt(p), usable_qty), Scale)
        /\ inventory[p].reserved_qty = Rounded(SumOver(BatchesAt(p), reserved_qty), Scale)
    <3>1. inventory[p] = RoundedSums(p, usable_qty, reserved_qty)
      BY DEF TotalsAreStoredSums
    <3>2. /\ RoundedSums(p, usable_qty, reserved_qty).usable_qty
               = Rounded(SumOver(BatchesAt(p), usable_qty), Scale)
          /\ RoundedSums(p, usable_qty, reserved_qty).reserved_qty
               = Rounded(SumOver(BatchesAt(p), reserved_qty), Scale)
      BY DEF RoundedSums
    <3> QED BY <3>1, <3>2
  <2> QED BY <2>1, <2>2, RoundedWhole, TransactionAssumptions DEF WholeTotals
<1> QED BY <1>1, TotalsWrongOnlyIfOvertaken, TxnInvariant, PTL

-----------------------------------------------------------------------------
(* Deadlock.                                                               *)

\* There is one order R for all transactions, where <<x, y>> \in R if x may be asked
\* for by one that has y, and nobody asks for a row out of order.
AsksInOrder(R) ==
  \A k \in Packages : want[k] # NoRow =>
    \A x \in wrote[k] \cup wrote_total[k] : <<want[k], x>> \in R

\* Of transactions that wait for each other, one asks out of order.
LEMMA OrderBreaksCycles ==
  ASSUME TypeOK, NEW R, IsWellFoundedOn(R, Batches \cup Pairs), AsksInOrder(R),
         NEW S \in SUBSET Packages
  PROVE  ~Stuck(S)
<1> SUFFICES ASSUME Stuck(S) PROVE FALSE
  OBVIOUS
<1>1. \A k \in S : want[k] \in Batches \cup Pairs /\ want[k] # NoRow
  BY TransactionAssumptions DEF Stuck, WaitsFor, TypeOK
<1> DEFINE Wanted == {want[k] : k \in S}
<1>2. Wanted \subseteq Batches \cup Pairs /\ Wanted # {}
  BY <1>1 DEF Stuck
<1>3. PICK x \in Wanted : \A y \in Wanted : <<y, x>> \notin R
  <2> HIDE DEF Wanted
  <2> QED BY <1>2, WFMin
<1>4. PICK k \in S : want[k] = x
  OBVIOUS
<1>5. PICK j \in S : WaitsFor(k, j)
  BY DEF Stuck
<1>6. want[k] \in wrote[j] \cup wrote_total[j]
  BY <1>5 DEF WaitsFor
<1>7. <<want[j], want[k]>> \in R
  BY <1>1, <1>6 DEF AsksInOrder
<1> QED BY <1>3, <1>4, <1>7

\* If reserve_inventory, commit_inventory and cancel_relief_package locked batches
\* and inventory rows in one fixed order, no transactions would ever wait for each
\* other: that they iterate over sets and unordered queries is all that makes the
\* deadlocks that PostgreSQL has to break.
THEOREM OrderedLocksCannotDeadlock ==
  ASSUME NEW R, IsWellFoundedOn(R, Batches \cup Pairs)
  PROVE  Spec /\ []AsksInOrder(R) => [](\A S \in SUBSET Packages : ~Stuck(S))
<1>1. TypeOK /\ AsksInOrder(R) => \A S \in SUBSET Packages : ~Stuck(S)
  BY OrderBreaksCycles
<1> QED BY <1>1, TransactionTypes, PTL
=============================================================================
