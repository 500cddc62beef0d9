-------------------------- MODULE StockTransactions --------------------------
(***************************************************************************)
(* The stock operations of inventory_reservation_service as PostgreSQL     *)
(* transactions that interleave statement by statement.                    *)
(*                                                                         *)
(* A transaction locks its batches one by one (SELECT ... FOR UPDATE), in  *)
(* an order the code does not fix: reserve_inventory iterates over a       *)
(* Python set, the others over a query without ORDER BY.  It updates each  *)
(* batch from the row it locked.  Then, for each warehouse and item it     *)
(* touched, it sums the batches without locking them, locks the inventory  *)
(* row and writes the sum, which the column rounds to two decimals.        *)
(* Isolation is READ COMMITTED: a statement sees what was committed before *)
(* it and the transaction's own updates.                                   *)
(*                                                                         *)
(* Of two POSTs on one package only one can commit, by the versions of the *)
(* request, the package and its rows (the other gets StaleDataError), so a *)
(* package has at most one transaction.  The checks of the form are made   *)
(* without locks before the first one, and bind nothing here: a plan is    *)
(* any allocation.  Workflow C, cancel_preparation (which has no lock to   *)
(* take) and rows of quantity 0 are left out.                              *)
(***************************************************************************)
EXTENDS Quantities

CONSTANTS
  Packages, Batches,
  Pairs,         \* inventory rows: a warehouse and an item
  PairOf,        \* the inventory row of a batch
  Plans,         \* the allocations a package may hold
  InitialUsable,
  Scale          \* smallest units of a batch to the unit of an inventory column

NoQty == [b \in Batches |-> 0]
NoRow == "no row"

ASSUME TransactionAssumptions ==
  /\ IsFiniteSet(Batches) /\ IsFiniteSet(Packages)
  /\ PairOf \in [Batches -> Pairs]
  /\ Plans \subseteq [Batches -> Nat] /\ NoQty \in Plans
  /\ InitialUsable \in [Batches -> Nat] /\ Scale \in Nat \ {0}
  /\ Batches \cap Pairs = {} /\ NoRow \notin Batches \cup Pairs

VARIABLES
  \* Committed rows.
  status, item_qty, usable_qty, reserved_qty,
  inventory,     \* [p -> [usable_qty, reserved_qty]]
  \* The transaction of each package.
  op,            \* the service function it runs, "idle" when there is none
  plan,          \* the rows it leaves in the package
  todo,          \* batches it has yet to lock
  wrote,         \* batches it has locked and updated
  row,           \* [k -> [b -> the row written for b in wrote[k]]]
  recalc,        \* inventory rows it has yet to recalculate
  wrote_total,   \* inventory rows it has locked and updated
  total,         \* [k -> [p -> the sum read, then written, for p]]
  want           \* the row it asked the lock of, or NoRow

committed == <<status, item_qty, usable_qty, reserved_qty, inventory>>
txn  == <<op, plan, todo, wrote, row, recalc, wrote_total, total, want>>
vars == <<committed, txn>>

Ops == {"reserve", "commit", "cancel"}
Stock == [usable_qty : Nat, reserved_qty : Nat]
NoStock == [usable_qty |-> 0, reserved_qty |-> 0]

PairsOf(S) == {PairOf[b] : b \in S}
BatchesAt(p) == {b \in Batches : PairOf[b] = p}

-----------------------------------------------------------------------------
(* What operation o does to a batch of package k, where q is its plan.     *)

\* Mutant: a batch that the new plan leaves out keeps its reservation.
Touched_NewOnly(k, o, q) ==
  {b \in Batches : \/ o = "reserve" /\ q[b] # item_qty[k][b] /\ q[b] > 0
                   \/ o = "commit"  /\ q[b] > 0
                   \/ o = "cancel"  /\ item_qty[k][b] > 0}

\* The batches it locks.
Touched(k, o, q) ==
  {b \in Batches : \/ o = "reserve" /\ q[b] # item_qty[k][b]
                   \/ o = "commit"  /\ q[b] > 0
                   \/ o = "cancel"  /\ item_qty[k][b] > 0}

\* The inventory rows it recalculates; reserve_inventory also those of batches
\* whose quantity stays.
Affected(k, o, q) ==
  PairsOf({b \in Batches : \/ o \in {"reserve", "commit"} /\ q[b] > 0
                           \/ o \in {"reserve", "cancel"} /\ item_qty[k][b] > 0})

\* The row it writes, from the committed row of b.
NewRow(k, b) ==
  LET q == plan[k][b]  old == item_qty[k][b]
  IN  [usable_qty   |-> usable_qty[b] - (IF op[k] = "commit" THEN q ELSE 0),
       reserved_qty |-> CASE op[k] = "reserve" -> AtLeastZero(reserved_qty[b] + (q - old))
                          [] op[k] = "commit"  -> AtLeastZero(reserved_qty[b] - q)
                          [] OTHER (* cancel *) -> reserved_qty[b] - old]

\* The function's own validation of the locked row, and c_itembatch_2.
MayUpdate(k, b) ==
  LET q == plan[k][b]  old == item_qty[k][b]
  IN  /\ op[k] = "reserve" => reserved_qty[b] + (q - old) <= usable_qty[b]
      /\ op[k] = "commit"  => q <= usable_qty[b]
      /\ op[k] = "cancel"  => old <= reserved_qty[b]
      /\ 0 <= NewRow(k, b).reserved_qty
      /\ NewRow(k, b).reserved_qty <= NewRow(k, b).usable_qty

\* What a statement of k reads.
Visible(k, b) ==
  IF b \in wrote[k] THEN row[k][b]
  ELSE [usable_qty |-> usable_qty[b], reserved_qty |-> reserved_qty[b]]

-----------------------------------------------------------------------------
(* The steps of a transaction.                                             *)

Start(k, o, q) ==
  /\ op' = [op EXCEPT ![k] = o]
  /\ plan' = [plan EXCEPT ![k] = q]
  /\ todo' = [todo EXCEPT ![k] = Touched(k, o, q)]
  /\ recalc' = [recalc EXCEPT ![k] = Affected(k, o, q)]
  /\ UNCHANGED <<committed, wrote, row, wrote_total, total, want>>

Begin(k) ==
  /\ op[k] = "idle"
  /\ \/ \E o \in {"reserve", "commit"} : \E q \in Plans : Start(k, o, q)
     \/ status[k] \in {"P", "D"} /\ Start(k, "cancel", NoQty)

\* SELECT ... FROM itembatch ... FOR UPDATE is sent.
AskBatch(k, b) ==
  /\ want[k] = NoRow /\ b \in todo[k]
  /\ want' = [want EXCEPT ![k] = b]
  /\ UNCHANGED <<committed, op, plan, todo, wrote, row, recalc, wrote_total, total>>

\* Mutant: a batch is updated with neither a row lock nor a version check.
BatchFree_Unlocked(k, b) == TRUE

BatchFree(k, b) == \A j \in Packages \ {k} : b \notin wrote[j]

\* The lock is granted: the committed row is validated and updated.
UpdateBatch(k, b) ==
  /\ want[k] = b /\ b \in todo[k] /\ BatchFree(k, b)
  /\ MayUpdate(k, b)
  /\ row' = [row EXCEPT ![k][b] = NewRow(k, b)]
  /\ wrote' = [wrote EXCEPT ![k] = @ \cup {b}]
  /\ todo' = [todo EXCEPT ![k] = @ \ {b}]
  /\ want' = [want EXCEPT ![k] = NoRow]
  /\ UNCHANGED <<committed, op, plan, recalc, wrote_total, total>>

\* SELECT SUM(...) FROM itembatch, which waits for no lock, and then
\* SELECT ... FROM inventory ... FOR UPDATE is sent.
SumBatches(k, p) ==
  /\ op[k] # "idle" /\ todo[k] = {} /\ want[k] = NoRow /\ p \in recalc[k]
  /\ total' = [total EXCEPT ![k][p] =
       [usable_qty   |-> SumOver(BatchesAt(p), [b \in Batches |-> Visible(k, b).usable_qty]),
        reserved_qty |-> SumOver(BatchesAt(p), [b \in Batches |-> Visible(k, b).reserved_qty])]]
  /\ want' = [want EXCEPT ![k] = p]
  /\ UNCHANGED <<committed, op, plan, todo, wrote, row, recalc, wrote_total>>

TotalFree(k, p) == \A j \in Packages \ {k} : p \notin wrote_total[j]

\* Mutant: a total is decremented by one too many.
NewTotal_OffByOne(k, p) ==
  [usable_qty |-> inventory[p].usable_qty, reserved_qty |-> total[k][p].reserved_qty - 1]

\* Only commit_inventory writes the usable total.
NewTotal(k, p) ==
  [usable_qty   |-> IF op[k] = "commit" THEN Rounded(total[k][p].usable_qty, Scale)
                                        ELSE inventory[p].usable_qty,
   reserved_qty |-> Rounded(total[k][p].reserved_qty, Scale)]

\* reserve_inventory's validation, of the sum in memory, and c_inventory_2, of
\* what is stored.
MayWriteTotal(k, p) ==
  /\ op[k] = "reserve" => total[k][p].reserved_qty <= inventory[p].usable_qty
  /\ NewTotal(k, p).reserved_qty <= NewTotal(k, p).usable_qty

\* The lock is granted: the sum is written as it was read, and rounded.
WriteTotal(k, p) ==
  /\ want[k] = p /\ p \in recalc[k] /\ TotalFree(k, p)
  /\ MayWriteTotal(k, p)
  /\ total' = [total EXCEPT ![k][p] = NewTotal(k, p)]
  /\ wrote_total' = [wrote_total EXCEPT ![k] = @ \cup {p}]
  /\ recalc' = [recalc EXCEPT ![k] = @ \ {p}]
  /\ want' = [want EXCEPT ![k] = NoRow]
  /\ UNCHANGED <<committed, op, plan, todo, wrote, row>>

\* The transaction of k is over and its locks are released.
End(k) ==
  /\ op' = [op EXCEPT ![k] = "idle"]
  /\ plan' = [plan EXCEPT ![k] = NoQty]
  /\ todo' = [todo EXCEPT ![k] = {}]
  /\ wrote' = [wrote EXCEPT ![k] = {}]
  /\ row' = [row EXCEPT ![k] = [b \in Batches |-> NoStock]]
  /\ recalc' = [recalc EXCEPT ![k] = {}]
  /\ wrote_total' = [wrote_total EXCEPT ![k] = {}]
  /\ total' = [total EXCEPT ![k] = [p \in Pairs |-> NoStock]]
  /\ want' = [want EXCEPT ![k] = NoRow]

\* The caller updates or deletes the package and commits.
Commit(k) ==
  /\ op[k] # "idle" /\ todo[k] = {} /\ recalc[k] = {} /\ want[k] = NoRow
  /\ usable_qty' = [b \in Batches |-> Visible(k, b).usable_qty]
  /\ reserved_qty' = [b \in Batches |-> Visible(k, b).reserved_qty]
  /\ inventory' = [p \in Pairs |-> IF p \in wrote_total[k] THEN total[k][p] ELSE inventory[p]]
  /\ item_qty' = [item_qty EXCEPT ![k] = plan[k]]
  /\ status' = [status EXCEPT ![k] = CASE op[k] = "commit" -> "D"
                                       [] op[k] = "cancel" -> "none"
                                       [] OTHER (* reserve *) -> IF @ = "D" THEN "D" ELSE "P"]
  /\ End(k)

\* Mutant: an error path returns without db.session.rollback().
Rollback_KeepsLocks(k) ==
  /\ op[k] # "idle" /\ UNCHANGED vars

\* A validation or CHECK constraint fails, the database picks k as a deadlock
\* victim, or the application process dies.
Rollback(k) ==
  /\ op[k] # "idle"
  /\ End(k)
  /\ UNCHANGED committed

-----------------------------------------------------------------------------
Init ==
  /\ status = [k \in Packages |-> "none"]
  /\ item_qty = [k \in Packages |-> NoQty]
  /\ usable_qty = InitialUsable
  /\ reserved_qty = NoQty
  /\ inventory = [p \in Pairs |->
       [usable_qty   |-> Rounded(SumOver(BatchesAt(p), InitialUsable), Scale),
        reserved_qty |-> 0]]
  /\ op = [k \in Packages |-> "idle"]
  /\ plan = [k \in Packages |-> NoQty]
  /\ todo = [k \in Packages |-> {}]
  /\ wrote = [k \in Packages |-> {}]
  /\ row = [k \in Packages |-> [b \in Batches |-> NoStock]]
  /\ recalc = [k \in Packages |-> {}]
  /\ wrote_total = [k \in Packages |-> {}]
  /\ total = [k \in Packages |-> [p \in Pairs |-> NoStock]]
  /\ want = [k \in Packages |-> NoRow]

\* The statements of k.
Advance(k) ==
  \/ \E b \in Batches : AskBatch(k, b) \/ UpdateBatch(k, b)
  \/ \E p \in Pairs : SumBatches(k, p) \/ WriteTotal(k, p)
  \/ Commit(k)

Next == \E k \in Packages : Begin(k) \/ Advance(k) \/ Rollback(k)

Spec == Init /\ [][Next]_vars

-----------------------------------------------------------------------------
(* Waiting and fairness.                                                   *)

WaitsFor(k, j) ==
  /\ j # k
  /\ \/ want[k] \in todo[k] /\ want[k] \in wrote[j]
     \/ want[k] \in recalc[k] /\ want[k] \in wrote_total[j]

\* Everyone in S waits for someone in S.
Stuck(S) == S # {} /\ \A k \in S : \E j \in S : WaitsFor(k, j)

\* The validation of the row that k was granted fails.
Refused(k) ==
  \/ \E b \in todo[k] : want[k] = b /\ BatchFree(k, b) /\ ~MayUpdate(k, b)
  \/ \E p \in recalc[k] : want[k] = p /\ TotalFree(k, p) /\ ~MayWriteTotal(k, p)

\* A refused transaction is rolled back by the application, and one of those
\* that wait for each other by PostgreSQL's deadlock detection.
Fail(k) ==
  /\ Refused(k) \/ \E S \in SUBSET Packages : k \in S /\ Stuck(S)
  /\ Rollback(k)

\* A request thread runs until it waits for a lock, and PostgreSQL grants a
\* lock in the order of the requests, so a waiter is not overtaken for ever.
Fairness == \A k \in Packages : SF_vars(Advance(k)) /\ SF_vars(Fail(k))

FairSpec == Spec /\ Fairness

-----------------------------------------------------------------------------
(* Correctness.                                                            *)

\* Types of rows and transactions, and c_itembatch_2 of the committed batches.
TypeOK ==
  /\ status \in [Packages -> {"none", "P", "D"}]
  /\ item_qty \in [Packages -> Plans]
  /\ usable_qty \in [Batches -> Nat] /\ reserved_qty \in [Batches -> Nat]
  /\ \A b \in Batches : reserved_qty[b] <= usable_qty[b]
  /\ inventory \in [Pairs -> Stock]
  /\ op \in [Packages -> Ops \cup {"idle"}] /\ plan \in [Packages -> Plans]
  /\ todo \in [Packages -> SUBSET Batches] /\ wrote \in [Packages -> SUBSET Batches]
  /\ row \in [Packages -> [Batches -> Stock]]
  /\ recalc \in [Packages -> SUBSET Pairs] /\ wrote_total \in [Packages -> SUBSET Pairs]
  /\ total \in [Packages -> [Pairs -> Stock]]
  /\ want \in [Packages -> Batches \cup Pairs \cup {NoRow}]

\* While a transaction is open, the rows it wrote and the validation it made
\* still follow from what is committed, whatever committed in between: a batch
\* it has locked is out of everybody else's reach.
LockedRowsCurrent ==
  \A k \in Packages : \A b \in wrote[k] :
    BatchFree(k, b) /\ MayUpdate(k, b) /\ row[k][b] = NewRow(k, b)

\* Interleaved transactions change batches and packages as if each ran at once
\* when it commits, with the outcome of the abstract ledger: nothing that was
\* validated under a batch's lock is out of date at the commit.
Ledger == INSTANCE StockLedger
ImplementsLedger == Ledger!Spec

\* Every transaction ends, although locks are taken in no fixed order and
\* transactions may wait for each other in a cycle.
TransactionsEnd == \A k \in Packages : op[k] # "idle" ~> op[k] = "idle"

-----------------------------------------------------------------------------
(* What comments say and the code does not do.                             *)

\* commit_inventory recalculates the totals of the affected warehouses: "This
\* ensures inventory.usable_qty and inventory.reserved_qty match the sum of
\* their batches".  The sum is read before the inventory row is locked.
TotalsMatchBatches ==
  (\A k \in Packages : op[k] = "idle") =>
    \A p \in Pairs : /\ inventory[p].usable_qty = SumOver(BatchesAt(p), usable_qty)
                     /\ inventory[p].reserved_qty = SumOver(BatchesAt(p), reserved_qty)
=============================================================================
