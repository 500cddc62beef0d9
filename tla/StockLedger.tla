----------------------------- MODULE StockLedger -----------------------------
(***************************************************************************)
(* The abstract specification of relief stock: batches with usable and     *)
(* reserved units, and packages that hold units of them.  Every operation  *)
(* happens at once, on the batches of one package.  Fulfillment (the POST  *)
(* handlers) and StockTransactions (the interleaved database transactions) *)
(* both implement it.                                                      *)
(*                                                                         *)
(* The two clamps AtLeastZero are the code's max(Decimal('0'), ...): the   *)
(* ledger does not promise that a package takes only what it has reserved. *)
(***************************************************************************)
EXTENDS Quantities

CONSTANTS
  Packages,      \* one per relief request
  Batches,
  Plans,         \* the allocations a package may hold, functions on Batches
  InitialUsable

VARIABLES
  status,        \* [k -> "none", "P" (pending) or "D" (dispatched)]
  item_qty,      \* [k -> [b -> units of b in package k]]
  usable_qty,    \* [b -> units on the shelf]
  reserved_qty   \* [b -> units of them that are reserved]

ledger == <<status, item_qty, usable_qty, reserved_qty>>

NoQty == [b \in Batches |-> 0]

\* A batch never has more units reserved than it holds (c_itembatch_2).
Solvent == \A b \in Batches : 0 <= reserved_qty[b] /\ reserved_qty[b] <= usable_qty[b]

\* Package k is rewritten to hold q, and the difference is reserved.
Reserve(k, q) ==
  LET reserved(b) == reserved_qty[b] + (q[b] - item_qty[k][b])
  IN  /\ \A b \in Batches : q[b] # item_qty[k][b] => reserved(b) <= usable_qty[b]
      /\ reserved_qty' = [b \in Batches |-> AtLeastZero(reserved(b))]
      /\ item_qty' = [item_qty EXCEPT ![k] = q]
      /\ status' = [status EXCEPT ![k] = IF @ = "D" THEN "D" ELSE "P"]
      /\ UNCHANGED usable_qty

\* Package k leaves the warehouses with q.
Dispatch(k, q) ==
  /\ \A b \in Batches : q[b] <= usable_qty[b]
  /\ usable_qty' = [b \in Batches |-> usable_qty[b] - q[b]]
  /\ reserved_qty' = [b \in Batches |-> AtLeastZero(reserved_qty[b] - q[b])]
  /\ item_qty' = [item_qty EXCEPT ![k] = q]
  /\ status' = [status EXCEPT ![k] = "D"]

\* The reservations of pending package k are undone, and it leaves with q.
Replace(k, q) ==
  /\ status[k] = "P"
  /\ \A b \in Batches : item_qty[k][b] <= reserved_qty[b] /\ q[b] <= usable_qty[b]
  /\ usable_qty' = [b \in Batches |-> usable_qty[b] - q[b]]
  /\ reserved_qty' = [b \in Batches |-> reserved_qty[b] - item_qty[k][b]]
  /\ item_qty' = [item_qty EXCEPT ![k] = q]
  /\ status' = [status EXCEPT ![k] = "D"]

\* Package k is deleted and what it holds is no longer reserved.
Release(k) ==
  /\ status[k] \in {"P", "D"}
  /\ \A b \in Batches : item_qty[k][b] <= reserved_qty[b]
  /\ reserved_qty' = [b \in Batches |-> reserved_qty[b] - item_qty[k][b]]
  /\ item_qty' = [item_qty EXCEPT ![k] = NoQty]
  /\ status' = [status EXCEPT ![k] = "none"]
  /\ UNCHANGED usable_qty

\* Package k is emptied, and its reservations stay.
Drop(k) ==
  /\ status[k] # "none"
  /\ item_qty' = [item_qty EXCEPT ![k] = NoQty]
  /\ UNCHANGED <<status, usable_qty, reserved_qty>>

Init ==
  /\ status = [k \in Packages |-> "none"]
  /\ item_qty = [k \in Packages |-> NoQty]
  /\ usable_qty = InitialUsable
  /\ reserved_qty = NoQty

Operate(k) ==
  \/ \E q \in Plans : Reserve(k, q) \/ Dispatch(k, q) \/ Replace(k, q)
  \/ Release(k)
  \/ Drop(k)

Next == /\ \E k \in Packages : Operate(k)
        /\ Solvent'

Spec == Init /\ [][Next]_ledger
=============================================================================
