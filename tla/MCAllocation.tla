----------------------------- MODULE MCAllocation -----------------------------
(* Two batches in one warehouse and one in another. Day 2 is today.          *)
EXTENDS Allocation

Row(bd, ed, u, r) ==
  [active |-> TRUE, batch_date |-> bd, expiry_date |-> ed, usable_qty |-> u, reserved_qty |-> r]

MCItemBatch == {
  Row(1, 3, 2, 0), Row(1, 2, 2, 1), Row(2, 3, 1, 0),
  Row(2, 0, 2, 0),                       \* never expires
  Row(0, 3, 1, 1),                       \* no batch date, all reserved
  Row(1, 1, 2, 0),                       \* expired
  [Row(1, 3, 2, 0) EXCEPT !.active = FALSE] }

\* Nothing, one unit of the first batch, or one of it and one in the other warehouse.
MCAllocations == {
  NoBatch, [NoBatch EXCEPT ![1] = 1], [NoBatch EXCEPT ![1] = 1, ![3] = 1] }

MCInventory == [b \in Batches |-> IF b = 3 THEN "w2" ELSE "w1"]
===============================================================================
