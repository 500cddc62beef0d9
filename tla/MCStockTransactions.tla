------------------------- MODULE MCStockTransactions -------------------------
(***************************************************************************)
(* Small instances of StockTransactions for TLC.                           *)
(***************************************************************************)
EXTENDS StockTransactions, TLC

CONSTANTS k1, k2, b1, b2, p1

\* Two batches of one item in one warehouse, of which a package holds at most
\* one unit each.
OnePair  == [b \in Batches |-> p1]
UnitPlans == [Batches -> 0 .. 1]
OneOfEach == [b \in Batches |-> 1]
\* A package is empty, holds b1 or holds both: enough to compete for a batch and
\* to lock two batches in either order.
NestedPlans == {NoQty, (b1 :> 1) @@ (b2 :> 0), OneOfEach}
=============================================================================
