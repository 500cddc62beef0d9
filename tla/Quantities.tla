----------------------------- MODULE Quantities -----------------------------
(***************************************************************************)
(* Stock quantities: their sums and the rounding of their totals.          *)
(*                                                                         *)
(* A quantity is a natural number of the smallest unit of a batch: the     *)
(* columns of itembatch and reliefpkg_item are numeric(15,4) and the       *)
(* drawer's input steps by 0.0001.  A sum over rows is counted: row d      *)
(* contributes the unit tokens <<d, 1>> .. <<d, f[d]>>, and the sum is the *)
(* number of tokens.  This is SQL's SUM over the rows, with 0 for no rows  *)
(* (the code turns SUM's NULL into Decimal('0')), and it lets the proofs   *)
(* use the theorems on the cardinality of finite sets.                     *)
(*                                                                         *)
(* The totals of inventory and the quantities of reliefrqst_item are       *)
(* numeric(12,2): what is assigned to them is rounded when it is stored.   *)
(* With scale smallest units to the unit of such a column (100 in the      *)
(* database), the stored number is the nearest multiple of scale, and the  *)
(* larger one of two that are equally near, as PostgreSQL rounds a number  *)
(* that is not negative.                                                   *)
(***************************************************************************)
EXTENDS Integers, FiniteSets

\* The unit tokens of the rows S, where row d holds f[d] units.
Units(S, f) == UNION {{d} \X (1 .. f[d]) : d \in S}

\* SELECT SUM(f) over the rows S.
SumOver(S, f) == Cardinality(Units(S, f))

\* n has no more decimals than a numeric(12,2) column holds.
Whole(n, scale) == n % scale = 0

\* n as a numeric(12,2) column stores it.
Rounded(n, scale) ==
  (n - (n % scale)) + (IF 2 * (n % scale) >= scale THEN scale ELSE 0)

\* max(Decimal('0'), n)
AtLeastZero(n) == IF n < 0 THEN 0 ELSE n
=============================================================================
