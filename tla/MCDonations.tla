----------------------------- MODULE MCDonations -----------------------------
(***************************************************************************)
(* Small instances of Donations for TLC.                                   *)
(***************************************************************************)
EXTENDS Donations, TLC

CONSTANTS d1, d2, food, cash, w1, w2, u1, u2

\* Users, warehouses and donations are interchangeable.
Symmetry == Permutations(Users) \cup Permutations(Warehouses) \cup Permutations(Donations)
=============================================================================
