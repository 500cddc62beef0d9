---------------------------- MODULE MCFulfillment ----------------------------
(***************************************************************************)
(* Small instances of Fulfillment for TLC.                                 *)
(***************************************************************************)
EXTENDS Fulfillment, FiniteSetsExt, TLC

CONSTANTS r1, r2, r3, food, water, w1, w2, b1, b2

\* Every batch holds food in warehouse w1, or b1 food in w1 and b2 water in w2.
AllFood   == [b \in Batches |-> food]
AllInW1   == [b \in Batches |-> w1]
FoodWater == (b1 :> food) @@ (b2 :> water)
Apart     == (b1 :> w1) @@ (b2 :> w2)

TwoOfEach == [b \in Batches |-> 2]

OneRequested == [r \in Requests |-> [i \in Items |-> 1]]
TwoRequested == [r \in Requests |-> [i \in Items |-> 2]]

\* SumOver, written for the provers, is the sum of the community modules.
ASSUME SumOverIsSum ==
  \A q \in [Batches -> 0 .. 2] : \A S \in SUBSET Batches :
    SumOver(S, q) = MapThenSumSet(LAMBDA b : q[b], S)

\* Relief requests are interchangeable.
Symmetry == Permutations(Requests)
=============================================================================
