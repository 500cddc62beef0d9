--------------------------- MODULE AllocationProofs ---------------------------
(***************************************************************************)
(* Proofs that the automatic allocation and the batch drawer keep to their *)
(* rules for every stock, item, set of warehouses and quantity.            *)
(***************************************************************************)
EXTENDS Allocation, QuantityProofs

-----------------------------------------------------------------------------
(* Sequences and stock.                                                    *)

\* What a loop that visits its head finds in the tail.
LEMMA TailFacts ==
  ASSUME NEW S, NEW s \in Seq(S), s # << >>
  PROVE  /\ Head(s) = s[1] /\ Head(s) \in S /\ 1 \in DOMAIN s
         /\ Tail(s) \in Seq(S)
         /\ \A i \in DOMAIN Tail(s) : i + 1 \in DOMAIN s /\ Tail(s)[i] = s[i + 1] /\ i \in Nat /\ i > 0
         /\ \A i \in DOMAIN s : i # 1 => i - 1 \in DOMAIN Tail(s) /\ Tail(s)[i - 1] = s[i]
OBVIOUS

\* x is an element of the sequence s.
Holds(s, x) == \E i \in DOMAIN s : s[i] = x

\* What appending leaves in a sequence.
LEMMA AppendFacts ==
  ASSUME NEW S, NEW s \in Seq(S), NEW x \in S
  PROVE  /\ Append(s, x) \in Seq(S)
         /\ \A y : Holds(Append(s, x), y) <=> y = x \/ Holds(s, y)
<1>1. Append(s, x) \in Seq(S) /\ DOMAIN Append(s, x) = 1 .. Len(s) + 1 /\ DOMAIN s = 1 .. Len(s)
  OBVIOUS
<1>2. Len(s) \in Nat /\ Len(s) + 1 \in 1 .. Len(s) + 1
  OBVIOUS
<1>3. /\ Append(s, x)[Len(s) + 1] = x
      /\ \A i \in 1 .. Len(s) : i \in 1 .. Len(s) + 1 /\ Append(s, x)[i] = s[i]
      /\ \A i \in 1 .. Len(s) + 1 : i \in 1 .. Len(s) \/ i = Len(s) + 1
  OBVIOUS
<1> QED BY <1>1, <1>2, <1>3 DEF Holds

\* An order of a set of batches is a sequence without repetitions of its elements.
LEMMA OrdersFacts ==
  ASSUME NEW S \in SUBSET Batches, NEW s \in Orders(S)
  PROVE  /\ s \in Seq(Batches)
         /\ \A i \in DOMAIN s : s[i] \in S
         /\ \A i, j \in DOMAIN s : s[i] = s[j] => i = j
         /\ \A b \in S : \E i \in DOMAIN s : s[i] = b
<1>1. Cardinality(S) \in Nat
  BY AllocationAssumptions, FS_Subset, FS_CardinalityType
<1>2. s \in [1 .. Cardinality(S) -> S]
  BY DEF Orders
<1>3. \A b \in S : \E i \in DOMAIN s : s[i] = b /\ \A j \in DOMAIN s : s[j] = b => j = i
  BY DEF Orders
<1> QED BY <1>1, <1>2, <1>3

\* What is left of a batch is a natural number, with and without what the
\* package has of it.
LEMMA AvailableNat ==
  ASSUME TypeOK, NEW b \in Batches
  PROVE  /\ itembatch[b] \in ItemBatch
         /\ itembatch[b].batch_date \in 0 .. MaxDate /\ itembatch[b].expiry_date \in 0 .. MaxDate
         /\ itembatch[b].usable_qty \in Nat /\ itembatch[b].reserved_qty \in Nat
         /\ Available(b) \in Nat /\ calc_available_qty(b) \in Nat
         /\ calc_available_qty(b) = Available(b) + current[b]
<1>1. itembatch[b] \in ItemBatch /\ current[b] \in Nat
  BY DEF TypeOK
<1>2. /\ itembatch[b] \in [active : BOOLEAN, batch_date : 0 .. MaxDate, expiry_date : 0 .. MaxDate,
                          usable_qty : Nat, reserved_qty : Nat]
      /\ itembatch[b].reserved_qty <= itembatch[b].usable_qty
  BY <1>1, AllocationAssumptions
<1> QED BY <1>1, <1>2 DEF Available, calc_available_qty

\* The sets the two endpoints start from.
Offered(W) == {b \in get_available_batches(W) : NotExpired(b) /\ Available(b) > 0}

-----------------------------------------------------------------------------
(* Types.                                                                  *)

\* Every step keeps the types.
LEMMA TypeStep ==
  ASSUME TypeOK, [Next]_vars
  PROVE  TypeOK'
<1>1. ASSUME NEW q \in 1 .. MaxQty, NEW W \in {Warehouses} \cup {{w} : w \in Warehouses},
             auto_allocate_item(q, W)
      PROVE  TypeOK'
  <2>1. todo' \in Orders(Offered(W)) /\ Offered(W) \in SUBSET Batches
    BY <1>1 DEF auto_allocate_item, sort_batches_by_allocation_rule, Offered, get_available_batches
  <2>2. todo' \in Seq(Batches)
    BY <2>1, OrdersFacts
  <2>3. W \in SUBSET Warehouses /\ q \in Nat
    BY AllocationAssumptions
  <2> QED BY <1>1, <2>2, <2>3 DEF TypeOK, auto_allocate_item, stock_vars, drawer_vars, NoBatch
<1>2. ASSUME auto_allocate_batches
      PROVE  TypeOK'
  <2> DEFINE b == Head(todo)
  <2>1. b \in Batches /\ Tail(todo) \in Seq(Batches)
    BY <1>2, TailFacts DEF auto_allocate_batches, TypeOK
  <2>2. Take(b) \in Nat /\ remaining \in Int
    BY <1>2, <2>1, AvailableNat DEF auto_allocate_batches, TypeOK, Take, Smaller
  <2>3. /\ allocated' = [allocated EXCEPT ![b] = Take(b)]
        /\ remaining' = remaining - Take(b) /\ todo' = Tail(todo)
    BY <1>2 DEF auto_allocate_batches
  <2> HIDE DEF b
  <2>4. allocated' \in [Batches -> Nat] /\ remaining' \in Int /\ todo' \in Seq(Batches)
    BY <2>1, <2>2, <2>3 DEF TypeOK
  <2>5. UNCHANGED <<stock_vars, call, input_vars, drawer_vars>>
    BY <1>2 DEF auto_allocate_batches
  <2> QED BY <2>4, <2>5 DEF TypeOK, stock_vars, input_vars, drawer_vars
<1>3. ASSUME auto_allocate_response \/ drawer_response
      PROVE  TypeOK'
  BY <1>3 DEF TypeOK, auto_allocate_response, drawer_response, stock_vars, input_vars, auto_vars,
              drawer_vars
<1>4. ASSUME NEW q \in 1 .. MaxQty, NEW cur \in Allocations, loadBatches(q, cur)
      PROVE  TypeOK'
  <2>0. \A b \in Batches : cur[b] \in Nat
    BY AllocationAssumptions
  <2>1. SumOver(Batches, cur) \in Nat
    BY <2>0, AllocationAssumptions, SumType DEF IsQty
  <2>2. q \in Nat /\ cur \in [Batches -> Nat]
    BY AllocationAssumptions
  <2> QED BY <1>4, <2>1, <2>2 DEF TypeOK, loadBatches, stock_vars, auto_vars, drawer_vars
<1>5. ASSUME get_item_batches
      PROVE  TypeOK'
  <2>1. todo' \in Orders(drawer_batches) /\ drawer_batches \in SUBSET Batches
    BY <1>5 DEF get_item_batches, sort_batches_for_drawer, drawer_batches, all_batches,
                get_available_batches
  <2>2. todo' \in Seq(Batches)
    BY <2>1, OrdersFacts
  <2> QED BY <1>5, <2>2 DEF TypeOK, get_item_batches, stock_vars, input_vars, auto_vars
<1>6. ASSUME get_limited_batches_for_drawer
      PROVE  TypeOK'
  <2> DEFINE b == Head(todo)
             w == inventory_id[b]
             qty == cumulative[w] + calc_available_qty(b)
  <2>1. b \in Batches /\ Tail(todo) \in Seq(Batches)
    BY <1>6, TailFacts DEF get_limited_batches_for_drawer, TypeOK
  <2>2. w \in Warehouses
    BY <2>1, AllocationAssumptions
  <2> HIDE DEF b, w
  <2>a. calc_available_qty(b) \in Nat
    BY <2>1, AvailableNat
  <2>b. cumulative[w] \in Nat
    BY <2>2 DEF TypeOK
  <2>3. qty \in Nat
    BY <2>a, <2>b
  <2>4. \/ /\ limited' = Append(limited, b)
           /\ cumulative' = [cumulative EXCEPT ![w] = qty]
           /\ available' = available + calc_available_qty(b)
           /\ fulfilled' = fulfilled \cup {w} \/ fulfilled' = fulfilled
        \/ UNCHANGED drawer_vars
    BY <1>6 DEF get_limited_batches_for_drawer, b, w
  <2>c. batch_groups' \in Seq(Nat)
    BY <1>6 DEF get_limited_batches_for_drawer, drawer_vars, TypeOK
  <2> HIDE DEF qty
  <2>5. /\ limited' \in Seq(Batches) /\ fulfilled' \in SUBSET Warehouses /\ available' \in Nat
        /\ cumulative' \in [Warehouses -> Nat]
    <3>1. CASE UNCHANGED drawer_vars
      BY <3>1 DEF TypeOK, drawer_vars
    <3>2. CASE ~ UNCHANGED drawer_vars
      <4>1. limited' \in Seq(Batches)
        <5>1. limited \in Seq(Batches) /\ limited' = Append(limited, b)
          BY <2>4, <3>2 DEF TypeOK
        <5> QED BY <2>1, <5>1, AppendFacts
      <4>2. fulfilled' \in SUBSET Warehouses
        BY <2>2, <2>4, <3>2 DEF TypeOK
      <4>3. available' \in Nat
        BY <2>a, <2>4, <3>2 DEF TypeOK
      <4>4. cumulative' \in [Warehouses -> Nat]
        BY <2>2, <2>3, <2>4, <3>2 DEF TypeOK
      <4> QED BY <4>1, <4>2, <4>3, <4>4
    <3> QED BY <3>1, <3>2
  <2>6. todo' \in Seq(Batches)
    BY <1>6, <2>1 DEF get_limited_batches_for_drawer
  <2> QED BY <1>6, <2>c, <2>5, <2>6
             DEF TypeOK, get_limited_batches_for_drawer, stock_vars, input_vars, auto_vars
<1>7. ASSUME assign_priority_groups
      PROVE  TypeOK'
  <2> DEFINE n == Len(batch_groups)
             id == IF n = 0 THEN 0 ELSE batch_groups[n]
  <2>1. batch_groups \in Seq(Nat) /\ id \in Nat
    BY DEF TypeOK
  <2>2. \E g \in Nat : batch_groups' = Append(batch_groups, g)
    BY <1>7, <2>1 DEF assign_priority_groups
  <2>3. batch_groups' \in Seq(Nat)
    BY <2>1, <2>2, AppendFacts
  <2> QED BY <1>7, <2>3 DEF TypeOK, assign_priority_groups, stock_vars, input_vars, auto_vars
<1>8. CASE UNCHANGED vars
  BY <1>8 DEF TypeOK, vars, stock_vars, input_vars, auto_vars, drawer_vars
<1> QED BY <1>1, <1>2, <1>3, <1>4, <1>5, <1>6, <1>7, <1>8 DEF Next

\* The rows and the loops' variables have their types.
THEOREM TypeCorrect == Spec => []TypeOK
<1>1. Init => TypeOK
  BY AllocationAssumptions DEF Init, TypeOK, NoBatch
<1>2. TypeOK /\ [Next]_vars => TypeOK'
  BY TypeStep
<1> QED BY <1>1, <1>2, PTL DEF Spec

-----------------------------------------------------------------------------
(* The orders.                                                             *)

\* The sort key puts a batch that goes first before the others.
LEMMA KeyFollowsRule ==
  ASSUME TypeOK, NEW b \in Batches, NEW c \in Batches, GoesFirst(c, b)
  PROVE  Less(AllocationKey(c), AllocationKey(b))
<1>1. /\ itembatch[b].batch_date \in 0 .. MaxDate /\ itembatch[b].expiry_date \in 0 .. MaxDate
      /\ itembatch[c].batch_date \in 0 .. MaxDate /\ itembatch[c].expiry_date \in 0 .. MaxDate
      /\ MaxDate \in Nat
  BY AvailableNat, AllocationAssumptions
<1> DEFINE k == AllocationKey(c)
           l == AllocationKey(b)
<1>2. 1 \in DOMAIN k /\ k[1] < l[1] /\ \A j \in DOMAIN k : ~ (j < 1)
  <2>1. CASE item.issuance_order = "FEFO" /\ item.can_expire_flag
    <3>1. k = <<ExpiryLast(c), BatchDateLast(c), -Available(c)>> /\ l[1] = ExpiryLast(b)
      BY <2>1 DEF AllocationKey
    <3>2. ExpiryLast(c) < ExpiryLast(b)
      BY <1>1, <2>1 DEF GoesFirst, ExpiresFirst, ExpiryLast, NULL
    <3> HIDE DEF k, l
    <3> QED BY <3>1, <3>2
  <2>2. CASE item.issuance_order = "LIFO"
    <3>1. k = <<-itembatch[c].batch_date, -Available(c)>> /\ l[1] = -itembatch[b].batch_date
      BY <2>2 DEF AllocationKey
    <3>2. -itembatch[c].batch_date < -itembatch[b].batch_date
      BY <1>1, <2>2 DEF GoesFirst, CameFirst
    <3> HIDE DEF k, l
    <3> QED BY <3>1, <3>2
  <2>3. CASE ~(item.issuance_order = "FEFO" /\ item.can_expire_flag) /\ item.issuance_order # "LIFO"
    <3>1. k = <<itembatch[c].batch_date, -Available(c)>> /\ l[1] = itembatch[b].batch_date
      BY <2>3 DEF AllocationKey
    <3>2. itembatch[c].batch_date < itembatch[b].batch_date
      BY <2>3 DEF GoesFirst, CameFirst
    <3> HIDE DEF k, l
    <3> QED BY <3>1, <3>2
  <2> QED BY <2>1, <2>2, <2>3
<1> HIDE DEF k, l
<1>3. Less(k, l)
  BY <1>2 DEF Less
<1> QED BY <1>3 DEF k, l

\* No batch goes before itself.
LEMMA NotBeforeItself ==
  ASSUME TypeOK, NEW b \in Batches
  PROVE  ~ GoesFirst(b, b)
BY AvailableNat DEF GoesFirst, ExpiresFirst, CameFirst

\* While the stock does not change, neither does what is derived from it.
LEMMA StockSame ==
  ASSUME UNCHANGED stock_vars, NEW b, NEW c
  PROVE  /\ Available(b)' = Available(b) /\ NotExpired(b)' = NotExpired(b)
         /\ GoesFirst(c, b)' = GoesFirst(c, b)
         /\ itembatch'[b] = itembatch[b]
BY DEF stock_vars, Available, NotExpired, GoesFirst, ExpiresFirst, CameFirst

-----------------------------------------------------------------------------
(* auto_allocate_batches.                                                  *)

\* b is still to be visited.
Waiting(b) == \E i \in DOMAIN todo : todo[i] = b

\* The loop's list: batches on offer, each once, none before one that goes first.
ListOK ==
  /\ \A i \in DOMAIN todo : todo[i] \in Offered(scope)
  /\ \A i, j \in DOMAIN todo : todo[i] = todo[j] => i = j
  /\ \A i, j \in DOMAIN todo : i < j => ~ GoesFirst(todo[j], todo[i])

\* What has been taken, and from which batches.
TakenOK ==
  /\ \A b \in Batches : allocated[b] <= Available(b)
  /\ \A b \in Batches : allocated[b] > 0 =>
       b \in Offered(scope) /\ ~ Waiting(b) /\ \A i \in DOMAIN todo : ~ GoesFirst(todo[i], b)
  /\ remaining > 0 => \A b \in Offered(scope) : Waiting(b) \/ allocated[b] = Available(b)
  /\ \A b, c \in Batches : allocated[b] > 0 /\ c \in Offered(scope) /\ GoesFirst(c, b) =>
       allocated[c] = Available(c)
  /\ remaining \in Nat /\ SumOver(Batches, allocated) + remaining = requested

\* The inductive invariant of the automatic allocation.
AutoInv ==
  /\ call \in {"auto", "auto_done"} => ListOK /\ TakenOK
  /\ call = "auto_done" => todo = << >> \/ remaining = 0

\* What is on offer depends on the stock only.
LEMMA OfferedSame ==
  ASSUME UNCHANGED stock_vars, NEW W
  PROVE  Offered(W)' = Offered(W) /\ Offered(W) \subseteq Batches
BY StockSame DEF Offered, get_available_batches, stock_vars, Available, NotExpired

\* The call starts with a sorted list and nothing taken.
LEMMA AutoStart ==
  ASSUME TypeOK, NEW q \in 1 .. MaxQty, NEW W \in SUBSET Warehouses, auto_allocate_item(q, W)
  PROVE  AutoInv'
<1>1. /\ todo' \in sort_batches_by_allocation_rule(get_available_batches(W))
      /\ scope' = W /\ requested' = q /\ remaining' = q /\ allocated' = NoBatch /\ call' = "auto"
      /\ UNCHANGED stock_vars
  BY DEF auto_allocate_item
<1>2. /\ todo' \in Orders(Offered(W)) /\ Offered(W) \subseteq Batches
      /\ \A i, j \in DOMAIN todo' : i < j => ~ Less(AllocationKey(todo'[j]), AllocationKey(todo'[i]))
  BY <1>1 DEF sort_batches_by_allocation_rule, Offered, get_available_batches
<1>3. /\ \A i \in DOMAIN todo' : todo'[i] \in Offered(W)
      /\ \A i, j \in DOMAIN todo' : todo'[i] = todo'[j] => i = j
      /\ \A b \in Offered(W) : \E i \in DOMAIN todo' : todo'[i] = b
  BY <1>2, OrdersFacts
<1>4. \A i, j \in DOMAIN todo' : i < j => ~ GoesFirst(todo'[j], todo'[i])
  <2> SUFFICES ASSUME NEW i \in DOMAIN todo', NEW j \in DOMAIN todo', i < j
               PROVE  ~ GoesFirst(todo'[j], todo'[i])
    OBVIOUS
  <2>1. todo'[i] \in Batches /\ todo'[j] \in Batches
    BY <1>2, <1>3
  <2> QED BY <1>2, <2>1, KeyFollowsRule
<1>5. Offered(W)' = Offered(W) /\ \A b, c \in Batches : GoesFirst(c, b)' = GoesFirst(c, b)
  BY <1>1, OfferedSame, StockSame
<1>6. ListOK'
  <2>1. (\A i, j \in DOMAIN todo : i < j => ~ GoesFirst(todo[j], todo[i]))'
    BY <1>1, <1>4 DEF GoesFirst, ExpiresFirst, CameFirst, stock_vars
  <2> QED BY <1>1, <1>3, <1>5, <2>1 DEF ListOK
<1>7. \A b \in Batches : allocated'[b] = 0 /\ Available(b)' \in Nat
  <2> TAKE b \in Batches
  <2>1. Available(b)' = Available(b) /\ Available(b) \in Nat
    BY <1>1, AvailableNat, StockSame
  <2> QED BY <1>1, <2>1 DEF NoBatch
<1>8. SumOver(Batches, allocated') = 0
  BY <1>7, SumZero
<1>9. TakenOK'
  <2>1. q \in Nat
    BY AllocationAssumptions
  <2> QED BY <1>1, <1>3, <1>5, <1>7, <1>8, <2>1 DEF TakenOK, Waiting
<1> QED BY <1>1, <1>6, <1>9 DEF AutoInv

\* An iteration takes from the next batch what it has, or what is still needed.
LEMMA AutoLoop ==
  ASSUME TypeOK, AutoInv, auto_allocate_batches
  PROVE  AutoInv'
<1> DEFINE h == Head(todo)
           n == Take(h)
<1>1. /\ call = "auto" /\ todo # << >> /\ remaining > 0
      /\ allocated' = [allocated EXCEPT ![h] = n] /\ remaining' = remaining - n /\ todo' = Tail(todo)
      /\ UNCHANGED <<call, scope, requested>> /\ UNCHANGED stock_vars
  BY DEF auto_allocate_batches, input_vars
<1>2. ListOK /\ TakenOK /\ todo \in Seq(Batches) /\ allocated \in [Batches -> Nat]
  BY <1>1 DEF AutoInv, TypeOK
<1>3. /\ h = todo[1] /\ h \in Batches /\ 1 \in DOMAIN todo
      /\ \A i \in DOMAIN todo' : i + 1 \in DOMAIN todo /\ todo'[i] = todo[i + 1] /\ i \in Nat /\ i > 0
      /\ \A i \in DOMAIN todo : i # 1 => i - 1 \in DOMAIN todo' /\ todo'[i - 1] = todo[i]
  BY <1>1, <1>2, TailFacts
<1>4. n \in Nat /\ Available(h) \in Nat /\ remaining \in Nat /\ n <= Available(h) /\ n <= remaining
      /\ (remaining - n > 0 => n = Available(h))
  BY <1>2, <1>3, AvailableNat DEF TakenOK, Take, Smaller
<1> HIDE DEF h, n
<1>5. /\ Offered(scope)' = Offered(scope) /\ Offered(scope) \subseteq Batches
      /\ \A b, c \in Batches : GoesFirst(c, b)' = GoesFirst(c, b)
      /\ \A b \in Batches : Available(b)' = Available(b) /\ Available(b) \in Nat
  <2>1. Offered(scope)' = Offered(scope) /\ Offered(scope) \subseteq Batches
    BY <1>1, OfferedSame DEF Offered, get_available_batches, stock_vars, Available, NotExpired
  <2> QED BY <1>1, <2>1, StockSame, AvailableNat
<1>6. h \in Offered(scope) /\ allocated[h] = 0
  <2>1. h \in Offered(scope) /\ Waiting(h)
    BY <1>2, <1>3 DEF ListOK, Waiting
  <2> QED BY <1>2, <1>3, <2>1 DEF TakenOK
<1>7. \A i \in DOMAIN todo' : todo'[i] \in Offered(scope) /\ todo'[i] # h /\ ~ GoesFirst(todo'[i], h)
  <2> TAKE i \in DOMAIN todo'
  <2>1. i + 1 \in DOMAIN todo /\ todo'[i] = todo[i + 1] /\ i + 1 # 1 /\ 1 < i + 1
    BY <1>3
  <2> QED BY <1>2, <1>3, <2>1 DEF ListOK
<1>8. ListOK'
  <2>1. \A i, j \in DOMAIN todo' : todo'[i] = todo'[j] => i = j
    <3> TAKE i, j \in DOMAIN todo'
    <3>1. /\ i + 1 \in DOMAIN todo /\ todo'[i] = todo[i + 1] /\ i \in Nat
          /\ j + 1 \in DOMAIN todo /\ todo'[j] = todo[j + 1] /\ j \in Nat
      BY <1>3
    <3>2. todo'[i] = todo'[j] => i + 1 = j + 1
      BY <1>2, <3>1 DEF ListOK
    <3> QED BY <3>1, <3>2
  <2>2. \A i, j \in DOMAIN todo' : i < j => ~ GoesFirst(todo'[j], todo'[i])
    <3> TAKE i, j \in DOMAIN todo'
    <3>1. /\ i + 1 \in DOMAIN todo /\ todo'[i] = todo[i + 1] /\ i \in Nat
          /\ j + 1 \in DOMAIN todo /\ todo'[j] = todo[j + 1] /\ j \in Nat
      BY <1>3
    <3>2. i < j => i + 1 < j + 1
      BY <3>1
    <3> QED BY <1>2, <3>1, <3>2 DEF ListOK
  <2>3. (\A i, j \in DOMAIN todo : i < j => ~ GoesFirst(todo[j], todo[i]))'
    BY <1>1, <2>2 DEF GoesFirst, ExpiresFirst, CameFirst, stock_vars
  <2> QED BY <1>1, <1>5, <1>7, <2>1, <2>3 DEF ListOK
<1>9. \A b \in Batches : /\ b = h => allocated'[b] = n
                         /\ b # h => allocated'[b] = allocated[b]
                         /\ allocated'[b] \in Nat
  BY <1>1, <1>2, <1>3, <1>4
<1>10. \A b \in Batches : Waiting(b) => b = h \/ \E i \in DOMAIN todo' : todo'[i] = b
  BY <1>3 DEF Waiting
<1>11. TakenOK'
  <2>1. (\A b \in Batches : allocated[b] <= Available(b))'
    BY <1>2, <1>4, <1>5, <1>9 DEF TakenOK
  <2>2. \A b \in Batches : allocated'[b] > 0 =>
          b \in Offered(scope) /\ \A i \in DOMAIN todo' : todo'[i] # b /\ ~ GoesFirst(todo'[i], b)
    <3> SUFFICES ASSUME NEW b \in Batches, allocated'[b] > 0, b # h
                 PROVE  /\ b \in Offered(scope)
                        /\ \A i \in DOMAIN todo' : todo'[i] # b /\ ~ GoesFirst(todo'[i], b)
      BY <1>6, <1>7
    <3>1. b \in Offered(scope) /\ ~ Waiting(b) /\ \A i \in DOMAIN todo : ~ GoesFirst(todo[i], b)
      BY <1>2, <1>9 DEF TakenOK
    <3> QED BY <1>3, <3>1 DEF Waiting
  <2>3. (\A b \in Batches : allocated[b] > 0 =>
           b \in Offered(scope) /\ ~ Waiting(b) /\ \A i \in DOMAIN todo : ~ GoesFirst(todo[i], b))'
    <3>1. \A b \in Batches : allocated'[b] > 0 =>
            b \in Offered(scope) /\ \A i \in DOMAIN todo' : todo'[i] # b
      BY <2>2
    <3>2. (\A b \in Batches : allocated[b] > 0 => \A i \in DOMAIN todo : ~ GoesFirst(todo[i], b))'
      BY <1>1, <2>2 DEF GoesFirst, ExpiresFirst, CameFirst, stock_vars
    <3> QED BY <1>5, <3>1, <3>2 DEF Waiting
  <2>4. (remaining > 0 => \A b \in Offered(scope) : Waiting(b) \/ allocated[b] = Available(b))'
    <3> SUFFICES ASSUME remaining' > 0, NEW b \in Offered(scope)
                 PROVE  (\E i \in DOMAIN todo' : todo'[i] = b) \/ allocated'[b] = Available(b)
      BY <1>5 DEF Waiting
    <3>1. CASE b = h
      BY <1>1, <1>3, <1>4, <1>9, <3>1
    <3>2. CASE b # h
      BY <1>1, <1>2, <1>5, <1>9, <1>10, <3>2 DEF TakenOK
    <3> QED BY <3>1, <3>2
  <2>5. \A b, c \in Batches : allocated'[b] > 0 /\ c \in Offered(scope) /\ GoesFirst(c, b) =>
          allocated'[c] = Available(c)
    <3> SUFFICES ASSUME NEW b \in Batches, NEW c \in Batches,
                        allocated'[b] > 0, c \in Offered(scope), GoesFirst(c, b)
                 PROVE  allocated'[c] = Available(c)
      OBVIOUS
    <3>1. b # c
      BY NotBeforeItself
    <3>2. ~ Waiting(c)
      <4>1. CASE b = h
        BY <1>7, <1>10, <3>1, <4>1
      <4>2. CASE b # h
        BY <1>2, <1>9, <4>2 DEF TakenOK, Waiting
      <4> QED BY <4>1, <4>2
    <3>3. c # h
      BY <1>3, <3>2 DEF Waiting
    <3> QED BY <1>1, <1>2, <1>9, <3>2, <3>3 DEF TakenOK
  <2>6. (\A b, c \in Batches : allocated[b] > 0 /\ c \in Offered(scope) /\ GoesFirst(c, b) =>
           allocated[c] = Available(c))'
    BY <1>5, <2>5
  <2>7. (remaining \in Nat /\ SumOver(Batches, allocated) + remaining = requested)'
    <3>1. /\ IsQty(Batches, allocated) /\ IsQty(Batches, allocated') /\ IsFiniteSet(Batches)
          /\ \A b \in Batches \ {h} : allocated[b] = allocated'[b]
      BY <1>2, <1>9, AllocationAssumptions DEF IsQty
    <3>2. SumOver(Batches, allocated') = SumOver(Batches, allocated) - allocated[h] + allocated'[h]
      BY <1>3, <3>1, SumUpdate
    <3>3. SumOver(Batches, allocated) \in Nat /\ SumOver(Batches, allocated) + remaining = requested
      BY <1>2, <3>1, SumType DEF TakenOK
    <3> QED BY <1>1, <1>3, <1>4, <1>6, <1>9, <3>2, <3>3
  <2> QED BY <2>1, <2>3, <2>4, <2>6, <2>7 DEF TakenOK
<1> QED BY <1>1, <1>8, <1>11 DEF AutoInv

\* Every step keeps the invariant of the automatic allocation.
LEMMA AutoStep ==
  ASSUME TypeOK, AutoInv, [Next]_vars
  PROVE  AutoInv'
<1>1. ASSUME NEW q \in 1 .. MaxQty, NEW W \in {Warehouses} \cup {{w} : w \in Warehouses},
             auto_allocate_item(q, W)
      PROVE  AutoInv'
  <2>1. W \in SUBSET Warehouses
    OBVIOUS
  <2> QED BY <1>1, <2>1, AutoStart
<1>2. CASE auto_allocate_batches
  BY <1>2, AutoLoop
<1>3. CASE auto_allocate_response \/ UNCHANGED vars
  <2>1. /\ UNCHANGED <<itembatch, item, scope, requested, todo, remaining, allocated>>
        /\ \/ call' = call
           \/ call = "auto" /\ call' = "auto_done" /\ (todo = << >> \/ remaining <= 0)
    BY <1>3 DEF auto_allocate_response, vars, stock_vars, input_vars, auto_vars
  <2>2. Offered(scope)' = Offered(scope)
    BY <2>1 DEF Offered, get_available_batches, Available, NotExpired
  <2>3. ListOK => ListOK'
    BY <2>1, <2>2 DEF ListOK, GoesFirst, ExpiresFirst, CameFirst
  <2>4. TakenOK => TakenOK'
    BY <2>1, <2>2 DEF TakenOK, Waiting, Available, GoesFirst, ExpiresFirst, CameFirst
  <2>5. TakenOK => remaining \in Nat
    BY DEF TakenOK
  <2> QED BY <2>1, <2>3, <2>4, <2>5 DEF AutoInv
<1>4. ASSUME \/ \E q \in 1 .. MaxQty, cur \in Allocations : loadBatches(q, cur)
             \/ get_item_batches \/ get_limited_batches_for_drawer \/ assign_priority_groups
             \/ drawer_response
      PROVE  AutoInv'
  <2>1. call' \in {"load", "drawer", "drawer_done"}
    BY <1>4 DEF loadBatches, get_item_batches, get_limited_batches_for_drawer,
                assign_priority_groups, drawer_response
  <2> QED BY <2>1 DEF AutoInv
<1> QED BY <1>1, <1>2, <1>3, <1>4 DEF Next

\* The types and the invariant of the automatic allocation hold throughout.
THEOREM AutoInvariance == Spec => [](TypeOK /\ AutoInv)
<1>1. Init => TypeOK /\ AutoInv
  BY AllocationAssumptions DEF Init, TypeOK, NoBatch, AutoInv
<1>2. TypeOK /\ AutoInv /\ [Next]_vars => TypeOK' /\ AutoInv'
  BY TypeStep, AutoStep
<1> QED BY <1>1, <1>2, PTL DEF Spec

\* A batch that may be used and has something left is on offer.
LEMMA UsableIsOffered ==
  ASSUME TypeOK, NEW W, NEW b \in Usable(W)
  PROVE  b \in Batches /\ Available(b) \in Nat /\ (Available(b) = 0 \/ b \in Offered(W))
<1>1. b \in Batches /\ Available(b) \in Nat
  BY AvailableNat DEF Usable
<1> QED BY <1>1 DEF Usable, Offered, get_available_batches

\* auto_allocate_batches keeps to FEFO, FIFO or LIFO, whatever the stock.
THEOREM AllocationInOrder == Spec => []AllocationFollowsRule
<1>1. TypeOK /\ AutoInv => AllocationFollowsRule
  <2> SUFFICES ASSUME TypeOK, AutoInv, call \in {"auto", "auto_done"},
                      NEW b \in Batches, NEW c \in Usable(scope), allocated[b] > 0, GoesFirst(c, b)
               PROVE  allocated[c] = Available(c)
    BY DEF AllocationFollowsRule
  <2>1. TakenOK /\ c \in Batches /\ allocated[c] \in Nat
    BY UsableIsOffered DEF AutoInv, TypeOK
  <2>2. CASE Available(c) = 0
    BY <2>1, <2>2 DEF TakenOK
  <2>3. CASE c \in Offered(scope)
    BY <2>1, <2>3 DEF TakenOK
  <2> QED BY <2>2, <2>3, UsableIsOffered
<1> QED BY <1>1, AutoInvariance, PTL

\* A shortage is reported only when nothing that may be used is left.
THEOREM ShortagesAreReal == Spec => []ShortageIsReal
<1>1. TypeOK /\ AutoInv => ShortageIsReal
  <2> SUFFICES ASSUME TypeOK, AutoInv, call = "auto_done", remaining > 0, NEW b \in Usable(scope)
               PROVE  allocated[b] = Available(b)
    BY DEF ShortageIsReal, shortage
  <2>1. TakenOK /\ b \in Batches /\ allocated[b] \in Nat
    BY UsableIsOffered DEF AutoInv, TypeOK
  <2>2. todo = << >>
    BY <2>1 DEF AutoInv, TakenOK
  <2>3. ~ Waiting(b)
    BY <2>2 DEF Waiting
  <2>4. CASE Available(b) = 0
    BY <2>1, <2>4 DEF TakenOK
  <2>5. CASE b \in Offered(scope)
    BY <2>1, <2>3, <2>5 DEF TakenOK
  <2> QED BY <2>4, <2>5, UsableIsOffered
<1> QED BY <1>1, AutoInvariance, PTL

\* The allocations and the shortage add up to what auto_allocate_item was asked for.
THEOREM NothingMislaid == Spec => []AllocationAddsUp
<1>1. AutoInv => AllocationAddsUp
  BY DEF AutoInv, TakenOK, AllocationAddsUp
<1> QED BY <1>1, AutoInvariance, PTL

\* validate_batch_allocation refuses no allocation that auto_allocate_batches offers,
\* expired batches of items that are said not to expire excepted.
THEOREM OffersAccepted == Spec => []OffersAreAccepted
<1>1. TypeOK /\ AutoInv => OffersAreAccepted
  <2> SUFFICES ASSUME TypeOK, AutoInv, call = "auto_done", NEW b \in Batches, allocated[b] > 0,
                      item.can_expire_flag \/ itembatch[b].expiry_date = NULL
               PROVE  validate_batch_allocation(b, allocated[b], 0)
    BY DEF OffersAreAccepted
  <2>1. b \in Offered(scope) /\ allocated[b] <= Available(b)
    BY DEF AutoInv, TakenOK
  <2>2. itembatch[b].active /\ NotExpired(b)
    BY <2>1 DEF Offered, get_available_batches
  <2>3. itembatch[b].usable_qty \in Nat /\ itembatch[b].reserved_qty \in Nat
    BY AvailableNat
  <2> QED BY <2>1, <2>2, <2>3 DEF validate_batch_allocation, NotExpired, Available
<1> QED BY <1>1, AutoInvariance, PTL

-----------------------------------------------------------------------------
(* get_limited_batches_for_drawer.                                         *)

\* The drawer's order within a warehouse.
DrawerFirst(c, b) == IF item.can_expire_flag THEN ExpiresFirst(c, b) ELSE CameFirst(c, b)

\* What the drawer shows of the warehouse w, and how much that is.
Shown(w) == {c \in Batches : InDrawer(c) /\ inventory_id[c] = w}
DrawerQty == [c \in Batches |-> calc_available_qty(c)]

\* The loop's list: batches of the drawer not yet shown, each once and in order.
DrawerListOK ==
  /\ \A i \in DOMAIN todo : todo[i] \in drawer_batches /\ ~ InDrawer(todo[i])
  /\ \A i, j \in DOMAIN todo : todo[i] = todo[j] => i = j
  /\ \A i, j \in DOMAIN todo : i < j /\ inventory_id[todo[i]] = inventory_id[todo[j]] =>
       ~ DrawerFirst(todo[j], todo[i])

\* What is shown, what is hidden and how much it adds up to.
ShownOK ==
  /\ \A b \in drawer_batches :
       Waiting(b) \/ InDrawer(b) \/ (~ is_allocated(b) /\ inventory_id[b] \in fulfilled)
  /\ \A b \in Batches, c \in drawer_batches :
       /\ InDrawer(b) /\ ~ is_allocated(b)
       /\ inventory_id[c] = inventory_id[b] /\ DrawerFirst(c, b)
       => InDrawer(c)
  /\ \A w \in Warehouses : /\ cumulative[w] = SumOver(Shown(w), DrawerQty)
                           /\ cumulative[w] <= available
                           /\ w \in fulfilled => cumulative[w] >= remaining

\* The inductive invariant of the drawer.
DrawerInv ==
  /\ call \in {"drawer", "drawer_done"} => DrawerListOK /\ ShownOK
  /\ call = "drawer_done" => todo = << >>

\* The drawer's sort key follows its order.
LEMMA DrawerKeyFollowsOrder ==
  ASSUME TypeOK, NEW b \in Batches, NEW c \in Batches, DrawerFirst(c, b)
  PROVE  Less(DrawerKey(c), DrawerKey(b))
<1>1. /\ itembatch[b].batch_date \in 0 .. MaxDate /\ itembatch[b].expiry_date \in 0 .. MaxDate
      /\ itembatch[c].batch_date \in 0 .. MaxDate /\ itembatch[c].expiry_date \in 0 .. MaxDate
      /\ MaxDate \in Nat
  BY AvailableNat, AllocationAssumptions
<1> DEFINE k == DrawerKey(c)
           l == DrawerKey(b)
<1>2. 1 \in DOMAIN k /\ k[1] < l[1] /\ \A j \in DOMAIN k : ~ (j < 1)
  <2>1. CASE item.can_expire_flag
    <3>1. k = <<ExpiryLast(c), BatchDateLast(c)>> /\ l[1] = ExpiryLast(b)
      BY <2>1 DEF DrawerKey
    <3>2. ExpiryLast(c) < ExpiryLast(b)
      BY <1>1, <2>1 DEF DrawerFirst, ExpiresFirst, ExpiryLast, NULL
    <3> HIDE DEF k, l
    <3> QED BY <3>1, <3>2
  <2>2. CASE ~ item.can_expire_flag
    <3>1. k = <<itembatch[c].batch_date>> /\ l[1] = itembatch[b].batch_date
      BY <2>2 DEF DrawerKey
    <3>2. itembatch[c].batch_date < itembatch[b].batch_date
      BY <2>2 DEF DrawerFirst, CameFirst
    <3> HIDE DEF k, l
    <3> QED BY <3>1, <3>2
  <2> QED BY <2>1, <2>2
<1> HIDE DEF k, l
<1>3. Less(k, l)
  BY <1>2 DEF Less
<1> QED BY <1>3 DEF k, l

\* What the drawer is made from does not change while it is put together.
LEMMA DrawerSame ==
  ASSUME UNCHANGED stock_vars, UNCHANGED current
  PROVE  /\ drawer_batches' = drawer_batches /\ drawer_batches \subseteq Batches
         /\ DrawerQty' = DrawerQty
         /\ \A b : is_allocated(b)' = is_allocated(b)
         /\ \A b, c : DrawerFirst(c, b)' = DrawerFirst(c, b)
<1>1. drawer_batches' = drawer_batches /\ drawer_batches \subseteq Batches
  BY DEF stock_vars, drawer_batches, all_batches, get_available_batches, Available, NotExpired,
         calc_available_qty, is_allocated
<1> QED BY <1>1 DEF stock_vars, DrawerQty, calc_available_qty, is_allocated, DrawerFirst,
                    ExpiresFirst, CameFirst

\* The sums that the drawer keeps are natural numbers.
LEMMA ShownQty ==
  ASSUME TypeOK, NEW S \in SUBSET Batches
  PROVE  IsFiniteSet(S) /\ IsQty(S, DrawerQty) /\ SumOver(S, DrawerQty) \in Nat
<1>1. IsFiniteSet(S)
  BY AllocationAssumptions, FS_Subset
<1>2. \A c \in S : DrawerQty[c] = calc_available_qty(c) /\ calc_available_qty(c) \in Nat
  BY AvailableNat DEF DrawerQty
<1>3. IsQty(S, DrawerQty)
  BY <1>2 DEF IsQty
<1> QED BY <1>1, <1>3, SumType

\* The drawer starts empty, with every batch still to be visited.
LEMMA DrawerStart ==
  ASSUME TypeOK, get_item_batches
  PROVE  DrawerInv'
<1>1. /\ todo' \in sort_batches_for_drawer(drawer_batches) /\ call' = "drawer"
      /\ limited' = << >> /\ fulfilled' = {} /\ cumulative' = [w \in Warehouses |-> 0]
      /\ available' = 0 /\ UNCHANGED stock_vars /\ UNCHANGED current
  BY DEF get_item_batches, input_vars
<1>2. /\ drawer_batches' = drawer_batches /\ drawer_batches \subseteq Batches
      /\ DrawerQty' = DrawerQty
  BY <1>1, DrawerSame
<1>3. /\ todo' \in Orders(drawer_batches)
      /\ \A i, j \in DOMAIN todo' : i < j /\ inventory_id[todo'[i]] = inventory_id[todo'[j]] =>
           ~ Less(DrawerKey(todo'[j]), DrawerKey(todo'[i]))
  BY <1>1 DEF sort_batches_for_drawer
<1>4. /\ \A i \in DOMAIN todo' : todo'[i] \in drawer_batches
      /\ \A i, j \in DOMAIN todo' : todo'[i] = todo'[j] => i = j
      /\ \A b \in drawer_batches : \E i \in DOMAIN todo' : todo'[i] = b
  BY <1>2, <1>3, OrdersFacts
<1>5. \A i, j \in DOMAIN todo' : i < j /\ inventory_id[todo'[i]] = inventory_id[todo'[j]] =>
        ~ DrawerFirst(todo'[j], todo'[i])
  <2> TAKE i, j \in DOMAIN todo'
  <2>1. todo'[i] \in Batches /\ todo'[j] \in Batches
    BY <1>2, <1>4
  <2> QED BY <1>3, <2>1, DrawerKeyFollowsOrder
<1>6. (\A i, j \in DOMAIN todo : i < j /\ inventory_id[todo[i]] = inventory_id[todo[j]] =>
         ~ DrawerFirst(todo[j], todo[i]))'
  BY <1>1, <1>5 DEF DrawerFirst, ExpiresFirst, CameFirst, stock_vars
<1>7. (\A b : ~ InDrawer(b))'
  BY <1>1 DEF InDrawer
<1>8. DrawerListOK'
  BY <1>2, <1>4, <1>6, <1>7 DEF DrawerListOK
<1>9. ShownOK'
  <2>1. \A w \in Warehouses : Shown(w)' = {}
    BY <1>7 DEF Shown
  <2>2. \A w \in Warehouses : SumOver(Shown(w)', DrawerQty) = 0
    BY <2>1, SumZero
  <2>3. \A w \in Warehouses : (cumulative[w] = SumOver(Shown(w), DrawerQty))'
    BY <1>1, <1>2, <2>2
  <2>4. \A b \in drawer_batches' : Waiting(b)'
    BY <1>2, <1>4 DEF Waiting
  <2>5. \A w \in Warehouses : (cumulative[w] <= available /\ w \notin fulfilled)'
    BY <1>1
  <2> QED BY <1>7, <2>3, <2>4, <2>5 DEF ShownOK
<1> QED BY <1>1, <1>8, <1>9 DEF DrawerInv

\* An iteration shows the next batch or hides it.
LEMMA DrawerLoop ==
  ASSUME TypeOK, DrawerInv, get_limited_batches_for_drawer
  PROVE  DrawerInv'
<1> DEFINE h == Head(todo)
           v == inventory_id[h]
           n == calc_available_qty(h)
<1>1. /\ call = "drawer" /\ todo # << >> /\ todo' = Tail(todo)
      /\ UNCHANGED <<call, remaining>> /\ UNCHANGED stock_vars /\ UNCHANGED current
  BY DEF get_limited_batches_for_drawer, input_vars
<1>2. /\ DrawerListOK /\ ShownOK /\ todo \in Seq(Batches) /\ limited \in Seq(Batches)
      /\ cumulative \in [Warehouses -> Nat] /\ available \in Nat /\ remaining \in Int
  BY <1>1 DEF DrawerInv, TypeOK
<1>3. /\ h = todo[1] /\ h \in Batches /\ 1 \in DOMAIN todo
      /\ \A i \in DOMAIN todo' : i + 1 \in DOMAIN todo /\ todo'[i] = todo[i + 1] /\ i \in Nat /\ i > 0
      /\ \A i \in DOMAIN todo : i # 1 => i - 1 \in DOMAIN todo' /\ todo'[i - 1] = todo[i]
  BY <1>1, <1>2, TailFacts
<1>4. v \in Warehouses /\ n \in Nat
  BY <1>3, AvailableNat, AllocationAssumptions
<1>5. IF is_allocated(h) \/ v \notin fulfilled
      THEN /\ limited' = Append(limited, h)
           /\ cumulative' = [cumulative EXCEPT ![v] = cumulative[v] + n]
           /\ available' = available + n
           /\ fulfilled' = IF cumulative[v] + n >= remaining THEN fulfilled \cup {v} ELSE fulfilled
      ELSE UNCHANGED <<limited, fulfilled, cumulative, available>>
  BY DEF get_limited_batches_for_drawer, Shows, drawer_vars
<1> HIDE DEF h, v, n
<1>6. /\ drawer_batches' = drawer_batches /\ drawer_batches \subseteq Batches
      /\ DrawerQty' = DrawerQty
      /\ \A b : is_allocated(b)' = is_allocated(b)
      /\ \A b, c : DrawerFirst(c, b)' = DrawerFirst(c, b)
  BY <1>1, DrawerSame
<1>7. h \in drawer_batches /\ ~ InDrawer(h)
  BY <1>2, <1>3 DEF DrawerListOK
<1>8. \A i \in DOMAIN todo' : /\ todo'[i] \in drawer_batches /\ todo'[i] # h /\ ~ InDrawer(todo'[i])
                              /\ inventory_id[todo'[i]] = v => ~ DrawerFirst(todo'[i], h)
  <2> TAKE i \in DOMAIN todo'
  <2>1. i + 1 \in DOMAIN todo /\ todo'[i] = todo[i + 1] /\ i + 1 # 1 /\ 1 < i + 1
    BY <1>3
  <2> QED BY <1>2, <1>3, <2>1 DEF DrawerListOK, v
<1>9. \A b \in Batches : Waiting(b) => b = h \/ \E i \in DOMAIN todo' : todo'[i] = b
  BY <1>3 DEF Waiting
<1>10. /\ \A i, j \in DOMAIN todo' : todo'[i] = todo'[j] => i = j
       /\ (\A i, j \in DOMAIN todo : i < j /\ inventory_id[todo[i]] = inventory_id[todo[j]] =>
             ~ DrawerFirst(todo[j], todo[i]))'
  <2>1. ASSUME NEW i \in DOMAIN todo', NEW j \in DOMAIN todo'
        PROVE  /\ todo'[i] = todo'[j] => i = j
               /\ i < j /\ inventory_id[todo'[i]] = inventory_id[todo'[j]] =>
                    ~ DrawerFirst(todo'[j], todo'[i])
    <3>1. /\ i + 1 \in DOMAIN todo /\ todo'[i] = todo[i + 1] /\ i \in Nat
          /\ j + 1 \in DOMAIN todo /\ todo'[j] = todo[j + 1] /\ j \in Nat
      BY <1>3
    <3>2. todo'[i] = todo'[j] => i + 1 = j + 1
      BY <1>2, <3>1 DEF DrawerListOK
    <3>3. i < j => i + 1 < j + 1
      BY <3>1
    <3> QED BY <1>2, <3>1, <3>2, <3>3 DEF DrawerListOK
  <2>2. (\A i, j \in DOMAIN todo : i < j /\ inventory_id[todo[i]] = inventory_id[todo[j]] =>
           ~ DrawerFirst(todo[j], todo[i]))'
    BY <1>1, <2>1 DEF DrawerFirst, ExpiresFirst, CameFirst, stock_vars
  <2> QED BY <2>1, <2>2
<1>11. CASE is_allocated(h) \/ v \notin fulfilled
  <2>1. /\ limited' = Append(limited, h)
        /\ cumulative' = [cumulative EXCEPT ![v] = cumulative[v] + n]
        /\ available' = available + n
        /\ fulfilled' = IF cumulative[v] + n >= remaining THEN fulfilled \cup {v} ELSE fulfilled
    BY <1>5, <1>11
  <2>2. \A b : InDrawer(b)' <=> b = h \/ InDrawer(b)
    <3>1. limited \in Seq(Batches) /\ h \in Batches
      BY <1>2, <1>3
    <3>2. \A b : Holds(Append(limited, h), b) <=> b = h \/ Holds(limited, b)
      BY <3>1, AppendFacts
    <3>3. limited' = Append(limited, h)
      BY <2>1
    <3> QED BY <3>2, <3>3 DEF InDrawer, Holds
  <2>3. DrawerListOK'
    <3>1. (\A i \in DOMAIN todo : todo[i] \in drawer_batches /\ ~ InDrawer(todo[i]))'
      <4>1. \A i \in DOMAIN todo' : todo'[i] \in drawer_batches'
        BY <1>6, <1>8
      <4>2. (\A i \in DOMAIN todo : ~ InDrawer(todo[i]))'
        <5>1. \A i \in DOMAIN todo' : ~ \E k \in DOMAIN limited' : limited'[k] = todo'[i]
          BY <1>8, <2>2 DEF InDrawer
        <5> QED BY <5>1 DEF InDrawer
      <4> QED BY <4>1, <4>2
    <3> QED BY <1>10, <3>1 DEF DrawerListOK
  <2>4. (\A b \in drawer_batches :
           Waiting(b) \/ InDrawer(b) \/ (~ is_allocated(b) /\ inventory_id[b] \in fulfilled))'
    <3> SUFFICES ASSUME NEW b \in drawer_batches
                 PROVE  \/ \E i \in DOMAIN todo' : todo'[i] = b
                        \/ b = h \/ InDrawer(b)
                        \/ ~ is_allocated(b) /\ inventory_id[b] \in fulfilled'
      BY <1>6, <2>2 DEF Waiting
    <3>1. fulfilled \subseteq fulfilled'
      BY <2>1
    <3> QED BY <1>2, <1>6, <1>9, <3>1 DEF ShownOK
  <2>5. (\A b \in Batches, c \in drawer_batches :
           /\ InDrawer(b) /\ ~ is_allocated(b)
           /\ inventory_id[c] = inventory_id[b] /\ DrawerFirst(c, b)
           => InDrawer(c))'
    <3> SUFFICES ASSUME NEW b \in Batches, NEW c \in drawer_batches,
                        b = h \/ InDrawer(b), ~ is_allocated(b),
                        inventory_id[c] = inventory_id[b], DrawerFirst(c, b)
                 PROVE  c = h \/ InDrawer(c)
      BY <1>6, <2>2
    <3>1. CASE InDrawer(b)
      BY <1>2, <3>1 DEF ShownOK
    <3>2. CASE b = h
      <4>1. inventory_id[c] = v /\ v \notin fulfilled
        BY <1>11, <3>2 DEF v
      <4>2. Waiting(c) \/ InDrawer(c)
        BY <1>2, <4>1 DEF ShownOK
      <4> QED BY <1>6, <1>8, <1>9, <3>2, <4>1, <4>2
    <3> QED BY <3>1, <3>2
  <2>6. ASSUME NEW w \in Warehouses
        PROVE  (/\ cumulative[w] = SumOver(Shown(w), DrawerQty)
                /\ cumulative[w] <= available
                /\ w \in fulfilled => cumulative[w] >= remaining)'
    <3>1. /\ cumulative[w] \in Nat /\ cumulative[v] \in Nat /\ cumulative[w] <= available
          /\ cumulative[v] <= available
          /\ cumulative[w] = SumOver(Shown(w), DrawerQty)
          /\ w \in fulfilled => cumulative[w] >= remaining
      BY <1>2, <1>4 DEF ShownOK
    <3>2. CASE w = v
      <4>1. Shown(w)' = Shown(w) \cup {h} /\ h \notin Shown(w)
        BY <1>3, <1>7, <2>2, <3>2 DEF Shown, v
      <4> DEFINE S == Shown(w) \cup {h}
      <4>2. S \in SUBSET Batches /\ h \in S /\ S \ {h} = Shown(w)
        BY <1>3, <4>1 DEF Shown
      <4> HIDE DEF S
      <4>3. SumOver(S, DrawerQty) = SumOver(S \ {h}, DrawerQty) + DrawerQty[h]
        BY <4>2, ShownQty, SumSplit
      <4>4. DrawerQty[h] = n
        BY <1>3 DEF DrawerQty, n
      <4>5. Shown(w)' = S
        BY <4>1 DEF S
      <4>6. cumulative'[w] = cumulative[w] + n
        BY <1>2, <1>4, <2>1, <3>2
      <4>7. (cumulative[w] = SumOver(Shown(w), DrawerQty))'
        BY <1>6, <3>1, <4>2, <4>3, <4>4, <4>5, <4>6
      <4>8. cumulative'[w] <= available'
        BY <1>2, <1>4, <2>1, <3>1, <4>6
      <4>9. w \in fulfilled' => cumulative'[w] >= remaining
        BY <1>2, <1>4, <2>1, <3>1, <3>2, <4>6
      <4> QED BY <1>1, <4>7, <4>8, <4>9
    <3>3. CASE w # v
      <4>1. Shown(w)' = Shown(w)
        BY <2>2, <3>3 DEF Shown, v
      <4>2. cumulative'[w] = cumulative[w] /\ (w \in fulfilled' => w \in fulfilled)
        BY <1>2, <2>1, <3>3
      <4>3. cumulative'[w] <= available'
        BY <1>2, <1>4, <2>1, <3>1, <4>2
      <4> QED BY <1>1, <1>6, <3>1, <4>1, <4>2, <4>3
    <3> QED BY <3>2, <3>3
  <2>7. ShownOK'
    BY <2>4, <2>5, <2>6 DEF ShownOK
  <2> QED BY <1>1, <2>3, <2>7 DEF DrawerInv
<1>12. CASE ~ is_allocated(h) /\ v \in fulfilled
  <2>1. UNCHANGED <<limited, fulfilled, cumulative, available>>
    BY <1>5, <1>12
  <2>2. \A b : InDrawer(b)' = InDrawer(b)
    BY <2>1 DEF InDrawer
  <2>3. DrawerListOK'
    <3>1. (\A i \in DOMAIN todo : todo[i] \in drawer_batches)'
      BY <1>6, <1>8
    <3>2. (\A i \in DOMAIN todo : ~ InDrawer(todo[i]))'
      BY <1>8, <2>1 DEF InDrawer
    <3> QED BY <1>10, <3>1, <3>2 DEF DrawerListOK
  <2>4. (\A b \in drawer_batches :
           Waiting(b) \/ InDrawer(b) \/ (~ is_allocated(b) /\ inventory_id[b] \in fulfilled))'
    <3> SUFFICES ASSUME NEW b \in drawer_batches
                 PROVE  \/ \E i \in DOMAIN todo' : todo'[i] = b
                        \/ InDrawer(b)
                        \/ ~ is_allocated(b) /\ inventory_id[b] \in fulfilled
      BY <1>6, <2>1, <2>2 DEF Waiting
    <3> QED BY <1>2, <1>6, <1>9, <1>12 DEF ShownOK, v
  <2>5. (\A b \in Batches, c \in drawer_batches :
           /\ InDrawer(b) /\ ~ is_allocated(b)
           /\ inventory_id[c] = inventory_id[b] /\ DrawerFirst(c, b)
           => InDrawer(c))'
    BY <1>2, <1>6, <2>2 DEF ShownOK
  <2>6. \A w \in Warehouses : Shown(w)' = Shown(w)
    BY <2>2 DEF Shown
  <2>7. (\A w \in Warehouses : /\ cumulative[w] = SumOver(Shown(w), DrawerQty)
                               /\ cumulative[w] <= available
                               /\ w \in fulfilled => cumulative[w] >= remaining)'
    BY <1>1, <1>2, <1>6, <2>1, <2>6 DEF ShownOK
  <2>8. ShownOK'
    BY <2>4, <2>5, <2>7 DEF ShownOK
  <2> QED BY <1>1, <2>3, <2>8 DEF DrawerInv
<1> QED BY <1>11, <1>12

\* Every step keeps the invariant of the drawer.
LEMMA DrawerStep ==
  ASSUME TypeOK, DrawerInv, [Next]_vars
  PROVE  DrawerInv'
<1>1. CASE get_item_batches
  BY <1>1, DrawerStart
<1>2. CASE get_limited_batches_for_drawer
  BY <1>2, DrawerLoop
<1>3. CASE assign_priority_groups \/ drawer_response \/ UNCHANGED vars
  <2>1. /\ UNCHANGED <<current, todo, remaining, limited, fulfilled, cumulative, available>>
        /\ UNCHANGED stock_vars
        /\ \/ call' = call
           \/ call = "drawer" /\ call' = "drawer_done" /\ todo = << >>
    BY <1>3 DEF assign_priority_groups, drawer_response, vars, input_vars, drawer_vars
  <2>2. /\ drawer_batches' = drawer_batches /\ DrawerQty' = DrawerQty
        /\ \A b : is_allocated(b)' = is_allocated(b)
        /\ \A b, c : DrawerFirst(c, b)' = DrawerFirst(c, b)
    BY <2>1, DrawerSame
  <2>3. \A b : InDrawer(b)' = InDrawer(b) /\ Waiting(b)' = Waiting(b)
    BY <2>1 DEF InDrawer, Waiting
  <2>4. \A w : Shown(w)' = Shown(w)
    BY <2>3 DEF Shown
  <2>5. DrawerListOK => DrawerListOK'
    BY <2>1, <2>2 DEF DrawerListOK, InDrawer, DrawerFirst, ExpiresFirst, CameFirst, stock_vars
  <2>6. ShownOK => ShownOK'
    BY <2>1, <2>2, <2>3, <2>4 DEF ShownOK
  <2> QED BY <2>1, <2>5, <2>6 DEF DrawerInv
<1>4. ASSUME \/ \E q \in 1 .. MaxQty, cur \in Allocations : loadBatches(q, cur)
             \/ \E q \in 1 .. MaxQty, W \in {Warehouses} \cup {{w} : w \in Warehouses} :
                  auto_allocate_item(q, W)
             \/ auto_allocate_batches \/ auto_allocate_response
      PROVE  DrawerInv'
  <2>1. call' \in {"load", "auto", "auto_done"}
    BY <1>4 DEF loadBatches, auto_allocate_item, auto_allocate_batches, auto_allocate_response
  <2> QED BY <2>1 DEF DrawerInv
<1> QED BY <1>1, <1>2, <1>3, <1>4 DEF Next

\* The types and the invariant of the drawer hold throughout.
THEOREM DrawerInvariance == Spec => [](TypeOK /\ DrawerInv)
<1>1. Init => TypeOK /\ DrawerInv
  BY AllocationAssumptions DEF Init, TypeOK, NoBatch, DrawerInv
<1>2. TypeOK /\ DrawerInv /\ [Next]_vars => TypeOK' /\ DrawerInv'
  BY TypeStep, DrawerStep
<1> QED BY <1>1, <1>2, PTL DEF Spec

\* What is free of a batch, and what is counted twice of it, are natural numbers that
\* cover what the drawer counts for it.
LEMMA FreeTypes ==
  ASSUME TypeOK, NEW c \in Batches
  PROVE  /\ Free(c) \in Nat /\ CountedTwice(c) \in Nat
         /\ calc_available_qty(c) <= Free(c) + CountedTwice(c)
<1>1. /\ itembatch[c].usable_qty \in Nat /\ itembatch[c].reserved_qty \in Nat
      /\ calc_available_qty(c) \in Nat
  BY AvailableNat
<1>2. current[c] \in Nat /\ saved[c] \in Nat
  BY AllocationAssumptions DEF TypeOK
<1> QED BY <1>1, <1>2 DEF Free, CountedTwice, calc_available_qty, AtLeastZero

\* The free units of the batches S and what the drawer counts twice of them cover
\* what it counts.
LEMMA CountedIsCovered ==
  ASSUME TypeOK, NEW S \in SUBSET Batches
  PROVE  SumOver(S, DrawerQty) <= SumOver(S, [c \in Batches |-> Free(c)])
                                    + SumOver(S, [c \in Batches |-> CountedTwice(c)])
<1> DEFINE f == [c \in Batches |-> Free(c)]
           t == [c \in Batches |-> CountedTwice(c)]
<1>1. ASSUME NEW c \in S
      PROVE  f[c] \in Nat /\ t[c] \in Nat /\ DrawerQty[c] <= f[c] + t[c]
  <2>1. c \in Batches
    OBVIOUS
  <2>2. f[c] = Free(c) /\ t[c] = CountedTwice(c) /\ DrawerQty[c] = calc_available_qty(c)
    BY <2>1 DEF DrawerQty
  <2> QED BY <2>1, <2>2, FreeTypes
<1> HIDE DEF f, t
<1>2. IsFiniteSet(S) /\ IsQty(S, DrawerQty) /\ IsQty(S, f) /\ IsQty(S, t)
  BY <1>1, ShownQty DEF IsQty
<1>3. SumOver(S, DrawerQty) <= SumOver(S, f) + SumOver(S, t)
  BY <1>1, <1>2, SumCovered
<1> QED BY <1>3 DEF f, t

\* get_limited_batches_for_drawer hides no batch that is picked, and one that is
\* needed only where the picks of its warehouse are counted twice.
THEOREM NothingNeededHidden == Spec => []DrawerSuffices
<1>1. TypeOK /\ DrawerInv => DrawerSuffices
  <2> DEFINE f == [c \in Batches |-> Free(c)]
             t == [c \in Batches |-> CountedTwice(c)]
  <2> SUFFICES ASSUME TypeOK, DrawerInv, call = "drawer_done",
                      NEW b \in Usable(Warehouses), ~ InDrawer(b)
               PROVE  /\ ~ is_allocated(b)
                      /\ \/ Available(b) = 0
                         \/ /\ SumOver(Shown(inventory_id[b]), f)
                                 + SumOver(Shown(inventory_id[b]), t) >= remaining
                            /\ shortfall = 0
    BY DEF DrawerSuffices, Shown
  <2>1. /\ b \in Batches /\ Available(b) \in Nat /\ current[b] \in Nat
        /\ calc_available_qty(b) = Available(b) + current[b]
        /\ itembatch[b].active /\ NotExpired(b) /\ inventory_id[b] \in Warehouses
    BY AvailableNat, AllocationAssumptions DEF Usable, TypeOK
  <2>2. ShownOK /\ ~ Waiting(b)
    BY DEF DrawerInv, Waiting
  <2>3. is_allocated(b) \/ Available(b) > 0 => b \in drawer_batches
    BY <2>1 DEF drawer_batches, all_batches, get_available_batches, is_allocated
  <2>4. b \in drawer_batches => ~ is_allocated(b) /\ inventory_id[b] \in fulfilled
    BY <2>2 DEF ShownOK
  <2>5. CASE b \notin drawer_batches
    BY <2>1, <2>3, <2>5
  <2>6. CASE b \in drawer_batches
    <3> DEFINE S == Shown(inventory_id[b])
    <3>1. /\ cumulative[inventory_id[b]] = SumOver(S, DrawerQty)
          /\ cumulative[inventory_id[b]] <= available
          /\ cumulative[inventory_id[b]] >= remaining
      BY <2>1, <2>2, <2>4, <2>6 DEF ShownOK
    <3>2. available \in Nat /\ remaining \in Int /\ cumulative[inventory_id[b]] \in Nat
      BY <2>1 DEF TypeOK
    <3>3. shortfall = 0
      BY <3>1, <3>2 DEF shortfall
    <3>4. S \in SUBSET Batches
      BY DEF Shown
    <3>5. /\ SumOver(S, DrawerQty) <= SumOver(S, f) + SumOver(S, t)
          /\ SumOver(S, f) \in Nat /\ SumOver(S, t) \in Nat
      <4>1. SumOver(S, DrawerQty) <= SumOver(S, f) + SumOver(S, t)
        BY <3>4, CountedIsCovered
      <4>2. \A c \in Batches : Free(c) \in Nat /\ CountedTwice(c) \in Nat
        BY FreeTypes
      <4>3. IsFiniteSet(S) /\ IsQty(S, f) /\ IsQty(S, t)
        BY <3>4, <4>2, ShownQty DEF IsQty
      <4> QED BY <4>1, <4>3, SumType
    <3> HIDE DEF S, f, t
    <3>6. SumOver(S, f) + SumOver(S, t) >= remaining
      BY <3>1, <3>2, <3>5
    <3> QED BY <2>4, <2>6, <3>3, <3>6 DEF S
  <2> QED BY <2>5, <2>6
<1> QED BY <1>1, DrawerInvariance, PTL

\* A batch is hidden only behind batches of its warehouse that go first.
THEOREM DrawerInOrder == Spec => []DrawerFollowsRule
<1>1. TypeOK /\ DrawerInv => DrawerFollowsRule
  BY DEF DrawerInv, ShownOK, DrawerFollowsRule, DrawerFirst
<1> QED BY <1>1, DrawerInvariance, PTL

-----------------------------------------------------------------------------
(* assign_priority_groups.                                                 *)

\* The batches that may come after b, and those the drawer's key does not tell
\* from b.
MayFollow == [b \in Batches |-> {c \in Batches : ~ Less(DrawerKey(c), DrawerKey(b))}]
Alike     == [b \in Batches |-> {c \in Batches : DrawerKey(c) = DrawerKey(b)}]

\* The batches of a warehouse stand together in s, and in the order F allows.
InBlocks(s, F) ==
  \A i, j \in DOMAIN s : i < j /\ inventory_id[s[i]] = inventory_id[s[j]] =>
    /\ s[j] \in F[s[i]]
    /\ \A k \in i .. j : inventory_id[s[k]] = inventory_id[s[i]]

\* The same for s followed by t.
Continues(s, t, F) ==
  \A i \in DOMAIN s, j \in DOMAIN t : inventory_id[s[i]] = inventory_id[t[j]] =>
    /\ t[j] \in F[s[i]]
    /\ \A k \in i .. Len(s) : inventory_id[s[k]] = inventory_id[s[i]]
    /\ \A k \in 1 .. j : inventory_id[t[k]] = inventory_id[t[j]]

\* The group numbers g of the first batches of s follow the order and tell apart
\* what A tells apart.
Grouped(s, g, A) ==
  \A i, j \in DOMAIN g : i < j /\ inventory_id[s[i]] = inventory_id[s[j]] =>
    /\ g[i] <= g[j]
    /\ g[i] = g[j] <=> s[j] \in A[s[i]]

\* The sort of the drawer and the groups agree on the rule.
OneRule == item.can_expire_flag => item.issuance_order = "FEFO"

\* The inductive invariant of the groups.
GroupInv ==
  /\ call \in {"drawer", "drawer_done"} =>
       /\ InBlocks(limited, MayFollow) /\ InBlocks(todo, MayFollow)
       /\ Continues(limited, todo, MayFollow)
       /\ Len(batch_groups) <= Len(limited)
       /\ OneRule => Grouped(limited, batch_groups, Alike)
  /\ call = "drawer_done" => Len(batch_groups) = Len(limited)

\* Two batches of which neither comes first are alike.
LEMMA NeitherFirst ==
  ASSUME TypeOK, NEW b \in Batches, NEW c \in Batches, c \in MayFollow[b], b \in MayFollow[c]
  PROVE  c \in Alike[b]
<1>1. /\ itembatch[b].batch_date \in 0 .. MaxDate /\ itembatch[b].expiry_date \in 0 .. MaxDate
      /\ itembatch[c].batch_date \in 0 .. MaxDate /\ itembatch[c].expiry_date \in 0 .. MaxDate
      /\ MaxDate \in Nat
  BY AvailableNat, AllocationAssumptions
<1> DEFINE k == DrawerKey(b)
           l == DrawerKey(c)
<1>2. ~ Less(k, l) /\ ~ Less(l, k)
  BY DEF MayFollow
<1>3. k = l
  <2>1. CASE item.can_expire_flag
    <3>1. /\ k = <<ExpiryLast(b), BatchDateLast(b)>> /\ l = <<ExpiryLast(c), BatchDateLast(c)>>
      BY <2>1 DEF DrawerKey
    <3>2. /\ ExpiryLast(b) \in Int /\ ExpiryLast(c) \in Int
          /\ BatchDateLast(b) \in Int /\ BatchDateLast(c) \in Int
      BY <1>1 DEF ExpiryLast, BatchDateLast
    <3> HIDE DEF k, l
    <3>3. DOMAIN k = {1, 2} /\ DOMAIN l = {1, 2}
      BY <3>1
    <3>4. /\ ~ (k[1] < l[1]) /\ ~ (l[1] < k[1])
          /\ k[1] = l[1] => ~ (k[2] < l[2]) /\ ~ (l[2] < k[2])
      BY <1>2, <3>3 DEF Less
    <3> QED BY <3>1, <3>2, <3>4
  <2>2. CASE ~ item.can_expire_flag
    <3>1. k = <<itembatch[b].batch_date>> /\ l = <<itembatch[c].batch_date>>
      BY <2>2 DEF DrawerKey
    <3>2. itembatch[b].batch_date \in Int /\ itembatch[c].batch_date \in Int
      BY <1>1
    <3> HIDE DEF k, l
    <3>3. DOMAIN k = {1} /\ DOMAIN l = {1}
      BY <3>1
    <3>4. ~ (k[1] < l[1]) /\ ~ (l[1] < k[1])
      BY <1>2, <3>3 DEF Less
    <3> QED BY <3>1, <3>2, <3>4
  <2> QED BY <2>1, <2>2
<1> QED BY <1>3 DEF Alike

\* The key of the groups tells apart what the key of the sort does.
LEMMA KeysAgree ==
  ASSUME TypeOK, OneRule, NEW b \in Batches, NEW c \in Batches
  PROVE  PriorityKey(c) = PriorityKey(b) <=> c \in Alike[b]
<1>1. /\ itembatch[b].batch_date \in 0 .. MaxDate /\ itembatch[b].expiry_date \in 0 .. MaxDate
      /\ itembatch[c].batch_date \in 0 .. MaxDate /\ itembatch[c].expiry_date \in 0 .. MaxDate
      /\ MaxDate \in Nat
  BY AvailableNat, AllocationAssumptions
<1>2. CASE item.can_expire_flag
  <2>1. /\ PriorityKey(c) = PriorityKey(b) <=>
             /\ itembatch[c].expiry_date = itembatch[b].expiry_date
             /\ itembatch[c].batch_date = itembatch[b].batch_date
    BY <1>2 DEF PriorityKey, OneRule
  <2>2. DrawerKey(c) = DrawerKey(b) <=>
          ExpiryLast(c) = ExpiryLast(b) /\ BatchDateLast(c) = BatchDateLast(b)
    BY <1>2 DEF DrawerKey
  <2>3. /\ ExpiryLast(c) = ExpiryLast(b) <=> itembatch[c].expiry_date = itembatch[b].expiry_date
        /\ BatchDateLast(c) = BatchDateLast(b) <=> itembatch[c].batch_date = itembatch[b].batch_date
    BY <1>1 DEF ExpiryLast, BatchDateLast, NULL
  <2> QED BY <2>1, <2>2, <2>3 DEF Alike
<1>3. CASE ~ item.can_expire_flag
  BY <1>3 DEF PriorityKey, DrawerKey, Alike
<1> QED BY <1>2, <1>3

\* A loop that visits the head of t, and adds it to s or not, keeps the blocks.
LEMMA VisitKeepsBlocks ==
  ASSUME NEW F, NEW s \in Seq(Batches), NEW t \in Seq(Batches), t # << >>,
         InBlocks(s, F), InBlocks(t, F), Continues(s, t, F)
  PROVE  /\ InBlocks(Tail(t), F)
         /\ Continues(s, Tail(t), F)
         /\ InBlocks(Append(s, Head(t)), F)
         /\ Continues(Append(s, Head(t)), Tail(t), F)
<1> DEFINE u == Tail(t)
           h == Head(t)
           a == Append(s, h)
           n == Len(s)
<1>1. /\ h = t[1] /\ h \in Batches /\ 1 \in DOMAIN t
      /\ \A i \in DOMAIN u : i + 1 \in DOMAIN t /\ u[i] = t[i + 1] /\ i \in Nat /\ i > 0
  BY TailFacts
<1>2. /\ n \in Nat /\ DOMAIN s = 1 .. n /\ DOMAIN a = 1 .. n + 1 /\ Len(a) = n + 1
      /\ a[n + 1] = h /\ \A i \in 1 .. n : a[i] = s[i]
  BY <1>1
<1>3. DOMAIN t = 1 .. Len(t) /\ DOMAIN u = 1 .. Len(u) /\ Len(t) \in Nat /\ Len(u) \in Nat
  BY <1>1
<1> HIDE DEF u, h, a, n
<1>4. InBlocks(u, F)
  <2> SUFFICES ASSUME NEW i \in DOMAIN u, NEW j \in DOMAIN u, i < j,
                      inventory_id[u[i]] = inventory_id[u[j]]
               PROVE  /\ u[j] \in F[u[i]]
                      /\ \A k \in i .. j : inventory_id[u[k]] = inventory_id[u[i]]
    BY DEF InBlocks
  <2>1. /\ i + 1 \in DOMAIN t /\ j + 1 \in DOMAIN t /\ i + 1 < j + 1 /\ i \in Nat /\ j \in Nat
        /\ u[i] = t[i + 1] /\ u[j] = t[j + 1]
    BY <1>1
  <2>2. /\ t[j + 1] \in F[t[i + 1]]
        /\ \A k \in i + 1 .. j + 1 : inventory_id[t[k]] = inventory_id[t[i + 1]]
    BY <2>1 DEF InBlocks
  <2>3. ASSUME NEW k \in i .. j
        PROVE  inventory_id[u[k]] = inventory_id[u[i]]
    <3>1. k \in DOMAIN u /\ k + 1 \in i + 1 .. j + 1
      BY <1>3, <2>1
    <3>2. u[k] = t[k + 1]
      BY <1>1, <3>1
    <3> QED BY <2>1, <2>2, <3>1, <3>2
  <2> QED BY <2>1, <2>2, <2>3
<1>5. Continues(s, u, F)
  <2> SUFFICES ASSUME NEW i \in DOMAIN s, NEW j \in DOMAIN u, inventory_id[s[i]] = inventory_id[u[j]]
               PROVE  /\ u[j] \in F[s[i]]
                      /\ \A k \in i .. Len(s) : inventory_id[s[k]] = inventory_id[s[i]]
                      /\ \A k \in 1 .. j : inventory_id[u[k]] = inventory_id[u[j]]
    BY DEF Continues
  <2>1. j + 1 \in DOMAIN t /\ u[j] = t[j + 1] /\ j \in Nat
    BY <1>1
  <2>2. /\ t[j + 1] \in F[s[i]]
        /\ \A k \in i .. Len(s) : inventory_id[s[k]] = inventory_id[s[i]]
        /\ \A k \in 1 .. j + 1 : inventory_id[t[k]] = inventory_id[t[j + 1]]
    BY <2>1 DEF Continues
  <2>3. ASSUME NEW k \in 1 .. j
        PROVE  inventory_id[u[k]] = inventory_id[u[j]]
    <3>1. k \in DOMAIN u /\ k + 1 \in 1 .. j + 1
      BY <1>3, <2>1
    <3>2. u[k] = t[k + 1]
      BY <1>1, <3>1
    <3> QED BY <2>1, <2>2, <3>1, <3>2
  <2> QED BY <2>1, <2>2, <2>3
<1>6. InBlocks(a, F)
  <2> SUFFICES ASSUME NEW i \in 1 .. n + 1, NEW j \in 1 .. n + 1, i < j,
                      inventory_id[a[i]] = inventory_id[a[j]]
               PROVE  /\ a[j] \in F[a[i]]
                      /\ \A k \in i .. j : inventory_id[a[k]] = inventory_id[a[i]]
    BY <1>2 DEF InBlocks
  <2>1. i \in 1 .. n /\ a[i] = s[i]
    BY <1>2
  <2>2. CASE j \in 1 .. n
    <3>1. a[j] = s[j] /\ \A k \in i .. j : k \in 1 .. n
      BY <1>2, <2>2
    <3>2. \A k \in i .. j : a[k] = s[k]
      BY <1>2, <3>1
    <3>3. s[j] \in F[s[i]] /\ \A k \in i .. j : inventory_id[s[k]] = inventory_id[s[i]]
      <4>1. i \in DOMAIN s /\ j \in DOMAIN s /\ inventory_id[s[i]] = inventory_id[s[j]]
        BY <1>2, <2>1, <2>2, <3>1
      <4> QED BY <4>1 DEF InBlocks
    <3> QED BY <2>1, <3>1, <3>2, <3>3
  <2>3. CASE j = n + 1
    <3>1. a[j] = t[1] /\ inventory_id[s[i]] = inventory_id[t[1]]
      BY <1>1, <1>2, <2>1, <2>3
    <3>2. t[1] \in F[s[i]] /\ \A k \in i .. n : inventory_id[s[k]] = inventory_id[s[i]]
      BY <1>1, <1>2, <2>1, <3>1 DEF Continues, n
    <3>3. ASSUME NEW k \in i .. j
          PROVE  inventory_id[a[k]] = inventory_id[a[i]]
      <4>1. (k \in 1 .. n /\ k \in i .. n) \/ k = n + 1
        BY <1>2, <2>1, <2>3
      <4> QED BY <1>2, <2>1, <2>3, <3>1, <3>2, <4>1
    <3> QED BY <2>1, <3>1, <3>2, <3>3
  <2> QED BY <1>2, <2>2, <2>3
<1>7. Continues(a, u, F)
  <2> SUFFICES ASSUME NEW i \in 1 .. n + 1, NEW j \in DOMAIN u, inventory_id[a[i]] = inventory_id[u[j]]
               PROVE  /\ u[j] \in F[a[i]]
                      /\ \A k \in i .. n + 1 : inventory_id[a[k]] = inventory_id[a[i]]
                      /\ \A k \in 1 .. j : inventory_id[u[k]] = inventory_id[u[j]]
    BY <1>2 DEF Continues
  <2>1. j + 1 \in DOMAIN t /\ u[j] = t[j + 1] /\ j \in Nat /\ j > 0
    BY <1>1
  <2>2. CASE i \in 1 .. n
    <3>1. a[i] = s[i] /\ inventory_id[s[i]] = inventory_id[u[j]]
      BY <1>2, <2>2
    <3>2. /\ u[j] \in F[s[i]]
          /\ \A k \in i .. n : inventory_id[s[k]] = inventory_id[s[i]]
          /\ \A k \in 1 .. j : inventory_id[u[k]] = inventory_id[u[j]]
      BY <1>2, <1>5, <2>2, <3>1 DEF Continues, n
    <3>3. inventory_id[t[1]] = inventory_id[t[j + 1]]
      <4>1. \A k \in 1 .. j + 1 : inventory_id[t[k]] = inventory_id[t[j + 1]]
        BY <1>2, <2>1, <2>2, <3>1 DEF Continues
      <4> QED BY <2>1, <4>1
    <3>4. ASSUME NEW k \in i .. n + 1
          PROVE  inventory_id[a[k]] = inventory_id[a[i]]
      <4>1. (k \in 1 .. n /\ k \in i .. n) \/ k = n + 1
        BY <1>2, <2>2
      <4> QED BY <1>1, <1>2, <2>1, <3>1, <3>2, <3>3, <4>1
    <3> QED BY <3>1, <3>2, <3>4
  <2>3. CASE i = n + 1
    <3>1. a[i] = t[1] /\ inventory_id[t[1]] = inventory_id[t[j + 1]] /\ 1 < j + 1
      BY <1>1, <1>2, <2>1, <2>3
    <3>2. t[j + 1] \in F[t[1]] /\ \A k \in 1 .. j + 1 : inventory_id[t[k]] = inventory_id[t[1]]
      BY <1>1, <2>1, <3>1 DEF InBlocks
    <3>3. \A k \in i .. n + 1 : inventory_id[a[k]] = inventory_id[a[i]]
      BY <1>2, <2>3
    <3>4. ASSUME NEW k \in 1 .. j
          PROVE  inventory_id[u[k]] = inventory_id[u[j]]
      <4>1. k \in DOMAIN u /\ k + 1 \in 1 .. j + 1
        BY <1>3, <2>1
      <4>2. u[k] = t[k + 1]
        BY <1>1, <4>1
      <4> QED BY <2>1, <3>1, <3>2, <4>1, <4>2
    <3> QED BY <2>1, <3>1, <3>2, <3>3, <3>4
  <2> QED BY <1>2, <2>2, <2>3
<1> QED BY <1>4, <1>5, <1>6, <1>7 DEF u, a, h

\* The order of the drawer and its keys depend on the stock only.
LEMMA OrderSame ==
  ASSUME UNCHANGED stock_vars
  PROVE  MayFollow' = MayFollow /\ Alike' = Alike /\ OneRule' = OneRule
BY DEF stock_vars, MayFollow, Alike, OneRule, DrawerKey, ExpiryLast, BatchDateLast

\* The next batch gets the group of the one before it, or the next group.
LEMMA GroupsGrow ==
  ASSUME TypeOK, OneRule, NEW s \in Seq(Batches), NEW g \in Seq(Nat), Len(g) < Len(s),
         InBlocks(s, MayFollow), Grouped(s, g, Alike), NEW m \in Nat,
         Len(g) > 0 => m = IF PriorityKey(s[Len(g) + 1]) # PriorityKey(s[Len(g)])
                           THEN g[Len(g)] + 1 ELSE g[Len(g)]
  PROVE  Grouped(s, Append(g, m), Alike)
<1> DEFINE n == Len(g)
           e == Append(g, m)
<1>1. /\ n \in Nat /\ DOMAIN g = 1 .. n /\ DOMAIN e = 1 .. n + 1 /\ e[n + 1] = m
      /\ \A i \in 1 .. n : e[i] = g[i] /\ g[i] \in Nat
      /\ \A i \in 1 .. n + 1 : i \in DOMAIN s /\ s[i] \in Batches
      /\ n > 0 => m = IF PriorityKey(s[n + 1]) # PriorityKey(s[n]) THEN g[n] + 1 ELSE g[n]
  OBVIOUS
<1> HIDE DEF n, e
<1>2. \A b, c \in Batches : c \in Alike[b] <=> DrawerKey(c) = DrawerKey(b)
  BY DEF Alike
<1> SUFFICES ASSUME NEW i \in 1 .. n + 1, NEW j \in 1 .. n + 1, i < j,
                    inventory_id[s[i]] = inventory_id[s[j]]
             PROVE  /\ e[i] <= e[j]
                    /\ e[i] = e[j] <=> s[j] \in Alike[s[i]]
  BY <1>1 DEF Grouped, e
<1>3. i \in 1 .. n /\ e[i] = g[i] /\ g[i] \in Nat
  <2>1. n \in Nat
    BY <1>1
  <2>2. i \in 1 .. n
    BY <2>1
  <2> QED BY <1>1, <2>2
<1>4. CASE j \in 1 .. n
  <2>1. e[j] = g[j] /\ i \in DOMAIN g /\ j \in DOMAIN g
    BY <1>1, <1>3, <1>4
  <2> QED BY <1>3, <2>1 DEF Grouped
<1>5. CASE j = n + 1
  <2>1. /\ n \in 1 .. n /\ n > 0 /\ n \in i .. j /\ g[n] \in Nat /\ e[j] = m
        /\ s[i] \in Batches /\ s[n] \in Batches /\ s[j] \in Batches
    BY <1>1, <1>3, <1>5
  <2>2. /\ m = (IF PriorityKey(s[j]) # PriorityKey(s[n]) THEN g[n] + 1 ELSE g[n])
        /\ PriorityKey(s[j]) = PriorityKey(s[n]) <=> s[j] \in Alike[s[n]]
    BY <1>1, <1>5, <2>1, KeysAgree
  <2>3. g[n] <= m /\ (g[n] = m <=> s[j] \in Alike[s[n]])
    BY <2>1, <2>2
  <2>4. CASE i = n
    BY <1>3, <2>1, <2>3, <2>4
  <2>5. CASE i # n
    <3>1. i < n /\ n < j
      BY <1>1, <1>3, <1>5, <2>5
    <3>2. inventory_id[s[n]] = inventory_id[s[i]] /\ inventory_id[s[n]] = inventory_id[s[j]]
      BY <1>1, <1>5, <2>1 DEF InBlocks
    <3>3. s[n] \in MayFollow[s[i]] /\ s[j] \in MayFollow[s[n]]
      BY <1>1, <1>5, <2>1, <3>1, <3>2 DEF InBlocks
    <3>4. g[i] <= g[n] /\ (g[i] = g[n] <=> s[n] \in Alike[s[i]])
      BY <1>1, <1>3, <2>1, <3>1, <3>2 DEF Grouped
    <3>5. s[j] \in Alike[s[i]] => s[n] \in Alike[s[i]]
      <4> SUFFICES ASSUME DrawerKey(s[j]) = DrawerKey(s[i])
                   PROVE  s[n] \in Alike[s[i]]
        BY <1>2, <2>1
      <4>1. ~ Less(DrawerKey(s[i]), DrawerKey(s[n]))
        BY <2>1, <3>3 DEF MayFollow
      <4>2. s[i] \in MayFollow[s[n]]
        BY <2>1, <4>1 DEF MayFollow
      <4> QED BY <2>1, <3>3, <4>2, NeitherFirst
    <3>6. s[n] \in Alike[s[i]] => (s[j] \in Alike[s[i]] <=> s[j] \in Alike[s[n]])
      BY <1>2, <2>1
    <3> QED BY <1>3, <2>1, <2>3, <3>4, <3>5, <3>6
  <2> QED BY <2>4, <2>5
<1> QED BY <1>1, <1>4, <1>5

\* Every step keeps the blocks and the groups.
LEMMA GroupStep ==
  ASSUME TypeOK, GroupInv, [Next]_vars
  PROVE  GroupInv'
<1>0. limited \in Seq(Batches) /\ todo \in Seq(Batches) /\ batch_groups \in Seq(Nat)
  BY DEF TypeOK
<1>1. CASE get_item_batches
  <2>1. /\ todo' \in sort_batches_for_drawer(drawer_batches) /\ call' = "drawer"
        /\ limited' = << >> /\ batch_groups' = << >> /\ UNCHANGED stock_vars
    BY <1>1 DEF get_item_batches
  <2>2. drawer_batches \in SUBSET Batches /\ todo' \in Orders(drawer_batches)
    BY <2>1 DEF sort_batches_for_drawer, drawer_batches, all_batches, get_available_batches
  <2>3. \A i \in DOMAIN todo' : todo'[i] \in Batches
    BY <2>2, OrdersFacts
  <2>4. InBlocks(todo', MayFollow)
    BY <2>1, <2>3 DEF sort_batches_for_drawer, InBlocks, MayFollow
  <2>5. /\ InBlocks(limited', MayFollow) /\ Continues(limited', todo', MayFollow)
        /\ Len(batch_groups') <= Len(limited') /\ Grouped(limited', batch_groups', Alike)
    BY <2>1 DEF InBlocks, Continues, Grouped
  <2> QED BY <2>1, <2>4, <2>5, OrderSame DEF GroupInv
<1>2. CASE get_limited_batches_for_drawer
  <2> DEFINE h == Head(todo)
  <2>1. /\ call = "drawer" /\ todo # << >> /\ todo' = Tail(todo)
        /\ UNCHANGED <<call, batch_groups>> /\ UNCHANGED stock_vars
        /\ limited' = Append(limited, h) \/ limited' = limited
    BY <1>2 DEF get_limited_batches_for_drawer, drawer_vars
  <2>2. /\ InBlocks(limited, MayFollow) /\ InBlocks(todo, MayFollow)
        /\ Continues(limited, todo, MayFollow) /\ Len(batch_groups) <= Len(limited)
        /\ OneRule => Grouped(limited, batch_groups, Alike)
    BY <2>1 DEF GroupInv
  <2>3. /\ InBlocks(limited', MayFollow) /\ InBlocks(todo', MayFollow)
        /\ Continues(limited', todo', MayFollow)
    BY <1>0, <2>1, <2>2, VisitKeepsBlocks
  <2>4. /\ Len(batch_groups) <= Len(limited')
        /\ \A i \in DOMAIN batch_groups : limited'[i] = limited[i]
    <3>1. h \in Batches
      BY <1>0, <2>1, TailFacts
    <3> HIDE DEF h
    <3>2. /\ DOMAIN batch_groups = 1 .. Len(batch_groups) /\ Len(batch_groups) \in Nat
          /\ Len(limited) \in Nat
      BY <1>0
    <3>3. Len(limited) <= Len(limited') /\ \A i \in 1 .. Len(limited) : limited'[i] = limited[i]
      <4>1. CASE limited' = limited
        BY <3>2, <4>1
      <4>2. CASE limited' = Append(limited, h)
        BY <1>0, <3>1, <4>2
      <4> QED BY <2>1, <4>1, <4>2
    <3>4. Len(limited') \in Nat
      BY <1>0, <2>1, <3>1
    <3> QED BY <2>2, <3>2, <3>3, <3>4
  <2>5. OneRule => Grouped(limited', batch_groups, Alike)
    BY <2>2, <2>4 DEF Grouped
  <2> QED BY <2>1, <2>3, <2>4, <2>5, OrderSame DEF GroupInv
<1>3. CASE assign_priority_groups
  <2> DEFINE n == Len(batch_groups)
             id == IF n = 0 THEN 0 ELSE batch_groups[n]
             m == IF n > 0 /\ PriorityKey(limited[n + 1]) # PriorityKey(limited[n])
                  THEN id + 1 ELSE id
  <2>1. /\ call = "drawer" /\ n < Len(limited) /\ batch_groups' = Append(batch_groups, m)
        /\ UNCHANGED <<call, todo, limited>> /\ UNCHANGED stock_vars
    BY <1>3 DEF assign_priority_groups
  <2>2. /\ InBlocks(limited, MayFollow) /\ InBlocks(todo, MayFollow)
        /\ Continues(limited, todo, MayFollow)
        /\ OneRule => Grouped(limited, batch_groups, Alike)
    BY <2>1 DEF GroupInv
  <2>3. n \in Nat /\ m \in Nat /\ Len(limited) \in Nat
    BY <1>0
  <2>4. n > 0 => m = IF PriorityKey(limited[n + 1]) # PriorityKey(limited[n])
                     THEN batch_groups[n] + 1 ELSE batch_groups[n]
    BY <2>3
  <2> HIDE DEF m
  <2>5. OneRule => Grouped(limited, Append(batch_groups, m), Alike)
    BY <1>0, <2>1, <2>2, <2>3, <2>4, GroupsGrow
  <2>6. Len(batch_groups') <= Len(limited')
    BY <1>0, <2>1, <2>3
  <2> QED BY <2>1, <2>2, <2>5, <2>6, OrderSame DEF GroupInv
<1>4. CASE drawer_response \/ UNCHANGED vars
  <2>1. /\ UNCHANGED <<todo, limited, batch_groups>> /\ UNCHANGED stock_vars
        /\ \/ call' = call
           \/ call = "drawer" /\ call' = "drawer_done" /\ Len(batch_groups) = Len(limited)
    BY <1>4 DEF drawer_response, vars, drawer_vars
  <2> QED BY <2>1, OrderSame DEF GroupInv
<1>5. ASSUME \/ \E q \in 1 .. MaxQty, cur \in Allocations : loadBatches(q, cur)
             \/ \E q \in 1 .. MaxQty, W \in {Warehouses} \cup {{w} : w \in Warehouses} :
                  auto_allocate_item(q, W)
             \/ auto_allocate_batches \/ auto_allocate_response
      PROVE  GroupInv'
  <2>1. call' \in {"load", "auto", "auto_done"}
    BY <1>5 DEF loadBatches, auto_allocate_item, auto_allocate_batches, auto_allocate_response
  <2> QED BY <2>1 DEF GroupInv
<1> QED BY <1>1, <1>2, <1>3, <1>4, <1>5 DEF Next

\* The batches of a warehouse have the same priority group exactly if the rule does
\* not tell them apart, and the groups that assign_priority_groups numbers follow the
\* rule, wherever the sort of the drawer and the groups use the same rule.
THEOREM GroupsInOrder == Spec => []GroupsFollowRule
<1>1. Init => GroupInv
  BY DEF Init, GroupInv
<1>2. TypeOK /\ GroupInv /\ [Next]_vars => GroupInv'
  BY GroupStep
<1>3. TypeOK /\ GroupInv => GroupsFollowRule
  <2> SUFFICES ASSUME TypeOK, GroupInv, call = "drawer_done", OneRule,
                      NEW i \in DOMAIN limited, NEW j \in DOMAIN limited, i < j,
                      inventory_id[limited[i]] = inventory_id[limited[j]]
               PROVE  /\ batch_groups[i] <= batch_groups[j]
                      /\ batch_groups[i] = batch_groups[j] <=>
                           DrawerKey(limited[i]) = DrawerKey(limited[j])
    BY DEF GroupsFollowRule, OneRule
  <2>1. Grouped(limited, batch_groups, Alike) /\ Len(batch_groups) = Len(limited)
    BY DEF GroupInv
  <2>2. limited[i] \in Batches /\ limited[j] \in Batches
    BY DEF TypeOK
  <2>3. i \in DOMAIN batch_groups /\ j \in DOMAIN batch_groups
    BY <2>1 DEF TypeOK
  <2> QED BY <2>1, <2>2, <2>3 DEF Grouped, Alike
<1> QED BY <1>1, <1>2, <1>3, TypeCorrect, PTL DEF Spec
=============================================================================
