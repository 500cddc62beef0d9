--------------------------- MODULE DonationProofs ---------------------------
(***************************************************************************)
(* Proofs about Donations: types, what the row versions protect, and that  *)
(* the stock is what verified intakes brought.                             *)
(***************************************************************************)
EXTENDS Donations, QuantityProofs, TLAPS

-----------------------------------------------------------------------------
(* Rows.                                                                   *)

\* Membership in a set of rows, by the domain.
LEMMA RowsMember ==
  ASSUME NEW S, NEW T, NEW f
  PROVE  f \in RowsOf(S, T) <=> DOMAIN f \in SUBSET S /\ f \in [DOMAIN f -> T]
<1>1. ASSUME f \in RowsOf(S, T)
      PROVE  DOMAIN f \in SUBSET S /\ f \in [DOMAIN f -> T]
  <2>1. PICK R \in SUBSET S : f \in [R -> T]
    BY <1>1 DEF RowsOf
  <2> QED BY <2>1
<1>2. ASSUME DOMAIN f \in SUBSET S, f \in [DOMAIN f -> T]
      PROVE  f \in RowsOf(S, T)
  BY <1>2 DEF RowsOf
<1> QED BY <1>1, <1>2

LEMMA RowsParts ==
  ASSUME NEW S, NEW T, NEW f \in RowsOf(S, T)
  PROVE  DOMAIN f \in SUBSET S /\ \A i \in DOMAIN f : f[i] \in T
<1>1. PICK R \in SUBSET S : f \in [R -> T]
  BY DEF RowsOf
<1> QED BY <1>1

LEMMA EmptyRows ==
  ASSUME NEW S, NEW T
  PROVE  << >> \in RowsOf(S, T)
<1>1. DOMAIN << >> = {} /\ << >> \in [{} -> T]
  OBVIOUS
<1> QED BY <1>1, RowsMember

\* Rows chosen from a form.
LEMMA SomeRows ==
  ASSUME NEW S, NEW T, NEW R \in SUBSET S, NEW f, \A i \in R : f[i] \in T
  PROVE  [i \in R |-> f[i]] \in RowsOf(S, T)
BY RowsMember

LEMMA FormRows ==
  ASSUME NEW f \in Forms
  PROVE  /\ f \in RowsOf(Items, 0 .. MaxQty)
         /\ DOMAIN f \in SUBSET Items
         /\ \A i \in DOMAIN f : f[i] \in 0 .. MaxQty
<1>1. f \in RowsOf(Items, 0 .. MaxQty)
  BY DEF Forms
<1> QED BY <1>1, RowsParts

LEMMA DonationRows ==
  ASSUME TypeOK, NEW d \in Donations
  PROVE  /\ DOMAIN donation_item[d] \in SUBSET Items
         /\ \A i \in DOMAIN donation_item[d] : donation_item[d][i] \in 0 .. MaxQty
<1>1. donation_item[d] \in RowsOf(Items, 0 .. MaxQty)
  BY DEF TypeOK
<1> QED BY <1>1, RowsParts

-----------------------------------------------------------------------------
(* Types.                                                                  *)

LEMMA EnterType ==
  ASSUME TypeOK, NEW u \in Users, NEW op, NEW d \in Donations, NEW key,
         op \in {"edit", "verify", "delete", "add_item", "edit_item", "delete_item",
                 "entry", "verify_intake"},
         key \in Items \cup Warehouses \cup {"none"},
         Enter(u, op, d, key)
  PROVE  TypeOK'
BY DEF TypeOK, Enter, Sessions, intake_vars, stock_vars

LEMMA AfterCommitType ==
  ASSUME TypeOK, NEW u \in Users, NEW rows, NEW gone
  PROVE  AfterCommit(u, rows, gone) \in [Users -> Sessions]
<1>1. Closed \in Sessions
  BY DEF Closed, Sessions
<1>2. ASSUME NEW v \in Users
      PROVE  /\ session[v] \in Sessions
             /\ [session[v] EXCEPT !.read = "deleted"] \in Sessions
             /\ [session[v] EXCEPT !.read = "changed"] \in Sessions
  BY DEF TypeOK, Sessions
<1> QED BY <1>1, <1>2 DEF AfterCommit

\* What a verification adds to the stock is a quantity.
LEMMA ItemCreditType ==
  ASSUME NEW f \in IntakeForms, NEW i, NEW k \in Kinds
  PROVE  ItemCredit(f, i)[k] \in Nat
<1>1. \A j \in DOMAIN f : f[j] \in IntakeRows(0 .. MaxQty)
  BY RowsParts DEF IntakeForms
<1>2. i \in DOMAIN f => f[i].qty \in [Kinds -> 0 .. MaxQty]
  BY <1>1 DEF IntakeRows
<1>3. i \in DOMAIN f => f[i].qty[k] \in 0 .. MaxQty
  BY <1>2
<1>4. \A q \in 0 .. MaxQty : q \in Nat
  BY DonationAssumptions
<1>5. NoQty[k] = 0
  BY DEF NoQty
<1> QED BY <1>3, <1>4, <1>5 DEF ItemCredit

LEMMA BatchCreditType ==
  ASSUME NEW f \in IntakeForms, NEW i, NEW n, NEW k \in Kinds
  PROVE  BatchCredit(f, i, n)[k] \in Nat
<1>1. NoQty[k] = 0
  BY DEF NoQty
<1>2. BatchCredit(f, i, n) \in {ItemCredit(f, i), NoQty}
  BY DEF BatchCredit, ItemCredit
<1> QED BY <1>1, <1>2, ItemCreditType

\* The rows an edit leaves are some of the form's.
LEMMA EditLeft ==
  ASSUME NEW u, NEW d, edit_donation(u, d)
  PROVE  \E f \in Forms : \E left \in SUBSET DOMAIN f :
           /\ donation_item' = [donation_item EXCEPT ![d] = [i \in left |-> f[i]]]
           /\ session' = AfterCommit(u, {DonationRow(d)} \cup ItemRows(d, left),
                                     ItemRows(d, Items \ left))
<1>1. PICK f \in Forms : \E new \in SUBSET (DOMAIN f \ DOMAIN donation_item[d]) :
        LET left == (DOMAIN f \cap DOMAIN donation_item[d]) \cup new
        IN  /\ donation_item' = [donation_item EXCEPT ![d] = [i \in left |-> f[i]]]
            /\ session' = AfterCommit(u, {DonationRow(d)} \cup ItemRows(d, left),
                                      ItemRows(d, Items \ left))
  BY DEF edit_donation
<1>2. PICK new \in SUBSET (DOMAIN f \ DOMAIN donation_item[d]) :
        LET left == (DOMAIN f \cap DOMAIN donation_item[d]) \cup new
        IN  /\ donation_item' = [donation_item EXCEPT ![d] = [i \in left |-> f[i]]]
            /\ session' = AfterCommit(u, {DonationRow(d)} \cup ItemRows(d, left),
                                      ItemRows(d, Items \ left))
  BY <1>1
<1>3. (DOMAIN f \cap DOMAIN donation_item[d]) \cup new \in SUBSET DOMAIN f
  OBVIOUS
<1> QED BY <1>2, <1>3

\* Every step keeps the types.
LEMMA TypeStep ==
  TypeOK /\ [Next]_vars => TypeOK'
<1> SUFFICES ASSUME TypeOK, [Next]_vars PROVE TypeOK'
  OBVIOUS
<1> USE DonationAssumptions
<1>1. ASSUME NEW d \in Donations, NEW f \in Forms, create_donation(d, f) PROVE TypeOK'
  BY <1>1, FormRows DEF TypeOK, create_donation, intake_vars, stock_vars
<1>2. ASSUME NEW u \in Users, Leave(u) PROVE TypeOK'
  BY <1>2 DEF TypeOK, Leave, intake_vars, stock_vars, Closed, Sessions
<1>3. ASSUME NEW u \in Users, NEW d \in Donations, OpenDonation(u, d) PROVE TypeOK'
  <2>1. CASE \E op \in {"edit", "verify", "add_item"} : Enter(u, op, d, "none")
    BY <2>1, EnterType
  <2>2. CASE Enter(u, "delete", d, "none")
    BY <2>2, EnterType
  <2>3. CASE \E i \in DOMAIN donation_item[d], op \in {"edit_item", "delete_item"} :
               Enter(u, op, d, i)
    BY <2>3, EnterType, DonationRows
  <2> QED BY <1>3, <2>1, <2>2, <2>3 DEF OpenDonation
<1>4. ASSUME NEW u \in Users, NEW d \in Donations, edit_donation(u, d) PROVE TypeOK'
  <2>a. PICK f \in Forms : \E left \in SUBSET DOMAIN f :
          /\ donation_item' = [donation_item EXCEPT ![d] = [i \in left |-> f[i]]]
          /\ session' = AfterCommit(u, {DonationRow(d)} \cup ItemRows(d, left),
                                    ItemRows(d, Items \ left))
    BY <1>4, EditLeft
  <2>1. PICK left \in SUBSET DOMAIN f :
          /\ donation_item' = [donation_item EXCEPT ![d] = [i \in left |-> f[i]]]
          /\ session' = AfterCommit(u, {DonationRow(d)} \cup ItemRows(d, left),
                                    ItemRows(d, Items \ left))
    BY <2>a
  <2>2. [i \in left |-> f[i]] \in RowsOf(Items, 0 .. MaxQty)
    <3>1. left \in SUBSET Items
      BY FormRows
    <3>2. \A i \in left : f[i] \in 0 .. MaxQty
      BY FormRows
    <3> QED BY <3>1, <3>2, SomeRows
  <2>3. session' \in [Users -> Sessions]
    BY <2>1, AfterCommitType
  <2> QED BY <1>4, <2>1, <2>2, <2>3 DEF TypeOK, edit_donation, intake_vars, stock_vars
<1>5. ASSUME NEW u \in Users, NEW d \in Donations, verify_donation_detail(u, d) PROVE TypeOK'
  <2>1. PICK f \in Forms : donation_item' = [donation_item EXCEPT ![d] = f]
    BY <1>5 DEF verify_donation_detail
  <2>2. session' \in [Users -> Sessions]
    BY <1>5, AfterCommitType DEF verify_donation_detail
  <2> QED BY <1>5, <2>1, <2>2, FormRows DEF TypeOK, verify_donation_detail, intake_vars, stock_vars
<1>6. ASSUME NEW u \in Users, NEW d \in Donations, delete_donation(u, d) PROVE TypeOK'
  <2>1. session' \in [Users -> Sessions]
    BY <1>6, AfterCommitType DEF delete_donation
  <2> QED BY <1>6, <2>1 DEF TypeOK, delete_donation, intake_vars, stock_vars
<1>7. ASSUME NEW u \in Users, NEW d \in Donations, NEW i \in Items, add_donation_item(u, d, i)
      PROVE TypeOK'
  <2>1. PICK q \in 1 .. MaxQty : donation_item' = [donation_item EXCEPT ![d] =
          [j \in DOMAIN donation_item[d] \cup {i} |-> IF j = i THEN q ELSE donation_item[d][j]]]
    BY <1>7 DEF add_donation_item
  <2> DEFINE g == [j \in DOMAIN donation_item[d] \cup {i} |->
                     IF j = i THEN q ELSE donation_item[d][j]]
  <2>2. DOMAIN donation_item[d] \cup {i} \in SUBSET Items
    BY DonationRows
  <2>3. \A j \in DOMAIN donation_item[d] \cup {i} : g[j] \in 0 .. MaxQty
    BY DonationRows
  <2>4. g \in RowsOf(Items, 0 .. MaxQty)
    BY <2>2, <2>3, RowsMember
  <2>5. session' \in [Users -> Sessions]
    BY <1>7, AfterCommitType DEF add_donation_item
  <2> QED BY <1>7, <2>1, <2>4, <2>5 DEF TypeOK, add_donation_item, intake_vars, stock_vars
<1>8. ASSUME NEW u \in Users, NEW d \in Donations, NEW i \in Items, edit_donation_item(u, d, i)
      PROVE TypeOK'
  <2>1. PICK q \in 1 .. MaxQty : donation_item' = [donation_item EXCEPT ![d][i] = q]
    BY <1>8 DEF edit_donation_item
  <2> DEFINE g == [donation_item[d] EXCEPT ![i] = q]
  <2>2. donation_item' = [donation_item EXCEPT ![d] = g]
    BY <2>1 DEF TypeOK
  <2>3. DOMAIN g \in SUBSET Items
    BY DonationRows
  <2>4. \A j \in DOMAIN g : g[j] \in 0 .. MaxQty
    BY DonationRows
  <2>5. g \in RowsOf(Items, 0 .. MaxQty)
    BY <2>3, <2>4, RowsMember
  <2>6. session' \in [Users -> Sessions]
    BY <1>8, AfterCommitType DEF edit_donation_item
  <2> QED BY <1>8, <2>2, <2>5, <2>6 DEF TypeOK, edit_donation_item, intake_vars, stock_vars
<1>9. ASSUME NEW u \in Users, NEW d \in Donations, NEW i \in Items, delete_donation_item(u, d, i)
      PROVE TypeOK'
  <2>1. [j \in DOMAIN donation_item[d] \ {i} |-> donation_item[d][j]]
          \in RowsOf(Items, 0 .. MaxQty)
    <3>1. DOMAIN donation_item[d] \ {i} \in SUBSET Items
      BY DonationRows
    <3>2. \A j \in DOMAIN donation_item[d] \ {i} : donation_item[d][j] \in 0 .. MaxQty
      BY DonationRows
    <3> QED BY <3>1, <3>2, SomeRows
  <2>2. session' \in [Users -> Sessions]
    BY <1>9, AfterCommitType DEF delete_donation_item
  <2> QED BY <1>9, <2>1, <2>2 DEF TypeOK, delete_donation_item, intake_vars, stock_vars
<1>10. ASSUME NEW u \in Users, NEW d \in Donations, NEW w \in Warehouses, intake_form(u, d, w)
       PROVE TypeOK'
  BY <1>10, EnterType DEF intake_form
<1>11. ASSUME NEW u \in Users, NEW d \in Donations, NEW w \in Warehouses,
              _process_entry_submission(u, d, w)
       PROVE TypeOK'
  <2>1. session' \in [Users -> Sessions]
    BY <1>11, AfterCommitType DEF _process_entry_submission
  <2>2. dnintake' \in [Donations -> [Warehouses -> {"none", "I", "C", "V"}]]
    BY <1>11 DEF TypeOK, _process_entry_submission
  <2>3. PICK f \in IntakeForms : dnintake_item' = [dnintake_item EXCEPT ![d][w] = f]
    BY <1>11 DEF _process_entry_submission
  <2>4. dnintake_item' \in [Donations -> [Warehouses -> IntakeForms]]
    BY <2>3 DEF TypeOK
  <2> QED BY <1>11, <2>1, <2>2, <2>4 DEF TypeOK, _process_entry_submission, stock_vars
<1>12. ASSUME NEW u \in Users, NEW d \in Donations, NEW w \in Warehouses, verify_intake(u, d, w)
       PROVE TypeOK'
  BY <1>12, EnterType DEF verify_intake
<1>13. ASSUME NEW u \in Users, NEW d \in Donations, NEW w \in Warehouses,
              _process_verification_submission(u, d, w)
       PROVE TypeOK'
  <2>1. session' \in [Users -> Sessions]
    BY <1>13, AfterCommitType DEF _process_verification_submission
  <2>2. PICK f \in IntakeForms : /\ dnintake_item' = [dnintake_item EXCEPT ![d][w] = f]
                                 /\ itembatch' = CreditBatches(w, f)
                                 /\ inventory' = CreditInventory(w, f)
    BY <1>13 DEF _process_verification_submission
  <2>3. \A i \in Items, n \in BatchNos, k \in Kinds :
          itembatch[w][i][n][k] + BatchCredit(f, i, n)[k] \in Nat
    BY BatchCreditType DEF TypeOK
  <2>4. itembatch' \in [Warehouses -> [Items -> [BatchNos -> [Kinds -> Nat]]]]
    BY <2>2, <2>3 DEF CreditBatches, TypeOK
  <2>5. \A i \in Items, k \in Kinds : inventory[w][i][k] + ItemCredit(f, i)[k] \in Nat
    BY ItemCreditType DEF TypeOK
  <2>6. inventory' \in [Warehouses -> [Items -> [Kinds -> Nat]]]
    BY <2>2, <2>5 DEF CreditInventory, TypeOK
  <2> QED BY <1>13, <2>1, <2>2, <2>4, <2>6 DEF TypeOK, _process_verification_submission
<1>14. CASE UNCHANGED vars
  BY <1>14 DEF TypeOK, vars, intake_vars, stock_vars
<1> QED BY <1>1, <1>2, <1>3, <1>4, <1>5, <1>6, <1>7, <1>8, <1>9, <1>10, <1>11, <1>12,
           <1>13, <1>14 DEF Next, DonationPages, IntakePages

-----------------------------------------------------------------------------
(* Row versions.                                                           *)

\* An intake belongs to a verified donation.
IntakesOfVerified ==
  \A d \in Donations : \A w \in Warehouses :
    dnintake[d][w] # "none" => donation[d] \in {"V", "P"}

\* What the versions of the written rows cover: a commit of u that changes a
\* status or removes an item writes the row, a donation that is no longer
\* Entered has all its items written, and a verified one stays verified.
Covers(rows) ==
  /\ \A d \in Donations : DonationRow(d) \notin rows => donation'[d] = donation[d]
  /\ \A d \in Donations : \A i \in DOMAIN donation_item[d] :
       ItemRow(d, i) \notin rows => i \in DOMAIN donation_item'[d]
  /\ \A d \in Donations : donation[d] = "E" /\ donation'[d] # "E"
       => \A i \in DOMAIN donation_item[d] : ItemRow(d, i) \in rows
  /\ \A d \in Donations : donation[d] \in {"V", "P"} => donation'[d] \in {"V", "P"}
  /\ \A d \in Donations : \A w \in Warehouses :
       IntakeRow(d, w) \notin rows => dnintake'[d][w] = dnintake[d][w]

LEMMA CommitKeepsSessions ==
  ASSUME TypeOK, SessionsCurrent, NEW u \in Users, NEW written, NEW gone,
         session' = AfterCommit(u, written, gone), Covers(written \cup gone)
  PROVE  SessionsCurrent'
<1> SUFFICES ASSUME NEW v \in Users, session'[v].read = "current"
             PROVE  SessionOK(session[v])'
  BY DEF SessionsCurrent, SessionOK
<1> DEFINE rows == written \cup gone
<1>1. /\ session'[v] = session[v] /\ session[v].read = "current"
      /\ Versioned(session[v]) \cap rows = {}
  <2>1. v # u
    BY DEF AfterCommit, Closed
  <2>2. session[v] \in Sessions
    BY DEF TypeOK
  <2>3. /\ [session[v] EXCEPT !.read = "deleted"].read = "deleted"
        /\ [session[v] EXCEPT !.read = "changed"].read = "changed"
    BY <2>2 DEF Sessions
  <2> QED BY <2>1, <2>3 DEF AfterCommit
<1> DEFINE s == session[v]
<1>2. SessionOK(s) /\ s.d \in Donations
  BY <1>1 DEF SessionsCurrent, SessionOK
<1>3. ASSUME s.op \in {"edit", "verify", "delete"} PROVE donation'[s.d] = "E"
  <2>1. DonationRow(s.d) \notin rows
    BY <1>1, <1>3 DEF Versioned
  <2> QED BY <1>1, <1>2, <1>3, <2>1 DEF Covers, SessionOK
<1>4. ASSUME s.op \in {"edit_item", "delete_item"}
      PROVE  donation'[s.d] = "E" /\ s.key \in DOMAIN donation_item'[s.d]
  <2>1. ItemRow(s.d, s.key) \notin rows
    BY <1>1, <1>4 DEF Versioned
  <2> QED BY <1>1, <1>2, <1>4, <2>1 DEF Covers, SessionOK
<1>5. ASSUME s.op = "entry"
      PROVE  s.key \in Warehouses /\ dnintake'[s.d][s.key] # "V" /\ donation'[s.d] \in {"V", "P"}
  <2>1. IntakeRow(s.d, s.key) \notin rows
    BY <1>1, <1>5 DEF Versioned
  <2> QED BY <1>1, <1>2, <1>5, <2>1 DEF Covers, SessionOK
<1>6. ASSUME s.op = "verify_intake"
      PROVE  s.key \in Warehouses /\ dnintake'[s.d][s.key] = "C"
  <2>1. IntakeRow(s.d, s.key) \notin rows
    BY <1>1, <1>6 DEF Versioned
  <2> QED BY <1>1, <1>2, <1>6, <2>1 DEF Covers, SessionOK
<1> QED BY <1>1, <1>2, <1>3, <1>4, <1>5, <1>6 DEF SessionOK

\* A handler that only reads.
LEMMA EnterKeepsSessions ==
  ASSUME TypeOK, SessionsCurrent, NEW u \in Users, NEW op, NEW d \in Donations, NEW key,
         Enter(u, op, d, key),
         SessionOK([op |-> op, d |-> d, key |-> key, read |-> "current"])
  PROVE  SessionsCurrent'
<1> SUFFICES ASSUME NEW v \in Users PROVE SessionOK(session[v])'
  BY DEF SessionsCurrent
<1>1. CASE v = u
  <2>1. session'[v] = [op |-> op, d |-> d, key |-> key, read |-> "current"]
    BY <1>1 DEF Enter, TypeOK
  <2> QED BY <2>1 DEF Enter, SessionOK, intake_vars
<1>2. CASE v # u
  BY <1>2 DEF Enter, SessionOK, SessionsCurrent, TypeOK, intake_vars
<1> QED BY <1>1, <1>2

\* What a handler checked when it read holds when it commits.
LEMMA InOK ==
  ASSUME TypeOK, SessionsCurrent, NEW u \in Users, NEW op, NEW d \in Donations, NEW key,
         In(u, op, d, key)
  PROVE  /\ op \in {"edit", "verify", "delete"} => donation[d] = "E"
         /\ op = "entry" => dnintake[d][key] # "V" /\ donation[d] \in {"V", "P"}
         /\ op = "verify_intake" => dnintake[d][key] = "C"
<1>1. SessionOK([op |-> op, d |-> d, key |-> key, read |-> "current"])
  BY DEF SessionsCurrent, In
<1> QED BY <1>1 DEF SessionOK

\* Every step keeps what open pages rely on.
LEMMA SessionsStep ==
  TypeOK /\ SessionsCurrent /\ IntakesOfVerified /\ [Next]_vars => SessionsCurrent'
<1> SUFFICES ASSUME TypeOK, SessionsCurrent, IntakesOfVerified, [Next]_vars
             PROVE  SessionsCurrent'
  OBVIOUS
<1>1. ASSUME NEW d \in Donations, NEW f \in Forms, create_donation(d, f)
      PROVE  SessionsCurrent'
  <2> SUFFICES ASSUME NEW v \in Users PROVE SessionOK(session[v])'
    BY DEF SessionsCurrent
  <2>1. SessionOK(session[v]) /\ session' = session /\ dnintake' = dnintake
    BY <1>1 DEF SessionsCurrent, create_donation, intake_vars
  <2>2. \A e \in Donations : donation[e] # "none" =>
          donation'[e] = donation[e] /\ donation_item'[e] = donation_item[e]
    BY <1>1 DEF create_donation, TypeOK
  <2> QED BY <2>1, <2>2 DEF SessionOK
<1>2. ASSUME NEW u \in Users, Leave(u) PROVE SessionsCurrent'
  <2> SUFFICES ASSUME NEW v \in Users PROVE SessionOK(session[v])'
    BY DEF SessionsCurrent
  <2>1. session'[v] \in {session[v], Closed}
    BY <1>2 DEF Leave, TypeOK
  <2>2. Closed.read = "changed"
    BY DEF Closed
  <2>3. SessionOK(session[v])
    BY DEF SessionsCurrent
  <2> QED BY <1>2, <2>1, <2>2, <2>3 DEF Leave, SessionOK, intake_vars
<1>3. ASSUME NEW u \in Users, NEW d \in Donations, OpenDonation(u, d) PROVE SessionsCurrent'
  <2>1. ASSUME NEW op \in {"edit", "verify", "add_item", "delete"}, Enter(u, op, d, "none")
        PROVE  SessionsCurrent'
    <3>1. SessionOK([op |-> op, d |-> d, key |-> "none", read |-> "current"])
      BY <1>3 DEF SessionOK, OpenDonation
    <3> QED BY <2>1, <3>1, EnterKeepsSessions
  <2>2. ASSUME NEW i \in DOMAIN donation_item[d], NEW op \in {"edit_item", "delete_item"},
               Enter(u, op, d, i)
        PROVE  SessionsCurrent'
    <3>1. SessionOK([op |-> op, d |-> d, key |-> i, read |-> "current"])
      BY <1>3 DEF SessionOK, OpenDonation
    <3> QED BY <2>2, <3>1, EnterKeepsSessions
  <2> QED BY <1>3, <2>1, <2>2 DEF OpenDonation
<1>4. ASSUME NEW u \in Users, NEW d \in Donations, edit_donation(u, d) PROVE SessionsCurrent'
  <2>a. PICK f \in Forms : \E left \in SUBSET DOMAIN f :
          /\ donation_item' = [donation_item EXCEPT ![d] = [i \in left |-> f[i]]]
          /\ session' = AfterCommit(u, {DonationRow(d)} \cup ItemRows(d, left),
                                    ItemRows(d, Items \ left))
    BY <1>4, EditLeft
  <2>b. PICK left \in SUBSET DOMAIN f :
          /\ donation_item' = [donation_item EXCEPT ![d] = [i \in left |-> f[i]]]
          /\ session' = AfterCommit(u, {DonationRow(d)} \cup ItemRows(d, left),
                                    ItemRows(d, Items \ left))
    BY <2>a
  <2> DEFINE written == {DonationRow(d)} \cup ItemRows(d, left)
             gone    == ItemRows(d, Items \ left)
             rows    == written \cup gone
  <2>1. \A e \in Donations : e # d => donation_item'[e] = donation_item[e]
    BY <2>b DEF TypeOK
  <2>2. \A i \in DOMAIN donation_item[d] : ItemRow(d, i) \in rows
    BY DonationRows DEF ItemRows
  <2>3. Covers(rows)
    BY <1>4, <2>1, <2>2 DEF edit_donation, Covers, intake_vars
  <2> QED BY <2>b, <2>3, CommitKeepsSessions
<1>5. ASSUME NEW u \in Users, NEW d \in Donations, verify_donation_detail(u, d)
      PROVE  SessionsCurrent'
  <2>a. PICK f \in Forms :
          /\ donation_item' = [donation_item EXCEPT ![d] = f]
          /\ session' = AfterCommit(u, {DonationRow(d)} \cup ItemRows(d, DOMAIN f),
                                    ItemRows(d, Items \ DOMAIN f))
    BY <1>5 DEF verify_donation_detail
  <2> DEFINE written == {DonationRow(d)} \cup ItemRows(d, DOMAIN f)
             gone    == ItemRows(d, Items \ DOMAIN f)
             rows    == written \cup gone
  <2>1. \A e \in Donations : e # d =>
          donation_item'[e] = donation_item[e] /\ donation'[e] = donation[e]
    BY <1>5, <2>a DEF verify_donation_detail, TypeOK
  <2>2. \A i \in DOMAIN donation_item[d] : ItemRow(d, i) \in rows
    BY DonationRows DEF ItemRows
  <2>3. DonationRow(d) \in rows /\ donation'[d] = "V"
    BY <1>5 DEF verify_donation_detail, TypeOK
  <2>4. Covers(rows)
    BY <1>5, <2>1, <2>2, <2>3 DEF verify_donation_detail, Covers, intake_vars
  <2> QED BY <2>a, <2>4, CommitKeepsSessions
<1>6. ASSUME NEW u \in Users, NEW d \in Donations, delete_donation(u, d) PROVE SessionsCurrent'
  <2> DEFINE rows == {DonationRow(d)} \cup {}
  <2>1. \A e \in Donations : e # d => donation'[e] = donation[e]
    BY <1>6 DEF delete_donation, TypeOK
  <2>2. donation[d] = "E" /\ DOMAIN donation_item[d] = {}
    BY <1>6, InOK DEF delete_donation
  <2>3. Covers(rows)
    BY <1>6, <2>1, <2>2 DEF delete_donation, Covers, intake_vars
  <2> QED BY <1>6, <2>3, CommitKeepsSessions DEF delete_donation
<1>7. ASSUME NEW u \in Users, NEW d \in Donations, NEW i \in Items, add_donation_item(u, d, i)
      PROVE  SessionsCurrent'
  <2> DEFINE rows == {ItemRow(d, i)} \cup {}
  <2>1. \A e \in Donations : DOMAIN donation_item[e] \subseteq DOMAIN donation_item'[e]
    BY <1>7 DEF add_donation_item, TypeOK
  <2>2. Covers(rows)
    BY <1>7, <2>1 DEF add_donation_item, Covers, intake_vars
  <2> QED BY <1>7, <2>2, CommitKeepsSessions DEF add_donation_item
<1>8. ASSUME NEW u \in Users, NEW d \in Donations, NEW i \in Items, edit_donation_item(u, d, i)
      PROVE  SessionsCurrent'
  <2> DEFINE rows == {ItemRow(d, i)} \cup {}
  <2>1. \A e \in Donations : DOMAIN donation_item[e] \subseteq DOMAIN donation_item'[e]
    BY <1>8 DEF edit_donation_item, TypeOK
  <2>2. Covers(rows)
    BY <1>8, <2>1 DEF edit_donation_item, Covers, intake_vars
  <2> QED BY <1>8, <2>2, CommitKeepsSessions DEF edit_donation_item
<1>9. ASSUME NEW u \in Users, NEW d \in Donations, NEW i \in Items, delete_donation_item(u, d, i)
      PROVE  SessionsCurrent'
  <2> DEFINE rows == {} \cup {ItemRow(d, i)}
  <2>1. \A e \in Donations : \A j \in DOMAIN donation_item[e] :
          ItemRow(e, j) \notin rows => j \in DOMAIN donation_item'[e]
    <3>1. \A e \in Donations : e # d => donation_item'[e] = donation_item[e]
      BY <1>9 DEF delete_donation_item, TypeOK
    <3>2. DOMAIN donation_item'[d] = DOMAIN donation_item[d] \ {i}
      BY <1>9 DEF delete_donation_item, TypeOK
    <3> QED BY <3>1, <3>2
  <2>2. Covers(rows)
    BY <1>9, <2>1 DEF delete_donation_item, Covers, intake_vars
  <2> QED BY <1>9, <2>2, CommitKeepsSessions DEF delete_donation_item
<1>10. ASSUME NEW u \in Users, NEW d \in Donations, NEW w \in Warehouses, intake_form(u, d, w)
       PROVE  SessionsCurrent'
  <2>1. SessionOK([op |-> "entry", d |-> d, key |-> w, read |-> "current"])
    BY <1>10 DEF SessionOK, intake_form
  <2> QED BY <1>10, <2>1, EnterKeepsSessions DEF intake_form
<1>11. ASSUME NEW u \in Users, NEW d \in Donations, NEW w \in Warehouses,
              _process_entry_submission(u, d, w)
       PROVE  SessionsCurrent'
  <2> DEFINE rows == {IntakeRow(d, w)} \cup {}
  <2>1. \A e \in Donations : \A x \in Warehouses :
          IntakeRow(e, x) \notin rows => dnintake'[e][x] = dnintake[e][x]
    <3>1. \A e \in Donations : \A x \in Warehouses :
            e # d \/ x # w => dnintake'[e][x] = dnintake[e][x]
      BY <1>11 DEF _process_entry_submission, TypeOK
    <3> QED BY <3>1
  <2>2. Covers(rows)
    BY <1>11, <2>1 DEF _process_entry_submission, Covers
  <2> QED BY <1>11, <2>2, CommitKeepsSessions DEF _process_entry_submission
<1>12. ASSUME NEW u \in Users, NEW d \in Donations, NEW w \in Warehouses, verify_intake(u, d, w)
       PROVE  SessionsCurrent'
  <2>1. SessionOK([op |-> "verify_intake", d |-> d, key |-> w, read |-> "current"])
    BY <1>12 DEF SessionOK, verify_intake
  <2> QED BY <1>12, <2>1, EnterKeepsSessions DEF verify_intake
<1>13. ASSUME NEW u \in Users, NEW d \in Donations, NEW w \in Warehouses,
              _process_verification_submission(u, d, w)
       PROVE  SessionsCurrent'
  <2> DEFINE rows == {IntakeRow(d, w), DonationRow(d)} \cup {}
  <2>1. \A e \in Donations : \A x \in Warehouses :
          IntakeRow(e, x) \notin rows => dnintake'[e][x] = dnintake[e][x]
    <3>1. \A e \in Donations : \A x \in Warehouses :
            e # d \/ x # w => dnintake'[e][x] = dnintake[e][x]
      BY <1>13 DEF _process_verification_submission, TypeOK
    <3> QED BY <3>1
  <2>2. \A e \in Donations : e # d => donation'[e] = donation[e]
    BY <1>13 DEF _process_verification_submission, TypeOK
  <2>3. donation[d] \in {"V", "P"} /\ donation'[d] = "P"
    BY <1>13, InOK DEF _process_verification_submission, TypeOK, IntakesOfVerified
  <2>4. Covers(rows)
    BY <1>13, <2>1, <2>2, <2>3 DEF _process_verification_submission, Covers
  <2> QED BY <1>13, <2>4, CommitKeepsSessions DEF _process_verification_submission
<1>14. CASE UNCHANGED vars
  BY <1>14 DEF SessionsCurrent, SessionOK, vars, intake_vars
<1> QED BY <1>1, <1>2, <1>3, <1>4, <1>5, <1>6, <1>7, <1>8, <1>9, <1>10, <1>11, <1>12,
           <1>13, <1>14 DEF Next, DonationPages, IntakePages

-----------------------------------------------------------------------------
(* Intakes: the two statuses, and what happens to a verified intake.       *)

\* The frame of every step, in terms of the two statuses: an intake is entered
\* for a verified donation, verified once entered, and then left alone.
IntakeFrame ==
  /\ \A d \in Donations : donation[d] \in {"V", "P"} => donation'[d] \in {"V", "P"}
  /\ \A d \in Donations : \A w \in Warehouses :
       dnintake'[d][w] # dnintake[d][w] => donation'[d] \in {"V", "P"}
  /\ \A d \in Donations : donation'[d] = "P" <=>
       donation[d] = "P" \/ \E w \in Warehouses : dnintake'[d][w] = "V" /\ dnintake[d][w] # "V"
  /\ \A d \in Donations : \A w \in Warehouses :
       dnintake'[d][w] = "V" /\ dnintake[d][w] # "V" =>
         dnintake[d][w] = "C" /\ donation[d] \in {"V", "P"}
  /\ VerifiedIntakeStep

\* Steps that leave the intakes alone.
LEMMA DonationFrame ==
  ASSUME TypeOK, UNCHANGED intake_vars, NEW d \in Donations,
         NEW status \in {"E", "V", "deleted"}, donation[d] \in {"none", "E"},
         \/ donation' = donation
         \/ donation' = [donation EXCEPT ![d] = status]
  PROVE  IntakeFrame
<1>1. dnintake' = dnintake /\ dnintake_item' = dnintake_item
  BY DEF intake_vars
<1>2. \A e \in Donations : donation'[e] # donation[e] =>
        donation[e] \in {"none", "E"} /\ donation'[e] \in {"E", "V", "deleted"}
  BY DEF TypeOK
<1> QED BY <1>1, <1>2 DEF IntakeFrame, VerifiedIntakeStep

LEMMA SameFrame ==
  ASSUME UNCHANGED <<donation, intake_vars>>
  PROVE  IntakeFrame
BY DEF IntakeFrame, VerifiedIntakeStep, intake_vars

LEMMA FrameStep ==
  TypeOK /\ SessionsCurrent /\ IntakesOfVerified /\ [Next]_vars => IntakeFrame
<1> SUFFICES ASSUME TypeOK, SessionsCurrent, IntakesOfVerified, [Next]_vars
             PROVE  IntakeFrame
  OBVIOUS
<1>1. ASSUME NEW d \in Donations, NEW f \in Forms, create_donation(d, f) PROVE IntakeFrame
  BY <1>1, DonationFrame DEF create_donation, intake_vars
<1>2. ASSUME NEW u \in Users, Leave(u) PROVE IntakeFrame
  BY <1>2, SameFrame DEF Leave
<1>3. ASSUME NEW u \in Users, NEW d \in Donations, OpenDonation(u, d) PROVE IntakeFrame
  BY <1>3, SameFrame DEF OpenDonation, Enter
<1>4. ASSUME NEW u \in Users, NEW d \in Donations, edit_donation(u, d) PROVE IntakeFrame
  BY <1>4, SameFrame DEF edit_donation
<1>5. ASSUME NEW u \in Users, NEW d \in Donations, verify_donation_detail(u, d) PROVE IntakeFrame
  <2>1. donation[d] = "E"
    BY <1>5, InOK DEF verify_donation_detail
  <2> QED BY <1>5, <2>1, DonationFrame DEF verify_donation_detail
<1>6. ASSUME NEW u \in Users, NEW d \in Donations, delete_donation(u, d) PROVE IntakeFrame
  <2>1. donation[d] = "E"
    BY <1>6, InOK DEF delete_donation
  <2> QED BY <1>6, <2>1, DonationFrame DEF delete_donation
<1>7. ASSUME NEW u \in Users, NEW d \in Donations, NEW i \in Items,
             \/ add_donation_item(u, d, i)
             \/ edit_donation_item(u, d, i)
             \/ delete_donation_item(u, d, i)
      PROVE  IntakeFrame
  BY <1>7, SameFrame DEF add_donation_item, edit_donation_item, delete_donation_item
<1>8. ASSUME NEW u \in Users, NEW d \in Donations, NEW w \in Warehouses,
             intake_form(u, d, w) \/ verify_intake(u, d, w)
      PROVE  IntakeFrame
  BY <1>8, SameFrame DEF intake_form, verify_intake, Enter
<1>9. ASSUME NEW u \in Users, NEW d \in Donations, NEW w \in Warehouses,
             _process_entry_submission(u, d, w)
      PROVE  IntakeFrame
  <2>1. dnintake[d][w] # "V" /\ donation[d] \in {"V", "P"} /\ donation' = donation
    BY <1>9, InOK DEF _process_entry_submission
  <2>2. dnintake'[d][w] \in {"I", "C"}
    BY <1>9 DEF _process_entry_submission, TypeOK
  <2>3. PICK f \in IntakeForms : dnintake_item' = [dnintake_item EXCEPT ![d][w] = f]
    BY <1>9 DEF _process_entry_submission
  <2>4. \A e \in Donations : \A x \in Warehouses : e # d \/ x # w =>
          dnintake'[e][x] = dnintake[e][x] /\ dnintake_item'[e][x] = dnintake_item[e][x]
    BY <1>9, <2>3 DEF _process_entry_submission, TypeOK
  <2> QED BY <2>1, <2>2, <2>4 DEF IntakeFrame, VerifiedIntakeStep
<1>10. ASSUME NEW u \in Users, NEW d \in Donations, NEW w \in Warehouses,
              _process_verification_submission(u, d, w)
       PROVE  IntakeFrame
  <2>1. dnintake[d][w] = "C" /\ donation[d] \in {"V", "P"}
    BY <1>10, InOK DEF _process_verification_submission, IntakesOfVerified
  <2>2. dnintake'[d][w] = "V" /\ donation'[d] = "P"
    BY <1>10 DEF _process_verification_submission, TypeOK
  <2>3. PICK f \in IntakeForms : dnintake_item' = [dnintake_item EXCEPT ![d][w] = f]
    BY <1>10 DEF _process_verification_submission
  <2>4. \A e \in Donations : \A x \in Warehouses : e # d \/ x # w =>
          dnintake'[e][x] = dnintake[e][x] /\ dnintake_item'[e][x] = dnintake_item[e][x]
    BY <1>10, <2>3 DEF _process_verification_submission, TypeOK
  <2>5. \A e \in Donations : e # d => donation'[e] = donation[e]
    BY <1>10 DEF _process_verification_submission, TypeOK
  <2> QED BY <2>1, <2>2, <2>4, <2>5 DEF IntakeFrame, VerifiedIntakeStep
<1>11. CASE UNCHANGED vars
  BY <1>11, SameFrame DEF vars
<1> QED BY <1>1, <1>2, <1>3, <1>4, <1>5, <1>6, <1>7, <1>8, <1>9, <1>10, <1>11
        DEF Next, DonationPages, IntakePages

\* The frame keeps the two invariants on statuses.
LEMMA StatusStep ==
  IntakesOfVerified /\ ProcessedIsReceived /\ IntakeFrame
    => IntakesOfVerified' /\ ProcessedIsReceived'
<1> SUFFICES ASSUME IntakesOfVerified, ProcessedIsReceived, IntakeFrame
             PROVE  IntakesOfVerified' /\ ProcessedIsReceived'
  OBVIOUS
<1>1. IntakesOfVerified'
  BY DEF IntakesOfVerified, IntakeFrame
<1>2. ProcessedIsReceived'
  <2> SUFFICES ASSUME NEW d \in Donations
               PROVE  donation'[d] = "P" <=> \E w \in Warehouses : dnintake'[d][w] = "V"
    BY DEF ProcessedIsReceived
  <2>1. donation[d] = "P" <=> \E w \in Warehouses : dnintake[d][w] = "V"
    BY DEF ProcessedIsReceived
  <2>2. \A w \in Warehouses : dnintake[d][w] = "V" => dnintake'[d][w] = "V"
    BY DEF IntakeFrame, VerifiedIntakeStep
  <2> QED BY <2>1, <2>2 DEF IntakeFrame
<1> QED BY <1>1, <1>2

-----------------------------------------------------------------------------
(* Stock.                                                                  *)

\* What each donation put into the batches and totals of a warehouse.
BatchParts(w, i, n, k) == [d \in Donations |-> BatchCredit(Received(d, w), i, n)[k]]
ItemParts(w, i, k)     == [d \in Donations |-> ItemCredit(Received(d, w), i)[k]]

LEMMA ReceivedRows ==
  ASSUME TypeOK, NEW d \in Donations, NEW w \in Warehouses
  PROVE  Received(d, w) \in IntakeForms
<1>1. << >> \in IntakeForms
  BY EmptyRows DEF IntakeForms
<1> QED BY <1>1 DEF Received, TypeOK

LEMMA PartsQty ==
  ASSUME TypeOK, NEW w \in Warehouses, NEW i, NEW n, NEW k \in Kinds
  PROVE  /\ IsQty(Donations, BatchParts(w, i, n, k))
         /\ IsQty(Donations, ItemParts(w, i, k))
BY ReceivedRows, BatchCreditType, ItemCreditType DEF IsQty, BatchParts, ItemParts

\* Rows that were not received contribute nothing.
LEMMA EmptyCredit ==
  ASSUME NEW i, NEW n, NEW k \in Kinds
  PROVE  BatchCredit(<< >>, i, n)[k] = 0 /\ ItemCredit(<< >>, i)[k] = 0
BY DEF BatchCredit, ItemCredit, NoQty

\* Steps that credit no stock.
LEMMA SameStock ==
  ASSUME StockIsVerifiedIntake, UNCHANGED stock_vars,
         \A d \in Donations : \A w \in Warehouses : Received(d, w)' = Received(d, w)
  PROVE  StockIsVerifiedIntake'
<1> SUFFICES ASSUME NEW w \in Warehouses, NEW i \in Items, NEW k \in Kinds
             PROVE  /\ \A n \in BatchNos :
                         itembatch'[w][i][n][k] = SumOver(Donations, BatchParts(w, i, n, k)')
                    /\ inventory'[w][i][k] = SumOver(Donations, ItemParts(w, i, k)')
  BY DEF StockIsVerifiedIntake, BatchParts, ItemParts
<1>1. \A n \in BatchNos : BatchParts(w, i, n, k)' = BatchParts(w, i, n, k)
  BY DEF BatchParts
<1>2. ItemParts(w, i, k)' = ItemParts(w, i, k)
  BY DEF ItemParts
<1> QED BY <1>1, <1>2 DEF StockIsVerifiedIntake, BatchParts, ItemParts, stock_vars

\* A verification adds to the stock what it adds to the donation's part.
LEMMA VerificationStock ==
  ASSUME TypeOK, TypeOK', SessionsCurrent, StockIsVerifiedIntake,
         NEW u \in Users, NEW d \in Donations, NEW w \in Warehouses,
         _process_verification_submission(u, d, w)
  PROVE  StockIsVerifiedIntake'
<1>1. PICK f \in IntakeForms : /\ dnintake_item' = [dnintake_item EXCEPT ![d][w] = f]
                               /\ itembatch' = CreditBatches(w, f)
                               /\ inventory' = CreditInventory(w, f)
  BY DEF _process_verification_submission
<1>2. dnintake[d][w] = "C" /\ dnintake'[d][w] = "V" /\ dnintake_item'[d][w] = f
  BY <1>1, InOK DEF _process_verification_submission, TypeOK
<1>3. Received(d, w) = << >> /\ Received(d, w)' = f
  BY <1>2 DEF Received
<1>4. \A e \in Donations : \A x \in Warehouses : e # d \/ x # w =>
        Received(e, x)' = Received(e, x)
  BY <1>1 DEF _process_verification_submission, TypeOK, Received
<1> SUFFICES ASSUME NEW x \in Warehouses, NEW i \in Items, NEW k \in Kinds
             PROVE  /\ \A n \in BatchNos :
                         itembatch'[x][i][n][k] = SumOver(Donations, BatchParts(x, i, n, k)')
                    /\ inventory'[x][i][k] = SumOver(Donations, ItemParts(x, i, k)')
  BY DEF StockIsVerifiedIntake, BatchParts, ItemParts
<1>5. /\ \A n \in BatchNos : itembatch[x][i][n][k] = SumOver(Donations, BatchParts(x, i, n, k))
      /\ inventory[x][i][k] = SumOver(Donations, ItemParts(x, i, k))
  BY DEF StockIsVerifiedIntake, BatchParts, ItemParts
<1>6. CASE x # w
  <2>1. \A n \in BatchNos : BatchParts(x, i, n, k)' = BatchParts(x, i, n, k)
    BY <1>4, <1>6 DEF BatchParts
  <2>2. ItemParts(x, i, k)' = ItemParts(x, i, k)
    BY <1>4, <1>6 DEF ItemParts
  <2>3. itembatch'[x] = itembatch[x] /\ inventory'[x] = inventory[x]
    BY <1>1, <1>6 DEF CreditBatches, CreditInventory, TypeOK
  <2> QED BY <1>5, <2>1, <2>2, <2>3
<1>7. CASE x = w
  <2>1. ASSUME NEW n \in BatchNos
        PROVE  itembatch'[w][i][n][k] = SumOver(Donations, BatchParts(w, i, n, k)')
    <3>1. PICK F : F = BatchParts(w, i, n, k)
      OBVIOUS
    <3>2. PICK G : G = BatchParts(w, i, n, k)'
      OBVIOUS
    <3>3. IsQty(Donations, F)
      BY <3>1, PartsQty
    <3>4. IsQty(Donations, G)
      <4>1. \A e \in Donations : Received(e, w)' \in IntakeForms
        BY <1>3, <1>4, ReceivedRows
      <4> QED BY <3>2, <4>1, BatchCreditType DEF IsQty, BatchParts
    <3>5. \A e \in Donations \ {d} : F[e] = G[e]
      BY <1>4, <3>1, <3>2 DEF BatchParts
    <3>6. F[d] = 0 /\ G[d] = BatchCredit(f, i, n)[k]
      BY <1>3, <3>1, <3>2, EmptyCredit DEF BatchParts
    <3>7. itembatch'[w][i][n][k] = itembatch[w][i][n][k] + BatchCredit(f, i, n)[k]
      BY <1>1 DEF CreditBatches, TypeOK
    <3>8. SumOver(Donations, G) = SumOver(Donations, F) - F[d] + G[d]
      BY <3>3, <3>4, <3>5, SumUpdate, DonationAssumptions
    <3>9. SumOver(Donations, F) \in Nat /\ BatchCredit(f, i, n)[k] \in Nat
      BY <3>3, SumType, DonationAssumptions, BatchCreditType
    <3>10. itembatch[w][i][n][k] = SumOver(Donations, F)
      BY <1>5, <1>7, <3>1
    <3> QED BY <3>2, <3>6, <3>7, <3>8, <3>9, <3>10
  <2>2. inventory'[w][i][k] = SumOver(Donations, ItemParts(w, i, k)')
    <3>1. PICK F : F = ItemParts(w, i, k)
      OBVIOUS
    <3>2. PICK G : G = ItemParts(w, i, k)'
      OBVIOUS
    <3>3. IsQty(Donations, F)
      BY <3>1, PartsQty
    <3>4. IsQty(Donations, G)
      <4>1. \A e \in Donations : Received(e, w)' \in IntakeForms
        BY <1>3, <1>4, ReceivedRows
      <4> QED BY <3>2, <4>1, ItemCreditType DEF IsQty, ItemParts
    <3>5. \A e \in Donations \ {d} : F[e] = G[e]
      BY <1>4, <3>1, <3>2 DEF ItemParts
    <3>6. F[d] = 0 /\ G[d] = ItemCredit(f, i)[k]
      BY <1>3, <3>1, <3>2, EmptyCredit DEF ItemParts
    <3>7. inventory'[w][i][k] = inventory[w][i][k] + ItemCredit(f, i)[k]
      BY <1>1 DEF CreditInventory, TypeOK
    <3>8. SumOver(Donations, G) = SumOver(Donations, F) - F[d] + G[d]
      BY <3>3, <3>4, <3>5, SumUpdate, DonationAssumptions
    <3>9. SumOver(Donations, F) \in Nat /\ ItemCredit(f, i)[k] \in Nat
      BY <3>3, SumType, DonationAssumptions, ItemCreditType
    <3>10. inventory[w][i][k] = SumOver(Donations, F)
      BY <1>5, <1>7, <3>1
    <3> QED BY <3>2, <3>6, <3>7, <3>8, <3>9, <3>10
  <2> QED BY <1>7, <2>1, <2>2
<1> QED BY <1>6, <1>7

\* Every step keeps the stock equal to the verified intakes.
LEMMA StockStep ==
  TypeOK /\ TypeOK' /\ SessionsCurrent /\ StockIsVerifiedIntake /\ [Next]_vars
    => StockIsVerifiedIntake'
<1> SUFFICES ASSUME TypeOK, TypeOK', SessionsCurrent, StockIsVerifiedIntake, [Next]_vars
             PROVE  StockIsVerifiedIntake'
  OBVIOUS
<1>1. ASSUME UNCHANGED <<intake_vars, stock_vars>> PROVE StockIsVerifiedIntake'
  <2>1. \A d \in Donations : \A w \in Warehouses : Received(d, w)' = Received(d, w)
    BY <1>1 DEF Received, intake_vars
  <2> QED BY <1>1, <2>1, SameStock
<1>2. ASSUME NEW u \in Users, NEW d \in Donations, NEW w \in Warehouses,
             _process_entry_submission(u, d, w)
      PROVE  StockIsVerifiedIntake'
  <2>1. dnintake[d][w] # "V"
    BY <1>2, InOK DEF _process_entry_submission
  <2>2. dnintake'[d][w] \in {"I", "C"}
    BY <1>2 DEF _process_entry_submission, TypeOK
  <2>3. PICK f \in IntakeForms : dnintake_item' = [dnintake_item EXCEPT ![d][w] = f]
    BY <1>2 DEF _process_entry_submission
  <2>4. \A e \in Donations : \A x \in Warehouses : e # d \/ x # w =>
          dnintake'[e][x] = dnintake[e][x] /\ dnintake_item'[e][x] = dnintake_item[e][x]
    BY <1>2, <2>3 DEF _process_entry_submission, TypeOK
  <2>5. \A e \in Donations : \A x \in Warehouses : Received(e, x)' = Received(e, x)
    BY <2>1, <2>2, <2>4 DEF Received
  <2> QED BY <1>2, <2>5, SameStock DEF _process_entry_submission
<1>3. ASSUME NEW u \in Users, NEW d \in Donations, NEW w \in Warehouses,
             _process_verification_submission(u, d, w)
      PROVE  StockIsVerifiedIntake'
  BY <1>3, VerificationStock
<1>4. ASSUME NEW d \in Donations, NEW f \in Forms, create_donation(d, f)
      PROVE  UNCHANGED <<intake_vars, stock_vars>>
  BY <1>4 DEF create_donation
<1>5. ASSUME NEW u \in Users, Leave(u) PROVE UNCHANGED <<intake_vars, stock_vars>>
  BY <1>5 DEF Leave
<1>6. ASSUME NEW u \in Users, NEW d \in Donations, DonationPages(u, d)
      PROVE  UNCHANGED <<intake_vars, stock_vars>>
  BY <1>6 DEF DonationPages, OpenDonation, Enter, edit_donation, verify_donation_detail,
              delete_donation, add_donation_item, edit_donation_item, delete_donation_item
<1>7. ASSUME NEW u \in Users, NEW d \in Donations, NEW w \in Warehouses,
             intake_form(u, d, w) \/ verify_intake(u, d, w)
      PROVE  UNCHANGED <<intake_vars, stock_vars>>
  BY <1>7 DEF intake_form, verify_intake, Enter
<1>8. CASE UNCHANGED vars
  BY <1>1, <1>8 DEF vars
<1> QED BY <1>1, <1>2, <1>3, <1>4, <1>5, <1>6, <1>7, <1>8 DEF Next, IntakePages

-----------------------------------------------------------------------------
(* Items of a verified donation.                                           *)

\* Steps that change the items of a donation that is not yet verified.
LEMMA EnteredItems ==
  ASSUME NEW d \in Donations, donation[d] \notin {"V", "P"},
         \A e \in Donations : e # d => donation_item'[e] = donation_item[e]
  PROVE  VerifiedItemsStep
BY DEF VerifiedItemsStep

\* A handler that inserts, or that read a row deleted since.
LEMMA UnprotectedItems ==
  ASSUME NEW u \in Users, NEW d \in Donations, session[u].d = d,
         \/ session[u].op = "add_item"
         \/ session[u].op \in {"edit_item", "delete_item"} /\ session[u].read = "deleted",
         session'[u] = Closed,
         \A e \in Donations : e # d => donation_item'[e] = donation_item[e]
  PROVE  VerifiedItemsStep
BY DEF VerifiedItemsStep

\* A handler that writes the row of an item.
LEMMA WrittenItem ==
  ASSUME TypeOK, SessionsCurrent, NEW u \in Users, NEW d \in Donations,
         NEW op \in {"edit_item", "delete_item"}, NEW i, InItem(u, op, d, i),
         session'[u] = Closed,
         \A e \in Donations : e # d => donation_item'[e] = donation_item[e]
  PROVE  VerifiedItemsStep
<1>1. PICK read \in {"current", "deleted"} :
        session[u] = [op |-> op, d |-> d, key |-> i, read |-> read]
  BY DEF InItem
<1>2. CASE read = "current"
  <2>1. SessionOK([op |-> op, d |-> d, key |-> i, read |-> "current"])
    BY <1>1, <1>2 DEF SessionsCurrent
  <2>2. donation[d] = "E"
    BY <2>1 DEF SessionOK
  <2> QED BY <2>2, EnteredItems
<1>3. CASE read = "deleted"
  BY <1>1, <1>3, UnprotectedItems
<1> QED BY <1>2, <1>3

LEMMA ItemsStep ==
  TypeOK /\ SessionsCurrent /\ [Next]_vars => VerifiedItemsStep
<1> SUFFICES ASSUME TypeOK, SessionsCurrent, [Next]_vars PROVE VerifiedItemsStep
  OBVIOUS
<1>1. ASSUME NEW d \in Donations, NEW f \in Forms, create_donation(d, f)
      PROVE  VerifiedItemsStep
  BY <1>1, EnteredItems DEF create_donation, TypeOK
<1>2. ASSUME UNCHANGED donation_item PROVE VerifiedItemsStep
  BY <1>2 DEF VerifiedItemsStep
<1>3. ASSUME NEW u \in Users, NEW d \in Donations,
             edit_donation(u, d) \/ verify_donation_detail(u, d)
      PROVE  VerifiedItemsStep
  <2>1. donation[d] = "E"
    BY <1>3, InOK DEF edit_donation, verify_donation_detail
  <2>2. \A e \in Donations : e # d => donation_item'[e] = donation_item[e]
    BY <1>3 DEF edit_donation, verify_donation_detail, TypeOK
  <2> QED BY <2>1, <2>2, EnteredItems
<1>4. ASSUME NEW u \in Users, NEW d \in Donations, NEW i \in Items, add_donation_item(u, d, i)
      PROVE  VerifiedItemsStep
  <2>1. \A e \in Donations : e # d => donation_item'[e] = donation_item[e]
    BY <1>4 DEF add_donation_item, TypeOK
  <2>2. session[u].d = d /\ session[u].op = "add_item" /\ session'[u] = Closed
    BY <1>4 DEF add_donation_item, In, AfterCommit
  <2> QED BY <2>1, <2>2, UnprotectedItems
<1>5. ASSUME NEW u \in Users, NEW d \in Donations, NEW i \in Items, edit_donation_item(u, d, i)
      PROVE  VerifiedItemsStep
  <2>1. \A e \in Donations : e # d => donation_item'[e] = donation_item[e]
    BY <1>5 DEF edit_donation_item, TypeOK
  <2>2. InItem(u, "edit_item", d, i) /\ session'[u] = Closed
    BY <1>5 DEF edit_donation_item, AfterCommit
  <2> QED BY <2>1, <2>2, WrittenItem
<1>6. ASSUME NEW u \in Users, NEW d \in Donations, NEW i \in Items, delete_donation_item(u, d, i)
      PROVE  VerifiedItemsStep
  <2>1. \A e \in Donations : e # d => donation_item'[e] = donation_item[e]
    BY <1>6 DEF delete_donation_item, TypeOK
  <2>2. InItem(u, "delete_item", d, i) /\ session'[u] = Closed
    BY <1>6 DEF delete_donation_item, AfterCommit
  <2> QED BY <2>1, <2>2, WrittenItem
<1>7. ASSUME NEW u \in Users, NEW d \in Donations, OpenDonation(u, d) \/ delete_donation(u, d)
      PROVE  UNCHANGED donation_item
  BY <1>7 DEF OpenDonation, Enter, delete_donation
<1>8. ASSUME NEW u \in Users, NEW d \in Donations, NEW w \in Warehouses, IntakePages(u, d, w)
      PROVE  UNCHANGED donation_item
  BY <1>8 DEF IntakePages, intake_form, verify_intake, Enter, _process_entry_submission,
              _process_verification_submission
<1>9. ASSUME NEW u \in Users, Leave(u) PROVE UNCHANGED donation_item
  BY <1>9 DEF Leave
<1>10. CASE UNCHANGED vars
  BY <1>2, <1>10 DEF vars
<1> QED BY <1>1, <1>2, <1>3, <1>4, <1>5, <1>6, <1>7, <1>8, <1>9, <1>10
        DEF Next, DonationPages

-----------------------------------------------------------------------------
(* Theorems.                                                               *)

\* The inductive invariant: the open pages need the statuses, the statuses and
\* the stock need the open pages.
DonationInv ==
  /\ TypeOK
  /\ SessionsCurrent
  /\ IntakesOfVerified
  /\ ProcessedIsReceived
  /\ StockIsVerifiedIntake

LEMMA InitInv ==
  Init => DonationInv
<1> SUFFICES ASSUME Init PROVE DonationInv
  OBVIOUS
<1>1. TypeOK
  <2>1. \A d \in Donations : donation_item[d] \in RowsOf(Items, 0 .. MaxQty)
    BY EmptyRows DEF Init
  <2>2. << >> \in IntakeForms
    BY EmptyRows DEF IntakeForms
  <2>3. NoQty \in [Kinds -> Nat]
    BY DEF NoQty
  <2>4. Closed \in Sessions
    BY DEF Closed, Sessions
  <2> QED BY <2>1, <2>2, <2>3, <2>4 DEF TypeOK, Init
<1>2. SessionsCurrent
  <2>1. Closed.read = "changed"
    BY DEF Closed
  <2> QED BY <2>1 DEF Init, SessionsCurrent, SessionOK
<1>3. IntakesOfVerified /\ ProcessedIsReceived
  BY DEF Init, IntakesOfVerified, ProcessedIsReceived
<1>4. StockIsVerifiedIntake
  <2> SUFFICES ASSUME NEW w \in Warehouses, NEW i \in Items, NEW k \in Kinds
               PROVE  /\ \A n \in BatchNos :
                           itembatch[w][i][n][k] = SumOver(Donations, BatchParts(w, i, n, k))
                      /\ inventory[w][i][k] = SumOver(Donations, ItemParts(w, i, k))
    BY DEF StockIsVerifiedIntake, BatchParts, ItemParts
  <2>1. \A d \in Donations : Received(d, w) = << >>
    BY DEF Init, Received
  <2>2. \A n \in BatchNos : SumOver(Donations, BatchParts(w, i, n, k)) = 0
    BY <2>1, EmptyCredit, SumZero DEF BatchParts
  <2>3. SumOver(Donations, ItemParts(w, i, k)) = 0
    BY <2>1, EmptyCredit, SumZero DEF ItemParts
  <2>4. NoQty[k] = 0
    BY DEF NoQty
  <2> QED BY <2>2, <2>3, <2>4 DEF Init
<1> QED BY <1>1, <1>2, <1>3, <1>4 DEF DonationInv

LEMMA InvStep ==
  DonationInv /\ [Next]_vars => DonationInv'
BY TypeStep, SessionsStep, FrameStep, StatusStep, StockStep DEF DonationInv

\* The inductive invariant holds of every behaviour of the donation pages.
THEOREM DonationInvariant == Spec => []DonationInv
BY InitInv, InvStep, PTL DEF Spec

\* Tables and sessions keep their types, and the quantities stay in range.
THEOREM DonationTypes == Spec => []TypeOK
<1>1. DonationInv => TypeOK
  BY DEF DonationInv
<1> QED BY <1>1, DonationInvariant, PTL

\* For any number of users, donations and warehouses: a check made when a page
\* was opened holds at its commit, or the row version refuses the commit.
THEOREM SessionsStayCurrent == Spec => []SessionsCurrent
<1>1. DonationInv => SessionsCurrent
  BY DEF DonationInv
<1> QED BY <1>1, DonationInvariant, PTL

\* The batches and totals of every warehouse are the sum of the verified
\* intakes: no intake is credited twice and none is lost.
THEOREM StockFromIntakes == Spec => []StockIsVerifiedIntake
<1>1. DonationInv => StockIsVerifiedIntake
  BY DEF DonationInv
<1> QED BY <1>1, DonationInvariant, PTL

\* A donation is Processed exactly when an intake of it was verified.
THEOREM ProcessedReceived == Spec => []ProcessedIsReceived
<1>1. DonationInv => ProcessedIsReceived
  BY DEF DonationInv
<1> QED BY <1>1, DonationInvariant, PTL

\* The rows of a verified intake never change.
THEOREM IntakeFinal == Spec => VerifiedIntakeFinal
<1>1. DonationInv /\ [Next]_vars => [VerifiedIntakeStep]_vars
  BY FrameStep DEF DonationInv, IntakeFrame
<1> QED BY <1>1, DonationInvariant, PTL DEF Spec, VerifiedIntakeFinal

\* The items of a verified donation change only by an insert, or by a handler
\* that read a row which was deleted and inserted again since.
THEOREM ItemsDrift == Spec => VerifiedItemsDrift
<1>1. DonationInv /\ [Next]_vars => [VerifiedItemsStep]_vars
  BY ItemsStep DEF DonationInv
<1> QED BY <1>1, DonationInvariant, PTL DEF Spec, VerifiedItemsDrift

\* No donation has intakes submitted or verified at two warehouses.
SubmittedOnce ==
  \A d \in Donations : \A v, w \in Warehouses :
    dnintake[d][v] \in {"C", "V"} /\ dnintake[d][w] \in {"C", "V"} => v = w

\* "Only verified donations can be intaken" holds, for any number of users and open
\* pages, while no donation is submitted for intake at two warehouses: nothing
\* else lets _process_verification_submission credit a donation a second time.
THEOREM CreditedTwiceOnlyAtTwo == Spec /\ []SubmittedOnce => OnlyVerifiedIntaken
<1> DEFINE Step == \A d \in Donations : \A w \in Warehouses :
                     dnintake'[d][w] = "V" /\ dnintake[d][w] # "V" => donation[d] = "V"
<1>1. ASSUME DonationInv, SubmittedOnce, [Next]_vars
      PROVE  Step
  <2> SUFFICES ASSUME NEW d \in Donations, NEW w \in Warehouses,
                      dnintake'[d][w] = "V", dnintake[d][w] # "V"
               PROVE  donation[d] = "V"
    OBVIOUS
  <2>1. dnintake[d][w] = "C" /\ donation[d] \in {"V", "P"}
    BY <1>1, FrameStep DEF DonationInv, IntakeFrame
  <2>2. ASSUME donation[d] = "P" PROVE FALSE
    <3>1. PICK v \in Warehouses : dnintake[d][v] = "V"
      BY <1>1, <2>2 DEF DonationInv, ProcessedIsReceived
    <3> QED BY <1>1, <2>1, <3>1 DEF SubmittedOnce
  <2> QED BY <2>1, <2>2
<1>2. DonationInv /\ SubmittedOnce /\ [Next]_vars => [Step]_vars
  BY <1>1
<1> HIDE DEF Step
<1>3. Spec /\ []SubmittedOnce => [][Step]_vars
  BY <1>2, DonationInvariant, PTL DEF Spec
<1> QED BY <1>3 DEF OnlyVerifiedIntaken, Step
=============================================================================
