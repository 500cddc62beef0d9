------------------------------ MODULE Donations ------------------------------
(***************************************************************************)
(* Donations and their intake into warehouses: features/donations.py and   *)
(* features/donation_intake.py.                                            *)
(*                                                                         *)
(* A donation is entered, verified by a manager and then received at a     *)
(* warehouse: an officer enters the intake, a manager verifies it, and     *)
(* only then is stock credited. The pages of one user interleave with      *)
(* those of the others: a handler reads rows, checks them and the form,    *)
(* and commits. Every row carries version_nbr, and an UPDATE or DELETE of  *)
(* a row that changed since it was read is refused, so a session records   *)
(* only what became of the rows it will write since it read them. A row    *)
(* that is deleted and inserted again starts at version 1 again, so its    *)
(* version may be the one that was read.                                   *)
(*                                                                         *)
(* Opening a page and posting it are one read: pages that post a version   *)
(* are refused unless the row is unchanged since the page was shown. The   *)
(* rows that a handler does not write may change after it read them.       *)
(*                                                                         *)
(* The stock here is what intakes credited. Packages that take stock away  *)
(* are the subject of module Fulfillment. Warehouses are those that allow  *)
(* donation intake. Dates, costs, units, donors and documents are left     *)
(* out: they only make more forms refused.                                 *)
(***************************************************************************)
EXTENDS Quantities

CONSTANTS
  Donations, Items,
  Goods,          \* the items whose category is GOODS; the others are FUNDS
  Warehouses, BatchNos,
  MaxQty,         \* bound on a quantity in a form
  Users

ASSUME DonationAssumptions ==
  /\ IsFiniteSet(Donations)
  /\ Goods \subseteq Items
  /\ MaxQty \in Nat

VARIABLES
  donation,       \* status_code of each donation
  donation_item,  \* the donation's rows: item_qty of each item it has
  dnintake,       \* status_code of the intake of a donation at a warehouse
  dnintake_item,  \* the intake's rows: batch and quantities of each item
  itembatch,      \* the three quantities of a batch at a warehouse
  inventory,      \* the three totals of an item at a warehouse
  session         \* the handler each user is in

intake_vars == <<dnintake, dnintake_item>>
stock_vars  == <<itembatch, inventory>>
vars == <<donation, donation_item, intake_vars, stock_vars, session>>

Kinds == {"usable_qty", "defective_qty", "expired_qty"}
NoQty == [k \in Kinds |-> 0]
Total(qty) == qty["usable_qty"] + qty["defective_qty"] + qty["expired_qty"]

\* Rows for some of the items of S, with values in T.
RowsOf(S, T) == UNION {[R -> T] : R \in SUBSET S}

IntakeRows(T) == [batch_no : BatchNos, qty : [Kinds -> T]]

IntakeForms == RowsOf(Goods, IntakeRows(0 .. MaxQty))
Forms == {f \in RowsOf(Items, 0 .. MaxQty) : DOMAIN f # {}}

-----------------------------------------------------------------------------
(* Sessions and row versions.                                              *)

Closed == [op |-> "closed", d |-> "none", key |-> "none", read |-> "changed"]

DonationRow(d)  == <<"donation", d, "none">>
ItemRow(d, i)   == <<"donation_item", d, i>>
ItemRows(d, S)  == {ItemRow(d, i) : i \in S}
IntakeRow(d, w) == <<"dnintake", d, w>>

\* Mutant: dnintake has no version_id_col.
Versioned_NoIntake(s) ==
  CASE s.op \in {"edit", "verify", "delete", "verify_intake"} -> {DonationRow(s.d)}
    [] s.op \in {"edit_item", "delete_item"} -> {ItemRow(s.d, s.key)}
    [] OTHER -> {}

\* Mutant: donation_item has no version_id_col.
Versioned_NoItem(s) ==
  CASE s.op \in {"edit", "verify", "delete"} -> {DonationRow(s.d)}
    [] s.op = "entry"         -> {IntakeRow(s.d, s.key)}
    [] s.op = "verify_intake" -> {IntakeRow(s.d, s.key), DonationRow(s.d)}
    [] OTHER                  -> {}

\* The rows a handler updates or deletes at its commit.
Versioned(s) ==
  CASE s.op \in {"edit", "verify", "delete"} -> {DonationRow(s.d)}
    [] s.op \in {"edit_item", "delete_item"}  -> {ItemRow(s.d, s.key)}
    [] s.op = "entry"         -> {IntakeRow(s.d, s.key)}
    [] s.op = "verify_intake" -> {IntakeRow(s.d, s.key), DonationRow(s.d)}
    [] OTHER                  -> {}

Enter(u, op, d, key) ==
  /\ session[u] = Closed
  /\ session' = [session EXCEPT ![u] =
                   [op |-> op, d |-> d, key |-> key, read |-> "current"]]
  /\ UNCHANGED <<donation, donation_item, intake_vars, stock_vars>>

\* User u is in handler op, and the rows it read and will write are unchanged.
In(u, op, d, key) ==
  session[u] = [op |-> op, d |-> d, key |-> key, read |-> "current"]

\* User u is in a handler that writes the row of item i, which is there with
\* the version that was read: it is unchanged, or it was inserted again.
InItem(u, op, d, i) ==
  /\ \E read \in {"current", "deleted"} :
       session[u] = [op |-> op, d |-> d, key |-> i, read |-> read]
  /\ i \in DOMAIN donation_item[d]

\* Mutant: the version is not part of the UPDATE's WHERE clause.
AfterCommit_NoVersion(u, rows, gone) ==
  [v \in Users |-> IF v = u THEN Closed ELSE session[v]]

\* The sessions after u committed changes to some rows and deleted others.
AfterCommit(u, rows, gone) ==
  [v \in Users |->
     IF v = u THEN Closed
     ELSE IF Versioned(session[v]) \cap gone # {} THEN [session[v] EXCEPT !.read = "deleted"]
     ELSE IF Versioned(session[v]) \cap rows # {} /\ session[v].read = "current"
          THEN [session[v] EXCEPT !.read = "changed"]
     ELSE session[v]]

\* A refused POST is rolled back; a page may also be left.
Leave(u) ==
  /\ session[u] # Closed
  /\ session' = [session EXCEPT ![u] = Closed]
  /\ UNCHANGED <<donation, donation_item, intake_vars, stock_vars>>

\* An intake row refers to a row of its donation.
fk_dnintake_item_donation_item ==
  \A d \in Donations : \A w \in Warehouses :
    DOMAIN dnintake_item[d][w] \subseteq DOMAIN donation_item[d]

-----------------------------------------------------------------------------
(* Donations: features/donations.py.                                       *)

create_donation(d, f) ==
  /\ donation[d] = "none"
  /\ donation' = [donation EXCEPT ![d] = "E"]
  /\ donation_item' = [donation_item EXCEPT ![d] = f]
  /\ UNCHANGED <<intake_vars, stock_vars, session>>

\* Every page on an entered donation refuses the statuses V and P.
OpenDonation(u, d) ==
  /\ donation[d] = "E"
  /\ \/ \E op \in {"edit", "verify", "add_item"} : Enter(u, op, d, "none")
     \/ donation_item[d] = << >> /\ Enter(u, "delete", d, "none")
     \/ \E i \in DOMAIN donation_item[d], op \in {"edit_item", "delete_item"} :
          Enter(u, op, d, i)

\* Items that are not in the form are deleted. An item the form calls existing
\* is updated if it is there and skipped if it is not; another is inserted,
\* which the primary key refuses if it is there: new are the inserted ones.
edit_donation(u, d) ==
  /\ In(u, "edit", d, "none")
  /\ \E f \in Forms : \E new \in SUBSET (DOMAIN f \ DOMAIN donation_item[d]) :
       LET left == (DOMAIN f \cap DOMAIN donation_item[d]) \cup new
       IN  /\ donation_item' = [donation_item EXCEPT ![d] = [i \in left |-> f[i]]]
           /\ session' = AfterCommit(u, {DonationRow(d)} \cup ItemRows(d, left),
                                     ItemRows(d, Items \ left))
  /\ UNCHANGED <<donation, intake_vars, stock_vars>>
  /\ fk_dnintake_item_donation_item'

\* The form of the manager's page: the quantity of funds is 1.
VerifiedForm(f) == \A i \in DOMAIN f \ Goods : f[i] = 1

\* The manager's page replaces the items.
verify_donation_detail(u, d) ==
  /\ In(u, "verify", d, "none")
  /\ donation' = [donation EXCEPT ![d] = "V"]
  /\ \E f \in Forms : /\ VerifiedForm(f)
                      /\ donation_item' = [donation_item EXCEPT ![d] = f]
                      /\ session' = AfterCommit(u, {DonationRow(d)} \cup ItemRows(d, DOMAIN f),
                                                ItemRows(d, Items \ DOMAIN f))
  /\ UNCHANGED <<intake_vars, stock_vars>>
  /\ fk_dnintake_item_donation_item'

delete_donation(u, d) ==
  /\ In(u, "delete", d, "none")
  /\ donation_item[d] = << >>
  /\ donation' = [donation EXCEPT ![d] = "deleted"]
  /\ session' = AfterCommit(u, {DonationRow(d)}, {})
  /\ UNCHANGED <<donation_item, intake_vars, stock_vars>>

\* The header is read but not written: its version does not protect the insert.
add_donation_item(u, d, i) ==
  /\ In(u, "add_item", d, "none")
  /\ donation[d] # "deleted"
  /\ i \notin DOMAIN donation_item[d]
  /\ \E q \in 1 .. MaxQty : donation_item' = [donation_item EXCEPT ![d] =
       [j \in DOMAIN donation_item[d] \cup {i} |-> IF j = i THEN q ELSE donation_item[d][j]]]
  /\ session' = AfterCommit(u, {ItemRow(d, i)}, {})
  /\ UNCHANGED <<donation, intake_vars, stock_vars>>

\* Mutant: the form's quantity is added to the row's.
edit_donation_item_Adds(u, d, i) ==
  /\ InItem(u, "edit_item", d, i)
  /\ \E q \in 1 .. MaxQty : donation_item' = [donation_item EXCEPT ![d][i] = @ + q]
  /\ session' = AfterCommit(u, {ItemRow(d, i)}, {})
  /\ UNCHANGED <<donation, intake_vars, stock_vars>>

edit_donation_item(u, d, i) ==
  /\ InItem(u, "edit_item", d, i)
  /\ \E q \in 1 .. MaxQty : donation_item' = [donation_item EXCEPT ![d][i] = q]
  /\ session' = AfterCommit(u, {ItemRow(d, i)}, {})
  /\ UNCHANGED <<donation, intake_vars, stock_vars>>

delete_donation_item(u, d, i) ==
  /\ InItem(u, "delete_item", d, i)
  /\ donation_item' = [donation_item EXCEPT ![d] =
       [j \in DOMAIN donation_item[d] \ {i} |-> donation_item[d][j]]]
  /\ session' = AfterCommit(u, {}, {ItemRow(d, i)})
  /\ UNCHANGED <<donation, intake_vars, stock_vars>>
  /\ fk_dnintake_item_donation_item'

-----------------------------------------------------------------------------
(* Intake: features/donation_intake.py.                                    *)

\* A verified intake is closed; a submitted one may be entered again.
intake_form(u, d, w) ==
  /\ donation[d] = "V"
  /\ dnintake[d][w] # "V"
  /\ Enter(u, "entry", d, w)

\* The goods of the donation, which the entry form must cover.
_get_goods_items_for_donation(d) == DOMAIN donation_item[d] \cap Goods

\* Something is usable, and the three quantities add up to the donated one.
EntryValid(d, f) ==
  /\ DOMAIN f = _get_goods_items_for_donation(d)
  /\ \A i \in DOMAIN f : /\ f[i].qty["usable_qty"] > 0
                         /\ Total(f[i].qty) = donation_item[d][i]

_process_entry_submission(u, d, w) ==
  /\ In(u, "entry", d, w)
  /\ \E status \in {"I", "C"} : dnintake' = [dnintake EXCEPT ![d][w] = status]
  /\ \E f \in IntakeForms : /\ EntryValid(d, f)
                            /\ dnintake_item' = [dnintake_item EXCEPT ![d][w] = f]
  /\ session' = AfterCommit(u, {IntakeRow(d, w)}, {})
  /\ UNCHANGED <<donation, donation_item, stock_vars>>

verify_intake(u, d, w) ==
  /\ dnintake[d][w] = "C"
  /\ Enter(u, "verify_intake", d, w)

\* The manager may move units between the three quantities and correct the
\* batch number. The donation's status is not looked at.
VerificationValid(d, w, f) ==
  /\ DOMAIN f = DOMAIN dnintake_item[d][w]
  /\ \A i \in DOMAIN f :
       /\ i \in DOMAIN donation_item[d] /\ donation_item[d][i] > 0
       /\ Total(f[i].qty) = Total(dnintake_item[d][w][i].qty)
       /\ f[i].qty["usable_qty"] > 0
       /\ f[i].qty["defective_qty"] + f[i].qty["expired_qty"] <= donation_item[d][i]

\* What the rows f add to batch n of item i, and to the item's totals.
BatchCredit(f, i, n) == IF i \in DOMAIN f /\ f[i].batch_no = n THEN f[i].qty ELSE NoQty
ItemCredit(f, i)     == IF i \in DOMAIN f THEN f[i].qty ELSE NoQty

\* Mutant: an existing batch is overwritten.
CreditBatches_Overwrite(w, f) ==
  [itembatch EXCEPT ![w] = [i \in Items |-> [n \in BatchNos |->
     IF BatchCredit(f, i, n) = NoQty THEN itembatch[w][i][n] ELSE BatchCredit(f, i, n)]]]

CreditBatches(w, f) ==
  [itembatch EXCEPT ![w] = [i \in Items |-> [n \in BatchNos |-> [k \in Kinds |->
     itembatch[w][i][n][k] + BatchCredit(f, i, n)[k]]]]]

CreditInventory(w, f) ==
  [inventory EXCEPT ![w] = [i \in Items |-> [k \in Kinds |->
     inventory[w][i][k] + ItemCredit(f, i)[k]]]]

_process_verification_submission(u, d, w) ==
  /\ In(u, "verify_intake", d, w)
  /\ dnintake' = [dnintake EXCEPT ![d][w] = "V"]
  /\ \E f \in IntakeForms : /\ VerificationValid(d, w, f)
                            /\ dnintake_item' = [dnintake_item EXCEPT ![d][w] = f]
                            /\ itembatch' = CreditBatches(w, f)
                            /\ inventory' = CreditInventory(w, f)
  /\ donation' = [donation EXCEPT ![d] = "P"]
  /\ session' = AfterCommit(u, {IntakeRow(d, w), DonationRow(d)}, {})
  /\ UNCHANGED donation_item

-----------------------------------------------------------------------------
Init ==
  /\ donation = [d \in Donations |-> "none"]
  /\ donation_item = [d \in Donations |-> << >>]
  /\ dnintake = [d \in Donations |-> [w \in Warehouses |-> "none"]]
  /\ dnintake_item = [d \in Donations |-> [w \in Warehouses |-> << >>]]
  /\ itembatch = [w \in Warehouses |-> [i \in Items |-> [n \in BatchNos |-> NoQty]]]
  /\ inventory = [w \in Warehouses |-> [i \in Items |-> NoQty]]
  /\ session = [u \in Users |-> Closed]

DonationPages(u, d) ==
  \/ OpenDonation(u, d)
  \/ edit_donation(u, d)
  \/ verify_donation_detail(u, d)
  \/ delete_donation(u, d)
  \/ \E i \in Items : \/ add_donation_item(u, d, i)
                      \/ edit_donation_item(u, d, i)
                      \/ delete_donation_item(u, d, i)

IntakePages(u, d, w) ==
  \/ intake_form(u, d, w)
  \/ _process_entry_submission(u, d, w)
  \/ verify_intake(u, d, w)
  \/ _process_verification_submission(u, d, w)

Next ==
  \/ \E d \in Donations, f \in Forms : create_donation(d, f)
  \/ \E u \in Users : \/ Leave(u)
                      \/ \E d \in Donations :
                           \/ DonationPages(u, d)
                           \/ \E w \in Warehouses : IntakePages(u, d, w)

Spec == Init /\ [][Next]_vars

-----------------------------------------------------------------------------
(* Properties.                                                             *)

Sessions ==
  [op : {"closed", "edit", "verify", "delete", "add_item", "edit_item", "delete_item",
         "entry", "verify_intake"},
   d : Donations \cup {"none"}, key : Items \cup Warehouses \cup {"none"},
   read : {"current", "changed", "deleted"}]

\* The tables and the sessions have their types, and the check constraints
\* on the three status codes and the signs of the quantities hold.
TypeOK ==
  /\ donation \in [Donations -> {"none", "E", "V", "P", "deleted"}]
  /\ donation_item \in [Donations -> RowsOf(Items, 0 .. MaxQty)]
  /\ dnintake \in [Donations -> [Warehouses -> {"none", "I", "C", "V"}]]
  /\ dnintake_item \in [Donations -> [Warehouses -> IntakeForms]]
  /\ itembatch \in [Warehouses -> [Items -> [BatchNos -> [Kinds -> Nat]]]]
  /\ inventory \in [Warehouses -> [Items -> [Kinds -> Nat]]]
  /\ session \in [Users -> Sessions]

\* What a handler checked when it read a row it will write still holds until
\* its commit, or the row's version has changed and the commit is refused.
SessionOK(s) ==
  s.read = "current" =>
    /\ s.d \in Donations
    /\ s.op \in {"edit", "verify", "delete"} => donation[s.d] = "E"
    /\ s.op \in {"edit_item", "delete_item"} =>
         donation[s.d] = "E" /\ s.key \in DOMAIN donation_item[s.d]
    /\ s.op = "entry" => /\ s.key \in Warehouses /\ dnintake[s.d][s.key] # "V"
                         /\ donation[s.d] \in {"V", "P"}
    /\ s.op = "verify_intake" => s.key \in Warehouses /\ dnintake[s.d][s.key] = "C"

\* Checks made when a page is opened hold at its commit: a donation is edited,
\* verified and deleted, and its item rows are written, only while it is Entered; an
\* intake is entered only until it is verified and verified only once submitted.
SessionsCurrent == \A u \in Users : SessionOK(session[u])

\* The rows of the intake of d at w that are in stock.
Received(d, w) == IF dnintake[d][w] = "V" THEN dnintake_item[d][w] ELSE << >>

\* Stock comes from verified intakes: each one is in the batches and in the
\* totals once, with the quantities its rows show, however entries, corrections
\* of batch numbers and verifications of several users interleave.
StockIsVerifiedIntake ==
  \A w \in Warehouses : \A i \in Items : \A k \in Kinds :
    /\ \A n \in BatchNos :
         itembatch[w][i][n][k] =
           SumOver(Donations, [d \in Donations |-> BatchCredit(Received(d, w), i, n)[k]])
    /\ inventory[w][i][k] =
         SumOver(Donations, [d \in Donations |-> ItemCredit(Received(d, w), i)[k]])

\* A donation is Processed exactly when an intake of it was verified: no page
\* that was opened earlier sets its status back (the row's version).
ProcessedIsReceived ==
  \A d \in Donations : donation[d] = "P" <=> \E w \in Warehouses : dnintake[d][w] = "V"

\* Once an intake is verified its rows stay as they were credited, although
\* the entry page can be open, or be posted again, while the manager verifies.
VerifiedIntakeStep ==
  \A d \in Donations : \A w \in Warehouses :
    dnintake[d][w] = "V" => /\ dnintake'[d][w] = "V"
                            /\ dnintake_item'[d][w] = dnintake_item[d][w]
VerifiedIntakeFinal == [][VerifiedIntakeStep]_vars

\* The versions do not protect the items of a verified donation in two cases
\* only: an item is inserted by a user who came to the page while the donation
\* was still Entered, and a row is changed by a user who read an earlier row of
\* the same item, which was deleted and inserted again.
VerifiedItemsStep ==
  \A d \in Donations :
    donation[d] \in {"V", "P"} /\ donation_item'[d] # donation_item[d]
      => \E u \in Users : /\ session[u].d = d
                           /\ \/ session[u].op = "add_item"
                              \/ /\ session[u].op \in {"edit_item", "delete_item"}
                                 /\ session[u].read = "deleted"
                           /\ session'[u] = Closed
VerifiedItemsDrift == [][VerifiedItemsStep]_vars

-----------------------------------------------------------------------------
(* What the code says of itself and does not do.                           *)

\* "Only verified donations can be intaken": stock is credited for a donation
\* that is verified, and not for one already processed into another warehouse.
OnlyVerifiedIntaken ==
  [][\A d \in Donations : \A w \in Warehouses :
       dnintake'[d][w] = "V" /\ dnintake[d][w] # "V" => donation[d] = "V"]_vars
=============================================================================
