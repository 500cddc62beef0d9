------------------------------ MODULE MasterData ------------------------------
(***************************************************************************)
(* The tables that the workflows refer to, and the pages that maintain     *)
(* them: features/custodians.py, warehouses.py, agencies.py, events.py,    *)
(* beneficiaries.py, items.py, item_categories.py, uom.py and donors.py.   *)
(*                                                                         *)
(* A POST reads the row, compares its version with the page's, checks the  *)
(* form and commits; other users commit between the checks and the commit. *)
(* The page shows the row the POST reads, or the POST is refused, so that  *)
(* opening the page and checking the form are one step here. At the commit *)
(* the database checks version, uniqueness and foreign keys once more.     *)
(*                                                                         *)
(* A row is abstracted to its status, its version, the column whose values *)
(* are unique, here called name, and its references. A form whose name is  *)
(* NULL lacks something mandatory. An agency is a DISTRIBUTOR if it has a  *)
(* warehouse and a SHELTER if not, as c_agency_5 demands. A table that is  *)
(* not in Tables does not change.                                          *)
(***************************************************************************)
EXTENDS Integers, FiniteSets

CONSTANTS
  Tables,      \* the tables that change
  Keys,        \* the primary keys of each table
  Names,       \* the names, and
  Statuses,    \* the statuses that the forms of each table may hold
  Uses,        \* the foreign keys of other workflows that change, as pairs of tables
  Users,
  MaxVersion   \* bound: rows of a table that have this version are not written again

NULL == "null"

\* Foreign keys that are NOT NULL.
Mandatory == {<<"warehouse", "custodian">>, <<"item", "itemcatg">>, <<"item", "unitofmeasure">>}

\* Foreign keys of other workflows that refuse a deletion: NOT NULL, or needed by a
\* CHECK (the unit of donated goods). "stock" is what an item has in some warehouse,
\* and a request refers to its agency while it is active.
KeptUses ==
  {<<"donation", "event">>, <<"donation", "donor">>, <<"donation", "custodian">>,
   <<"inventory", "warehouse">>, <<"reliefpkg", "warehouse">>,
   <<"inventory", "unitofmeasure">>, <<"donation_item", "unitofmeasure">>,
   <<"stock", "item">>, <<"reliefrqst", "agency">>}

\* Those that SQLAlchemy sets to NULL, or whose rows it removes, with the row they
\* refer to. Packages, distribution packages and transfers refer to an event as
\* requests do, distribution packages to a warehouse as notifications do.
NulledUses ==
  {<<"reliefrqst", "event">>, <<"notification", "warehouse">>, <<"user_warehouse", "warehouse">>}

ASSUME MasterDataAssumptions ==
  /\ Tables \subseteq {"custodian", "warehouse", "agency", "event", "beneficiary",
                       "item", "itemcatg", "unitofmeasure", "donor"}
  /\ DOMAIN Keys = Tables /\ DOMAIN Names = Tables /\ DOMAIN Statuses = Tables
  /\ \A t \in Tables : /\ NULL \notin Keys[t] /\ NULL \notin Names[t]
                       /\ Statuses[t] \subseteq {"A", "I"}
  /\ Uses \subseteq {r \in KeptUses \cup NulledUses : r[2] \in Tables}
  /\ MaxVersion \in [Tables -> Nat]

VARIABLES
  table,      \* the rows of each table
  used,       \* the rows that other workflows refer to, by foreign key
  session     \* the handler each user is in

vars == <<table, used, session>>

-----------------------------------------------------------------------------
(* Rows: db/models.py.                                                     *)

\* Foreign keys that do not become NULL: an agency that has a warehouse keeps it.
Kept == Mandatory \cup {<<"agency", "warehouse">>}

\* Foreign keys that SQLAlchemy sets to NULL when the row they refer to is
\* deleted: their relationships have neither a cascade nor passive_deletes.
Nulled == {<<"agency", "event">>, <<"beneficiary", "warehouse">>, <<"beneficiary", "agency">>}

References == [t \in Tables |-> {p \in Tables : <<t, p>> \in Kept \cup Nulled}]

AllKeys == UNION {Keys[t] : t \in Tables}

\* What a form of each table may hold.
Forms == [t \in Tables |->
  [name : Names[t] \cup {NULL}, status_code : Statuses[t],
   refs : {f \in [References[t] -> AllKeys \cup {NULL}] :
             \A p \in References[t] : f[p] \in Keys[p] \cup {NULL}}]]

NoRow(t, status) ==
  [status_code |-> status, version_nbr |-> 0, name |-> NULL, refs |-> [p \in References[t] |-> NULL]]

Row(form, v) ==
  [status_code |-> form.status_code, version_nbr |-> v, name |-> form.name, refs |-> form.refs]

Exists(t, k) == table[t][k].status_code \notin {"absent", "deleted"}

\* The rows of t that refer to row k of p.
Referring(t, p, k) == {j \in Keys[t] : Exists(t, j) /\ table[t][j].refs[p] = k}

Referenced(p, k) == \E t \in Tables : p \in References[t] /\ Referring(t, p, k) # {}

\* Other workflows refer to row k of p, by one of these foreign keys.
InUse(p, k, fks) == \E r \in Uses \cap fks : r[2] = p /\ k \in used[r]

-----------------------------------------------------------------------------
(* The two halves of a POST.                                               *)

NoForm == [name |-> NULL, status_code |-> NULL, refs |-> << >>]
NothingSeen == [status_code |-> "absent", version_nbr |-> 0, name |-> NULL, refs |-> << >>]

Closed == [op |-> "closed", t |-> NULL, k |-> NULL, seen |-> NothingSeen, form |-> NoForm]

Enter(u, op, t, k, seen, form) ==
  /\ session[u] = Closed
  /\ session' = [session EXCEPT ![u] =
       [op |-> op, t |-> t, k |-> k, seen |-> seen, form |-> form]]
  /\ UNCHANGED <<table, used>>

\* The handler gives up: its page is left, or it reports an error.
Leave(u) ==
  /\ session[u] # Closed
  /\ session' = [session EXCEPT ![u] = Closed]
  /\ UNCHANGED <<table, used>>

PostNew(u, t, form) == Enter(u, "create", t, NULL, NothingSeen, form)

Post(u, op, t, k, form) == Exists(t, k) /\ Enter(u, op, t, k, table[t][k], form)

In(u, op, t, k) == session[u].op = op /\ session[u].t = t /\ session[u].k = k

\* Mutant: the WHERE clause does not contain the version.
Unchanged_Any(u, t, k) == Exists(t, k)

\* version_id_col: the row has the version that u's handler read.
Unchanged(u, t, k) == Exists(t, k) /\ table[t][k].version_nbr = session[u].seen.version_nbr

UniqueTables == {"custodian", "agency", "item", "itemcatg", "donor"}

\* The tables whose names have a unique constraint in the database.
uk(t, k, name) ==
  t \in UniqueTables => \A j \in Keys[t] \ {k} : Exists(t, j) => table[t][j].name # name

\* Mutant: there are no foreign keys.
fk_Dropped(t, refs) == TRUE

fk(t, refs) ==
  \A p \in References[t] : IF refs[p] = NULL THEN <<t, p>> \notin Mandatory
                                             ELSE Exists(p, refs[p])

Write(u, t, k, row) ==
  /\ table' = [table EXCEPT ![t][k] = row]
  /\ session' = [session EXCEPT ![u] = Closed]
  /\ UNCHANGED used

Insert(u, t, k) ==
  LET form == session[u].form IN
    /\ In(u, "create", t, NULL)
    /\ table[t][k].status_code = "absent"
    /\ uk(t, k, form.name) /\ fk(t, form.refs)
    /\ Write(u, t, k, Row(form, 1))

Update(u, op, t, k, form) ==
  /\ In(u, op, t, k)
  /\ Unchanged(u, t, k)
  /\ table[t][k].version_nbr < MaxVersion[t]
  /\ uk(t, k, form.name) /\ fk(t, form.refs)
  /\ Write(u, t, k, Row(form, table[t][k].version_nbr + 1))

Edit(u, t, k) == Update(u, "edit", t, k, session[u].form)

SetStatus(u, op, t, k, status) ==
  Update(u, op, t, k, [table[t][k] EXCEPT !.status_code = status])

\* Mutant: the references are set to NULL behind the ORM's back.
SetNull_SameVersion(t, p, k, row) ==
  IF p \in References[t] /\ row.refs[p] = k THEN [row EXCEPT !.refs[p] = NULL] ELSE row

\* The references to row k of p are set to NULL, an UPDATE like any other.
SetNull(t, p, k, row) ==
  IF p \in References[t] /\ row.refs[p] = k
  THEN Row([row EXCEPT !.refs[p] = NULL], row.version_nbr + 1)
  ELSE row

\* A serial number is not given out again; a unit's code may be.
Gone(p) == IF p = "unitofmeasure" THEN "absent" ELSE "deleted"

\* What other workflows refer to once the references to row k of p are NULL.
Dropped(p, k) == [r \in Uses |-> IF r[2] = p THEN used[r] \ {k} ELSE used[r]]

\* The commit of a deletion: refused if a reference would remain.
Delete(u, p, k) ==
  /\ In(u, "delete", p, k)
  /\ Unchanged(u, p, k)
  /\ ~ InUse(p, k, KeptUses)
  /\ \A t \in Tables : <<t, p>> \in Kept => Referring(t, p, k) = {}
  /\ \A t \in Tables : <<t, p>> \in Nulled =>
       \A j \in Referring(t, p, k) : table[t][j].version_nbr < MaxVersion[t]
  /\ table' = [t \in Tables |-> [j \in Keys[t] |->
       IF t = p /\ j = k THEN NoRow(p, Gone(p)) ELSE SetNull(t, p, k, table[t][j])]]
  /\ session' = [session EXCEPT ![u] = Closed]
  /\ used' = Dropped(p, k)

-----------------------------------------------------------------------------
(* What the handlers check before they commit.                             *)

\* Mutant: mandatory fields are not asked for.
Complete_Any(form) == TRUE

Complete(form) == form.name # NULL

\* Mutant: the name is looked up for new rows only.
UniqueName_New(t, k, form) ==
  k = NULL => \A j \in Keys[t] : Exists(t, j) => table[t][j].name # form.name

\* No other row has the name (k is NULL for a new row).
UniqueName(t, k, form) == \A j \in Keys[t] \ {k} : Exists(t, j) => table[t][j].name # form.name

\* A reference is chosen and its row is there.
Chosen(p, form) == p \in Tables => form.refs[p] # NULL /\ Exists(p, form.refs[p])

validate_custodian_data(k, form) == Complete(form) /\ UniqueName("custodian", k, form)

validate_warehouse_data(k, form) ==
  Complete(form) /\ UniqueName("warehouse", k, form) /\ Chosen("custodian", form)

\* The event is not checked.
validate_agency_data(k, form) ==
  /\ Complete(form)
  /\ UniqueName("agency", k, form)
  /\ "warehouse" \in Tables /\ form.refs["warehouse"] # NULL => Chosen("warehouse", form)

\* Event names need not be unique, and no form closes an event.
validate_event_data(form) == Complete(form) /\ form.status_code = "A"

\* Neither name nor references are checked.
validate_beneficiary_data(form) == Complete(form)

\* Category and unit must be chosen but are not looked up.
check_uniqueness(k, form) == UniqueName("item", k, form)

ItemForm(k, form) ==
  /\ Complete(form)
  /\ \A p \in References["item"] : form.refs[p] # NULL
  /\ check_uniqueness(k, form)

validate_category_data(k, form) == Complete(form) /\ UniqueName("itemcatg", k, form)

\* The code, the row's key, must be free or the row's own.
validate_uom_data(k, code, form) ==
  Complete(form) /\ (Exists("unitofmeasure", code) => code = k)

validate_donor_data(k, form) == Complete(form) /\ UniqueName("donor", k, form)

\* The goods of donations are not looked at: this is left to the database.
check_uom_references(k) ==
  Referenced("unitofmeasure", k) \/ InUse("unitofmeasure", k, {<<"inventory", "unitofmeasure">>})

check_item_can_be_inactivated(k) == ~ InUse("item", k, {<<"stock", "item">>})

-----------------------------------------------------------------------------
(* The handlers. The first disjunct of each is what it reads and checks,   *)
(* the second its commit.                                                  *)

create_custodian(u) ==
  \/ \E form \in Forms["custodian"] :
       validate_custodian_data(NULL, form) /\ PostNew(u, "custodian", form)
  \/ \E k \in Keys["custodian"] : Insert(u, "custodian", k)

edit_custodian(u, k) ==
  \/ \E form \in Forms["custodian"] :
       validate_custodian_data(k, form) /\ Post(u, "edit", "custodian", k, form)
  \/ Edit(u, "custodian", k)

delete_custodian(u, k) ==
  \/ ~ Referenced("custodian", k) /\ Post(u, "delete", "custodian", k, NoForm)
  \/ Delete(u, "custodian", k)

create_warehouse(u) ==
  \/ \E form \in Forms["warehouse"] :
       validate_warehouse_data(NULL, form) /\ PostNew(u, "warehouse", form)
  \/ \E k \in Keys["warehouse"] : Insert(u, "warehouse", k)

edit_warehouse(u, k) ==
  \/ \E form \in Forms["warehouse"] :
       validate_warehouse_data(k, form) /\ Post(u, "edit", "warehouse", k, form)
  \/ Edit(u, "warehouse", k)

\* Stock and users are looked at, other references are left to the database.
delete_warehouse(u, k) ==
  \/ /\ ~ InUse("warehouse", k, {<<"inventory", "warehouse">>, <<"user_warehouse", "warehouse">>})
     /\ Post(u, "delete", "warehouse", k, NoForm)
  \/ Delete(u, "warehouse", k)

create_agency(u) ==
  \/ \E form \in Forms["agency"] :
       validate_agency_data(NULL, form) /\ PostNew(u, "agency", form)
  \/ \E k \in Keys["agency"] : Insert(u, "agency", k)

edit_agency(u, k) ==
  \/ \E form \in Forms["agency"] :
       validate_agency_data(k, form) /\ Post(u, "edit", "agency", k, form)
  \/ Edit(u, "agency", k)

\* Refused for an agency with active requests, which edit_agency does not ask.
deactivate_agency(u, k) ==
  \/ ~ InUse("agency", k, {<<"reliefrqst", "agency">>}) /\ Post(u, "deactivate", "agency", k, NoForm)
  \/ SetStatus(u, "deactivate", "agency", k, "I")

create_event(u) ==
  \/ \E form \in Forms["event"] : validate_event_data(form) /\ PostNew(u, "event", form)
  \/ \E k \in Keys["event"] : Insert(u, "event", k)

\* The row is locked and read again before the commit, but SQLAlchemy does not
\* refresh the object it has: what protects the commit is version_id_col. The
\* status is not written.
edit_event(u, k) ==
  \/ /\ table["event"][k].status_code = "A"
     /\ \E form \in Forms["event"] :
          validate_event_data(form) /\ Post(u, "edit", "event", k, form)
  \/ Update(u, "edit", "event", k,
            [session[u].form EXCEPT !.status_code = table["event"][k].status_code])

\* The row is read under a lock that is held up to the commit: one step.
close_event(k) ==
  /\ table["event"][k].status_code = "A"
  /\ table["event"][k].version_nbr < MaxVersion["event"]
  /\ table' = [table EXCEPT !["event"][k] =
       Row([@ EXCEPT !.status_code = "C"], @.version_nbr + 1)]
  /\ UNCHANGED <<used, session>>

\* Nothing is checked: this is left to the foreign keys.
delete_event(u, k) ==
  \/ Post(u, "delete", "event", k, NoForm)
  \/ Delete(u, "event", k)

create_beneficiary(u) ==
  \/ \E form \in Forms["beneficiary"] :
       validate_beneficiary_data(form) /\ PostNew(u, "beneficiary", form)
  \/ \E k \in Keys["beneficiary"] : Insert(u, "beneficiary", k)

edit_beneficiary(u, k) ==
  \/ \E form \in Forms["beneficiary"] :
       validate_beneficiary_data(form) /\ Post(u, "edit", "beneficiary", k, form)
  \/ Edit(u, "beneficiary", k)

create_item(u) ==
  \/ \E form \in Forms["item"] : ItemForm(NULL, form) /\ PostNew(u, "item", form)
  \/ \E k \in Keys["item"] : Insert(u, "item", k)

\* The form may set the status to I, whatever the stock.
edit_item(u, k) ==
  \/ \E form \in Forms["item"] : ItemForm(k, form) /\ Post(u, "edit", "item", k, form)
  \/ Edit(u, "item", k)

inactivate_item(u, k) ==
  \/ /\ table["item"][k].status_code # "I"
     /\ check_item_can_be_inactivated(k)
     /\ Post(u, "inactivate", "item", k, NoForm)
  \/ SetStatus(u, "inactivate", "item", k, "I")

activate_item(u, k) ==
  \/ table["item"][k].status_code # "A" /\ Post(u, "activate", "item", k, NoForm)
  \/ SetStatus(u, "activate", "item", k, "A")

create_category(u) ==
  \/ \E form \in Forms["itemcatg"] :
       validate_category_data(NULL, form) /\ PostNew(u, "itemcatg", form)
  \/ \E k \in Keys["itemcatg"] : Insert(u, "itemcatg", k)

edit_category(u, k) ==
  \/ \E form \in Forms["itemcatg"] :
       validate_category_data(k, form) /\ Post(u, "edit", "itemcatg", k, form)
  \/ Edit(u, "itemcatg", k)

delete_category(u, k) ==
  \/ ~ Referenced("itemcatg", k) /\ Post(u, "delete", "itemcatg", k, NoForm)
  \/ Delete(u, "itemcatg", k)

\* The code is part of the form and is checked again by the primary key.
create_uom(u, code) ==
  \/ \E form \in Forms["unitofmeasure"] :
       /\ validate_uom_data(NULL, code, form)
       /\ Enter(u, "create", "unitofmeasure", code, NothingSeen, form)
  \/ /\ In(u, "create", "unitofmeasure", code)
     /\ ~ Exists("unitofmeasure", code)
     /\ Write(u, "unitofmeasure", code, Row(session[u].form, 1))

\* The form may give the unit another code, which is refused if that one is
\* taken or this one is in use.
edit_uom(u, k) ==
  \/ \E form \in Forms["unitofmeasure"] :
       validate_uom_data(k, k, form) /\ Post(u, "edit", "unitofmeasure", k, form)
  \/ Edit(u, "unitofmeasure", k)
  \/ \E code \in Keys["unitofmeasure"] \ {k} :
       /\ In(u, "edit", "unitofmeasure", k)
       /\ Unchanged(u, "unitofmeasure", k)
       /\ table["unitofmeasure"][k].version_nbr < MaxVersion["unitofmeasure"]
       /\ ~ Exists("unitofmeasure", code)
       /\ ~ Referenced("unitofmeasure", k) /\ ~ InUse("unitofmeasure", k, KeptUses)
       /\ table' = [table EXCEPT !["unitofmeasure"] = [j \in Keys["unitofmeasure"] |->
            CASE j = code -> Row(session[u].form, @[k].version_nbr + 1)
              [] j = k    -> NoRow("unitofmeasure", "absent")
              [] OTHER    -> @[j]]]
       /\ session' = [session EXCEPT ![u] = Closed]
       /\ UNCHANGED used

delete_uom(u, k) ==
  \/ ~ check_uom_references(k) /\ Post(u, "delete", "unitofmeasure", k, NoForm)
  \/ Delete(u, "unitofmeasure", k)

create_donor(u) ==
  \/ \E form \in Forms["donor"] : validate_donor_data(NULL, form) /\ PostNew(u, "donor", form)
  \/ \E k \in Keys["donor"] : Insert(u, "donor", k)

edit_donor(u, k) ==
  \/ \E form \in Forms["donor"] : validate_donor_data(k, form) /\ Post(u, "edit", "donor", k, form)
  \/ Edit(u, "donor", k)

delete_donor(u, k) ==
  \/ ~ InUse("donor", k, {<<"donation", "donor">>}) /\ Post(u, "delete", "donor", k, NoForm)
  \/ Delete(u, "donor", k)

\* A request, donation, package, stock, ... refers to a row that is there,
Use(r, k) ==
  /\ Exists(r[2], k)
  /\ used' = [used EXCEPT ![r] = @ \cup {k}]
  /\ UNCHANGED <<table, session>>

\* ... or stops to: it is deleted, ends, or refers to another row. Inventory rows are
\* neither deleted nor given another unit.
Release(r, k) ==
  /\ r[1] # "inventory"
  /\ used' = [used EXCEPT ![r] = @ \ {k}]
  /\ UNCHANGED <<table, session>>

-----------------------------------------------------------------------------
(* The specification.                                                      *)

Init ==
  /\ table = [t \in Tables |-> [k \in Keys[t] |-> NoRow(t, "absent")]]
  /\ used = [r \in Uses |-> {}]
  /\ session = [u \in Users |-> Closed]

Custodians(u) == "custodian" \in Tables /\
  \/ create_custodian(u)
  \/ \E k \in Keys["custodian"] : edit_custodian(u, k) \/ delete_custodian(u, k)

Warehouses(u) == "warehouse" \in Tables /\
  \/ create_warehouse(u)
  \/ \E k \in Keys["warehouse"] : edit_warehouse(u, k) \/ delete_warehouse(u, k)

Agencies(u) == "agency" \in Tables /\
  \/ create_agency(u)
  \/ \E k \in Keys["agency"] : edit_agency(u, k) \/ deactivate_agency(u, k)

Events(u) == "event" \in Tables /\
  \/ create_event(u)
  \/ \E k \in Keys["event"] : edit_event(u, k) \/ close_event(k) \/ delete_event(u, k)

Beneficiaries(u) == "beneficiary" \in Tables /\
  \/ create_beneficiary(u)
  \/ \E k \in Keys["beneficiary"] : edit_beneficiary(u, k)

Items(u) == "item" \in Tables /\
  \/ create_item(u)
  \/ \E k \in Keys["item"] : edit_item(u, k) \/ inactivate_item(u, k) \/ activate_item(u, k)

Categories(u) == "itemcatg" \in Tables /\
  \/ create_category(u)
  \/ \E k \in Keys["itemcatg"] : edit_category(u, k) \/ delete_category(u, k)

Units(u) == "unitofmeasure" \in Tables /\
  \E k \in Keys["unitofmeasure"] : create_uom(u, k) \/ edit_uom(u, k) \/ delete_uom(u, k)

Donors(u) == "donor" \in Tables /\
  \/ create_donor(u)
  \/ \E k \in Keys["donor"] : edit_donor(u, k) \/ delete_donor(u, k)

Next ==
  \/ \E u \in Users :
       \/ Custodians(u) \/ Warehouses(u) \/ Agencies(u) \/ Events(u) \/ Beneficiaries(u)
       \/ Items(u) \/ Categories(u) \/ Units(u) \/ Donors(u)
       \/ Leave(u)
  \/ \E r \in Uses : \E k \in Keys[r[2]] : Use(r, k) \/ Release(r, k)

Spec == Init /\ [][Next]_vars

-----------------------------------------------------------------------------
(* Properties.                                                             *)

Ops == {"create", "edit", "delete", "deactivate", "inactivate", "activate"}

SessionOK(s) ==
  \/ s = Closed
  \/ s.op \in Ops /\ s.t \in Tables /\ s.k \in Keys[s.t] \cup {NULL}

RefsOK(t, refs) ==
  /\ refs \in [References[t] -> AllKeys \cup {NULL}]
  /\ \A p \in References[t] : refs[p] \in Keys[p] \/ (refs[p] = NULL /\ <<t, p>> \notin Mandatory)

RowOK(t, row) ==
  \/ row \in {NoRow(t, "absent"), NoRow(t, "deleted")}
  \/ /\ row = Row(row, row.version_nbr)
     /\ row.status_code \in {"A", IF t = "event" THEN "C" ELSE "I"}
     /\ row.version_nbr \in Nat \ {0}
     /\ row.name \in Names[t]
     /\ RefsOK(t, row.refs)

\* Every variable has the type its table and its handlers give it: a row that is
\* there has all that is mandatory, whatever forms were filled in.
TypeOK ==
  /\ DOMAIN table = Tables
  /\ \A t \in Tables : DOMAIN table[t] = Keys[t] /\ \A k \in Keys[t] : RowOK(t, table[t][k])
  /\ used \in [Uses -> SUBSET AllKeys]
  /\ DOMAIN session = Users /\ \A u \in Users : SessionOK(session[u])

\* No update is lost: if a handler's UPDATE or DELETE finds the version it read,
\* it finds the row its user saw, so every commit changes the version of what it
\* writes, the ones that write other tables' rows too. Units are left out: a code
\* that was deleted and is used again starts at version 1 again.
SeenIsCurrent ==
  \A u \in Users : LET s == session[u] IN
    /\ s.op \notin {"closed", "create"}
    /\ s.t # "unitofmeasure"
    /\ Unchanged(u, s.t, s.k)
    => table[s.t][s.k] = s.seen

\* No row, and no other workflow, refers to a row that is not there, whoever
\* deletes it after the handler that refers to it has looked: a deletion is refused,
\* or takes the references with it.
ReferencesExist ==
  /\ \A r \in Uses : \A k \in used[r] : Exists(r[2], k)
  /\ \A t \in Tables : \A k \in Keys[t] : Exists(t, k) =>
       \A p \in References[t] : table[t][k].refs[p] # NULL => Exists(p, table[t][k].refs[p])

\* The tables whose pages look for another row of the same name.
NamedTables == UniqueTables \cup {"warehouse"}

\* No two handlers of one table overlap, where only the page looks at names.
OneAtATime ==
  \A u, v \in Users :
    /\ session[u] # Closed /\ session[v] # Closed
    /\ session[u].t = session[v].t /\ session[u].t \notin UniqueTables
    => u = v

NamesDistinct ==
  \A t \in NamedTables \cap Tables : \A j, k \in Keys[t] :
    Exists(t, j) /\ Exists(t, k) /\ table[t][j].name = table[t][k].name => j = k

\* Two rows of a table get one name only if two users save at the same time and the
\* database has no unique constraint, as it has none for warehouses: with a
\* constraint, or without such a race, the pages' checks are enough.
NameClashNeedsRace == []OneAtATime => []NamesDistinct

\* What delete_event's docstring says, "only if not referenced": an event that an
\* agency, a request, a package, a transfer or a donation refers to is not deleted.
ReferencedEventStays ==
  [][\A k \in (IF "event" \in Tables THEN Keys["event"] ELSE {}) :
       table'["event"][k] = NoRow("event", "deleted") /\ Exists("event", k) =>
         ~ Referenced("event", k) /\ ~ InUse("event", k, Uses)]_vars

\* A closed event is not reopened or changed, not even by an edit page that was
\* opened before it was closed; it can only be deleted.
ClosedEventFinal ==
  [][\A k \in (IF "event" \in Tables THEN Keys["event"] ELSE {}) :
       table["event"][k].status_code = "C" =>
         table'["event"][k] \in {table["event"][k], NoRow("event", "deleted")}]_vars
===============================================================================
