--------------------------- MODULE MasterDataProofs ---------------------------
(***************************************************************************)
(* Proofs that the properties of MasterData hold for every choice of       *)
(* tables, keys, names, statuses and users.                                *)
(*                                                                         *)
(* Every step is of one of six kinds: a user's handler opens (OpenedBy),   *)
(* leaves, writes one row (Written), deletes one (Delete) or renames a     *)
(* unit (Renamed), or another workflow uses or releases a row.  The        *)
(* handlers are sorted into these kinds first (Kinds); each part of the    *)
(* invariant is then shown of each kind.                                   *)
(***************************************************************************)
EXTENDS MasterData, TLAPS

-----------------------------------------------------------------------------
(* The inductive invariant.                                                *)

\* What a form holds that passed its handler's checks.
FormOK(t, form) ==
  form \in Forms[t] /\ form.name # NULL /\ (t = "event" => form.status_code = "A")

\* An open handler is on a row of a table, has a checked form if it will write
\* one, and edits an event only if that was active when it looked.
StaticOK(s) ==
  /\ s.op \in Ops /\ s.t \in Tables
  /\ s.op = "create" => s.k \in Keys[s.t] \cup {NULL}
  /\ s.op # "create" => s.k \in Keys[s.t]
  /\ s.op \in {"create", "edit"} => FormOK(s.t, s.form)
  /\ s.op = "edit" /\ s.t = "event" => s.seen.status_code = "A"

\* The row an open handler saw is deleted for ever, has a higher version by now,
\* or is as it was seen.
SeenOK(s) ==
  s.op # "create" /\ s.t # "unitofmeasure" =>
    \/ table[s.t][s.k].status_code = "deleted"
    \/ /\ Exists(s.t, s.k)
       /\ s.seen.version_nbr \in Nat
       /\ s.seen.version_nbr <= table[s.t][s.k].version_nbr
       /\ s.seen.version_nbr = table[s.t][s.k].version_nbr => table[s.t][s.k] = s.seen

SessionsOK == \A u \in Users : session[u] # Closed => StaticOK(session[u]) /\ SeenOK(session[u])

UsedOK == \A r \in Uses : used[r] \subseteq Keys[r[2]]

\* Where the database has a unique constraint, a name is given once.
UniqueNames ==
  \A t \in UniqueTables \cap Tables : \A j, k \in Keys[t] :
    Exists(t, j) /\ Exists(t, k) /\ table[t][j].name = table[t][k].name => j = k

\* The inductive invariant.
Inv == TypeOK /\ SessionsOK /\ UsedOK /\ ReferencesExist /\ UniqueNames

-----------------------------------------------------------------------------
(* The kinds of steps.                                                     *)

\* The session's form has a name that no other warehouse has.
CheckedName(s) ==
  s.op \in {"create", "edit"} /\ s.t = "warehouse" => UniqueName("warehouse", s.k, s.form)

CheckedNames == \A u \in Users : CheckedName(session[u])

OpenedBy(u) ==
  /\ UNCHANGED <<table, used>>
  /\ DOMAIN session' = Users
  /\ \A v \in Users \ {u} : session'[v] = session[v]
  /\ StaticOK(session'[u])
  /\ session'[u].op # "create" => /\ Exists(session'[u].t, session'[u].k)
                                  /\ session'[u].seen = table[session'[u].t][session'[u].k]
  /\ CheckedName(session'[u])

SessionsClose ==
  DOMAIN session' = Users /\ \A v \in Users : session'[v] = session[v] \/ session'[v] = Closed

SameBut(t, k) ==
  /\ DOMAIN table' = Tables
  /\ \A s \in Tables : DOMAIN table'[s] = Keys[s]
  /\ \A s \in Tables : \A j \in Keys[s] : ~(s = t /\ j = k) => table'[s][j] = table[s][j]

\* A row is written: a new one, or the next version of one that is there and is
\* no closed event. A warehouse is written by a handler that looked at its name.
Written(t, k) ==
  /\ SameBut(t, k) /\ SessionsClose /\ UNCHANGED used
  /\ RowOK(t, table'[t][k]) /\ table'[t][k].status_code \notin {"absent", "deleted"}
  /\ \/ table[t][k].status_code = "absent" \/ (t = "unitofmeasure" /\ ~ Exists(t, k))
     \/ /\ Exists(t, k)
        /\ table'[t][k].version_nbr = table[t][k].version_nbr + 1
        /\ t = "event" => table[t][k].status_code # "C"
  /\ uk(t, k, table'[t][k].name) /\ fk(t, table'[t][k].refs)
  /\ t = "warehouse" =>
       \E u \in Users :
         /\ session[u].t = t /\ session[u] # Closed /\ session'[u] = Closed
         /\ CheckedName(session[u]) =>
              \A j \in Keys[t] \ {k} : Exists(t, j) => table[t][j].name # table'[t][k].name

Renamed(k, code) ==
  LET t == "unitofmeasure" IN
  /\ DOMAIN table' = Tables
  /\ \A s \in Tables : DOMAIN table'[s] = Keys[s]
  /\ \A s \in Tables : \A j \in Keys[s] :
       ~(s = t /\ j \in {k, code}) => table'[s][j] = table[s][j]
  /\ SessionsClose /\ UNCHANGED used
  /\ ~ Exists(t, code) /\ Exists(t, k) /\ code # k
  /\ ~ Referenced(t, k) /\ ~ InUse(t, k, KeptUses)
  /\ RowOK(t, table'[t][code]) /\ table'[t][code].status_code \notin {"absent", "deleted"}
  /\ table'[t][k] = NoRow(t, "absent")

-----------------------------------------------------------------------------
(* Facts about rows and forms.                                             *)

\* What the type invariant says of a row that is there.
LEMMA RowFacts ==
  ASSUME NEW t \in Tables, NEW row, RowOK(t, row), row.status_code \notin {"absent", "deleted"}
  PROVE  /\ row = Row(row, row.version_nbr)
         /\ row.status_code \in {"A", IF t = "event" THEN "C" ELSE "I"}
         /\ row.version_nbr \in Nat \ {0} /\ row.name \in Names[t] /\ RefsOK(t, row.refs)
BY DEF RowOK, NoRow

\* What a row is made of.
Wellformed(t, form) ==
  /\ form.name \in Names[t]
  /\ form.status_code \in {"A", IF t = "event" THEN "C" ELSE "I"}
  /\ form.refs \in [References[t] -> AllKeys \cup {NULL}]
  /\ \A p \in References[t] : form.refs[p] \in Keys[p] \cup {NULL}

\* A checked form is.
LEMMA FormWellformed ==
  ASSUME NEW t \in Tables, NEW form, FormOK(t, form)
  PROVE  Wellformed(t, form)
BY MasterDataAssumptions DEF FormOK, Forms, Wellformed

\* A row that is there is.
LEMMA RowWellformed ==
  ASSUME NEW t \in Tables, NEW row, RowOK(t, row), row.status_code \notin {"absent", "deleted"}
  PROVE  Wellformed(t, row)
BY RowFacts DEF Wellformed, RefsOK

\* ... and gives a well-typed row if its references pass the foreign keys.
LEMMA FormRow ==
  ASSUME NEW t \in Tables, NEW form, Wellformed(t, form), fk(t, form.refs), NEW v \in Nat \ {0}
  PROVE  /\ RowOK(t, Row(form, v)) /\ Row(form, v).status_code \notin {"absent", "deleted"}
         /\ Row(form, v).name = form.name /\ Row(form, v).refs = form.refs
         /\ Row(form, v).version_nbr = v
<1>1. RefsOK(t, form.refs)
  BY DEF RefsOK, fk, Wellformed
<1> QED BY <1>1 DEF RowOK, Row, Wellformed

\* Opening a handler on a row that is there.
LEMMA PostOpens ==
  ASSUME TypeOK, NEW u \in Users, NEW op \in Ops \ {"create"}, NEW t \in Tables,
         NEW k \in Keys[t], NEW form, Post(u, op, t, k, form),
         op = "edit" => FormOK(t, form),
         op = "edit" /\ t = "event" => table[t][k].status_code = "A",
         op = "edit" /\ t = "warehouse" => UniqueName(t, k, form)
  PROVE  OpenedBy(u)
BY DEF TypeOK, Post, Enter, OpenedBy, StaticOK, CheckedName

\* Opening a handler for a new row.
LEMMA NewOpens ==
  ASSUME TypeOK, NEW u \in Users, NEW t \in Tables, NEW k \in Keys[t] \cup {NULL},
         NEW form, FormOK(t, form), Enter(u, "create", t, k, NothingSeen, form),
         t = "warehouse" => UniqueName(t, k, form)
  PROVE  OpenedBy(u)
BY DEF TypeOK, Enter, OpenedBy, StaticOK, CheckedName, Ops

\* Write changes one row and closes the user's handler.
LEMMA WriteFrame ==
  ASSUME TypeOK, NEW u \in Users, NEW t \in Tables, NEW k \in Keys[t], NEW row,
         Write(u, t, k, row)
  PROVE  /\ SameBut(t, k) /\ SessionsClose /\ UNCHANGED used /\ table'[t][k] = row
         /\ session'[u] = Closed
BY DEF TypeOK, Write, SameBut, SessionsClose

\* The handler of u is open when it commits.
LEMMA InOpen ==
  ASSUME SessionsOK, NEW u \in Users, NEW op \in Ops, NEW t, NEW k, In(u, op, t, k)
  PROVE  StaticOK(session[u]) /\ SeenOK(session[u])
BY DEF SessionsOK, In, Closed, Ops

\* An INSERT writes.
LEMMA InsertWrites ==
  ASSUME Inv, NEW u \in Users, NEW t \in Tables, NEW k \in Keys[t], Insert(u, t, k)
  PROVE  Written(t, k)
<1>1. FormOK(t, session[u].form)
  BY InOpen DEF Insert, Inv, In, StaticOK, Ops
<1>2. /\ table'[t][k] = Row(session[u].form, 1) /\ SameBut(t, k) /\ SessionsClose /\ UNCHANGED used
      /\ session'[u] = Closed
  BY WriteFrame DEF Insert, Inv
<1>3. /\ RowOK(t, Row(session[u].form, 1))
      /\ Row(session[u].form, 1).status_code \notin {"absent", "deleted"}
      /\ Row(session[u].form, 1).name = session[u].form.name
      /\ Row(session[u].form, 1).refs = session[u].form.refs
  BY <1>1, FormWellformed, FormRow DEF Insert
<1>4. session[u].op = "create" /\ session[u].t = t /\ session[u].k = NULL /\ session[u] # Closed
  BY DEF Insert, In, Closed
<1>5. t = "warehouse" /\ CheckedName(session[u]) =>
        \A j \in Keys[t] \ {k} : Exists(t, j) => table[t][j].name # session[u].form.name
  BY <1>4, MasterDataAssumptions DEF CheckedName, UniqueName
<1> QED BY <1>2, <1>3, <1>4, <1>5 DEF Insert, Written

\* An UPDATE writes, if the form is well-formed and the row is no closed event.
LEMMA UpdateWrites ==
  ASSUME Inv, NEW u \in Users, NEW op \in Ops, NEW t \in Tables, NEW k \in Keys[t], NEW form,
         Update(u, op, t, k, form), Wellformed(t, form),
         t = "event" => table[t][k].status_code # "C",
         t = "warehouse" => op = "edit" /\ form = session[u].form
  PROVE  Written(t, k)
<1> DEFINE v == table[t][k].version_nbr + 1
<1>1. Exists(t, k)
  BY DEF Update, Unchanged
<1>2. v \in Nat \ {0}
  BY <1>1, RowFacts DEF Inv, TypeOK, Exists
<1>3. /\ table'[t][k] = Row(form, v) /\ SameBut(t, k) /\ SessionsClose /\ UNCHANGED used
      /\ session'[u] = Closed
  BY WriteFrame DEF Update, Inv
<1>4. /\ RowOK(t, Row(form, v))
      /\ Row(form, v).status_code \notin {"absent", "deleted"}
      /\ Row(form, v).name = form.name /\ Row(form, v).refs = form.refs
      /\ Row(form, v).version_nbr = v
  BY <1>2, FormRow DEF Update
<1> HIDE DEF v
<1>5. table'[t][k].version_nbr = table[t][k].version_nbr + 1
  BY <1>3, <1>4 DEF v
<1>6. session[u].op = op /\ session[u].t = t /\ session[u].k = k /\ session[u] # Closed
  BY DEF Update, In, Closed, Ops
<1>7. t = "warehouse" /\ CheckedName(session[u]) =>
        \A j \in Keys[t] \ {k} : Exists(t, j) => table[t][j].name # form.name
  BY <1>6 DEF CheckedName, UniqueName
<1> QED BY <1>1, <1>3, <1>4, <1>5, <1>6, <1>7 DEF Update, Written

\* The commit of an edit page writes.
LEMMA EditWrites ==
  ASSUME Inv, NEW u \in Users, NEW t \in Tables, NEW k \in Keys[t], Edit(u, t, k)
  PROVE  Written(t, k)
<1>1. /\ StaticOK(session[u]) /\ SeenOK(session[u])
      /\ session[u].op = "edit" /\ session[u].t = t /\ session[u].k = k
  BY InOpen DEF Edit, Update, Inv, In, Ops
<1>2. Wellformed(t, session[u].form)
  BY <1>1, FormWellformed DEF StaticOK
<1>3. t = "event" => table[t][k].status_code # "C"
  BY <1>1 DEF StaticOK, SeenOK, Edit, Update, Unchanged, Exists
<1> QED BY <1>2, <1>3, UpdateWrites DEF Edit, Ops

\* The commit of an event's page, which keeps the status, writes.
LEMMA EventEditWrites ==
  ASSUME Inv, "event" \in Tables, NEW u \in Users, NEW k \in Keys["event"],
         Update(u, "edit", "event", k,
                [session[u].form EXCEPT !.status_code = table["event"][k].status_code])
  PROVE  Written("event", k)
<1> DEFINE form == session[u].form
           new == [form EXCEPT !.status_code = table["event"][k].status_code]
<1>1. /\ StaticOK(session[u]) /\ SeenOK(session[u])
      /\ session[u].op = "edit" /\ session[u].t = "event" /\ session[u].k = k
  BY InOpen DEF Update, Inv, In, Ops
<1>2. table["event"][k].status_code = "A"
  BY <1>1, RowFacts DEF StaticOK, SeenOK, Update, Unchanged, Exists, Inv, TypeOK
<1>3. form \in Forms["event"] /\ Wellformed("event", form)
  BY <1>1, FormWellformed DEF StaticOK, FormOK
<1>4. /\ new.name = form.name /\ new.refs = form.refs
      /\ new.status_code = table["event"][k].status_code
  BY <1>3 DEF Forms
<1>5. Wellformed("event", new)
  BY <1>2, <1>3, <1>4 DEF Wellformed
<1> HIDE DEF new
<1> QED BY <1>2, <1>5, UpdateWrites DEF Ops, new

\* The commit of a new status writes.
LEMMA StatusWrites ==
  ASSUME Inv, NEW u \in Users, NEW op \in Ops, NEW t \in Tables \ {"event", "warehouse"}, NEW k \in Keys[t],
         NEW status \in {"A", "I"}, SetStatus(u, op, t, k, status)
  PROVE  Written(t, k)
<1>1. Exists(t, k)
  BY DEF SetStatus, Update, Unchanged
<1>2. Wellformed(t, table[t][k]) /\ table[t][k] = Row(table[t][k], table[t][k].version_nbr)
  BY <1>1, RowFacts, RowWellformed DEF Inv, TypeOK, Exists
<1>3. Wellformed(t, [table[t][k] EXCEPT !.status_code = status])
  BY <1>2 DEF Wellformed, Row
<1> QED BY <1>3, UpdateWrites DEF SetStatus

\* Closing an event writes.
LEMMA CloseWrites ==
  ASSUME Inv, "event" \in Tables, NEW k \in Keys["event"], close_event(k)
  PROVE  Written("event", k)
<1> DEFINE row == table["event"][k]
           form == [row EXCEPT !.status_code = "C"]
<1>1. Exists("event", k) /\ row.status_code = "A"
  BY DEF close_event, Exists
<1>2. Wellformed("event", row) /\ row = Row(row, row.version_nbr) /\ row.version_nbr \in Nat \ {0}
  BY <1>1, RowFacts, RowWellformed DEF Inv, TypeOK, Exists
<1>3. Wellformed("event", form)
  BY <1>2 DEF Wellformed, Row
<1>4. References["event"] = {}
  BY DEF References, Kept, Nulled, Mandatory
<1>5. fk("event", form.refs) /\ uk("event", k, form.name)
  BY <1>4 DEF fk, uk, UniqueTables
<1> DEFINE v == row.version_nbr + 1
<1>6. v \in Nat \ {0}
  BY <1>2
<1>7. table'["event"][k] = Row(form, v) /\ SameBut("event", k)
  BY DEF close_event, Inv, TypeOK, SameBut
<1>8. SessionsClose /\ UNCHANGED used
  BY DEF close_event, Inv, TypeOK, SessionsClose
<1> HIDE DEF form, v
<1>9. /\ RowOK("event", Row(form, v))
      /\ Row(form, v).status_code \notin {"absent", "deleted"}
      /\ Row(form, v).name = form.name /\ Row(form, v).refs = form.refs
      /\ Row(form, v).version_nbr = v
  BY <1>3, <1>5, <1>6, FormRow
<1>10. table'["event"][k].version_nbr = table["event"][k].version_nbr + 1
  BY <1>7, <1>9 DEF v
<1> QED BY <1>1, <1>5, <1>7, <1>8, <1>9, <1>10 DEF Written

\* A new unit is written.
LEMMA UnitWrites ==
  ASSUME Inv, "unitofmeasure" \in Tables, NEW u \in Users, NEW code \in Keys["unitofmeasure"],
         In(u, "create", "unitofmeasure", code), ~ Exists("unitofmeasure", code),
         Write(u, "unitofmeasure", code, Row(session[u].form, 1))
  PROVE  Written("unitofmeasure", code)
<1> DEFINE t == "unitofmeasure"
<1>1. FormOK(t, session[u].form)
  BY InOpen DEF Inv, In, StaticOK, Ops
<1>2. table'[t][code] = Row(session[u].form, 1) /\ SameBut(t, code) /\ SessionsClose
      /\ UNCHANGED used
  BY WriteFrame DEF Inv
<1>3. References[t] = {}
  BY DEF References, Kept, Nulled, Mandatory
<1>4. fk(t, session[u].form.refs) /\ uk(t, code, session[u].form.name)
  BY <1>3 DEF fk, uk, UniqueTables
<1>5. /\ RowOK(t, Row(session[u].form, 1))
      /\ Row(session[u].form, 1).status_code \notin {"absent", "deleted"}
      /\ Row(session[u].form, 1).name = session[u].form.name
      /\ Row(session[u].form, 1).refs = session[u].form.refs
  BY <1>1, <1>4, FormWellformed, FormRow
<1> QED BY <1>2, <1>4, <1>5 DEF Written

\* Giving a unit another code renames it.
LEMMA UnitRenamed ==
  ASSUME Inv, "unitofmeasure" \in Tables, NEW u \in Users, NEW k \in Keys["unitofmeasure"],
         edit_uom(u, k),
         \A form \in Forms["unitofmeasure"] : ~ Post(u, "edit", "unitofmeasure", k, form),
         ~ Edit(u, "unitofmeasure", k)
  PROVE  \E code \in Keys["unitofmeasure"] : Renamed(k, code)
<1> DEFINE t == "unitofmeasure"
<1>1. PICK code \in Keys[t] \ {k} :
        /\ In(u, "edit", t, k) /\ Unchanged(u, t, k)
        /\ ~ Exists(t, code) /\ ~ Referenced(t, k) /\ ~ InUse(t, k, KeptUses)
        /\ table' = [table EXCEPT ![t] = [j \in Keys[t] |->
             CASE j = code -> Row(session[u].form, table[t][k].version_nbr + 1)
               [] j = k    -> NoRow(t, "absent")
               [] OTHER    -> table[t][j]]]
        /\ session' = [session EXCEPT ![u] = Closed]
        /\ UNCHANGED used
  BY DEF edit_uom
<1> DEFINE v == table[t][k].version_nbr + 1
<1>2. FormOK(t, session[u].form)
  BY <1>1, InOpen DEF Inv, In, StaticOK, Ops
<1>3. Exists(t, k)
  BY <1>1 DEF Unchanged
<1>4. v \in Nat \ {0}
  BY <1>3, RowFacts DEF Inv, TypeOK, Exists
<1>5. References[t] = {}
  BY DEF References, Kept, Nulled, Mandatory
<1>6. fk(t, session[u].form.refs)
  BY <1>5 DEF fk
<1>7. /\ table'[t][code] = Row(session[u].form, v)
      /\ table'[t][k] = NoRow(t, "absent")
      /\ \A j \in Keys[t] \ {k, code} : table'[t][j] = table[t][j]
      /\ DOMAIN table' = Tables
      /\ \A s \in Tables : DOMAIN table'[s] = Keys[s]
      /\ \A s \in Tables \ {t} : table'[s] = table[s]
  BY <1>1 DEF Inv, TypeOK
<1> HIDE DEF v
<1>8. /\ RowOK(t, table'[t][code])
      /\ table'[t][code].status_code \notin {"absent", "deleted"}
  BY <1>2, <1>4, <1>6, <1>7, FormWellformed, FormRow
<1>9. SessionsClose
  BY <1>1 DEF Inv, TypeOK, SessionsClose
<1>10. ~ Referenced(t, k) /\ ~ InUse(t, k, KeptUses)
  BY <1>1
<1> QED BY <1>1, <1>3, <1>7, <1>8, <1>9, <1>10 DEF Renamed

-----------------------------------------------------------------------------
(* Every step is of one of the kinds.                                      *)

Kind ==
  \/ \E u \in Users : OpenedBy(u)
  \/ UNCHANGED <<table, used>> /\ SessionsClose
  \/ \E t \in Tables : \E k \in Keys[t] : Written(t, k)
  \/ \E u \in Users : \E t \in Tables : \E k \in Keys[t] : Delete(u, t, k)
  \/ "unitofmeasure" \in Tables /\ \E k, code \in Keys["unitofmeasure"] : Renamed(k, code)
  \/ \E r \in Uses : \E k \in Keys[r[2]] : Use(r, k) \/ Release(r, k)

\* The handlers open, write, delete or rename.
LEMMA Kinds ==
  ASSUME Inv, [Next]_vars
  PROVE  Kind
<1> USE DEF Kind
<1>1. ASSUME NEW u \in Users, Custodians(u)
      PROVE  Kind
  <2> USE <1>1 DEF Custodians
  <2>1. CASE create_custodian(u)
    <3>1. ASSUME NEW form \in Forms["custodian"], validate_custodian_data(NULL, form), PostNew(u, "custodian", form)
          PROVE  OpenedBy(u)
      BY <3>1, NewOpens DEF validate_custodian_data, Complete, FormOK, PostNew, Inv
    <3> QED BY <2>1, <3>1, InsertWrites DEF create_custodian
  <2>2. ASSUME NEW k \in Keys["custodian"], edit_custodian(u, k)
        PROVE  Kind
    <3>1. ASSUME NEW form \in Forms["custodian"], validate_custodian_data(k, form), Post(u, "edit", "custodian", k, form)
          PROVE  OpenedBy(u)
      BY <3>1, PostOpens DEF validate_custodian_data, Complete, FormOK, Inv, Ops
    <3> QED BY <2>2, <3>1, EditWrites DEF edit_custodian
  <2>3. ASSUME NEW k \in Keys["custodian"], delete_custodian(u, k)
        PROVE  Kind
    BY <2>3, PostOpens DEF delete_custodian, Inv, Ops
  <2> QED BY <2>1, <2>2, <2>3
<1>2. ASSUME NEW u \in Users, Warehouses(u)
      PROVE  Kind
  <2> USE <1>2 DEF Warehouses
  <2>1. CASE create_warehouse(u)
    <3>1. ASSUME NEW form \in Forms["warehouse"], validate_warehouse_data(NULL, form), PostNew(u, "warehouse", form)
          PROVE  OpenedBy(u)
      BY <3>1, NewOpens DEF validate_warehouse_data, Complete, FormOK, PostNew, Inv
    <3> QED BY <2>1, <3>1, InsertWrites DEF create_warehouse
  <2>2. ASSUME NEW k \in Keys["warehouse"], edit_warehouse(u, k)
        PROVE  Kind
    <3>1. ASSUME NEW form \in Forms["warehouse"], validate_warehouse_data(k, form), Post(u, "edit", "warehouse", k, form)
          PROVE  OpenedBy(u)
      BY <3>1, PostOpens DEF validate_warehouse_data, Complete, FormOK, Inv, Ops
    <3> QED BY <2>2, <3>1, EditWrites DEF edit_warehouse
  <2>3. ASSUME NEW k \in Keys["warehouse"], delete_warehouse(u, k)
        PROVE  Kind
    BY <2>3, PostOpens DEF delete_warehouse, Inv, Ops
  <2> QED BY <2>1, <2>2, <2>3
<1>3. ASSUME NEW u \in Users, Agencies(u)
      PROVE  Kind
  <2> USE <1>3 DEF Agencies
  <2>1. CASE create_agency(u)
    <3>1. ASSUME NEW form \in Forms["agency"], validate_agency_data(NULL, form), PostNew(u, "agency", form)
          PROVE  OpenedBy(u)
      BY <3>1, NewOpens DEF validate_agency_data, Complete, FormOK, PostNew, Inv
    <3> QED BY <2>1, <3>1, InsertWrites DEF create_agency
  <2>2. ASSUME NEW k \in Keys["agency"], edit_agency(u, k)
        PROVE  Kind
    <3>1. ASSUME NEW form \in Forms["agency"], validate_agency_data(k, form), Post(u, "edit", "agency", k, form)
          PROVE  OpenedBy(u)
      BY <3>1, PostOpens DEF validate_agency_data, Complete, FormOK, Inv, Ops
    <3> QED BY <2>2, <3>1, EditWrites DEF edit_agency
  <2>3. ASSUME NEW k \in Keys["agency"], deactivate_agency(u, k)
        PROVE  Kind
    BY <2>3, PostOpens, StatusWrites DEF deactivate_agency, Inv, Ops
  <2> QED BY <2>1, <2>2, <2>3
<1>4. ASSUME NEW u \in Users, Events(u)
      PROVE  Kind
  <2> USE <1>4 DEF Events
  <2>1. CASE create_event(u)
    <3>1. ASSUME NEW form \in Forms["event"], validate_event_data(form), PostNew(u, "event", form)
          PROVE  OpenedBy(u)
      BY <3>1, NewOpens DEF validate_event_data, Complete, FormOK, PostNew, Inv
    <3> QED BY <2>1, <3>1, InsertWrites DEF create_event
  <2>2. ASSUME NEW k \in Keys["event"], edit_event(u, k)
        PROVE  Kind
    <3>1. ASSUME NEW form \in Forms["event"], validate_event_data(form), Post(u, "edit", "event", k, form), table["event"][k].status_code = "A"
          PROVE  OpenedBy(u)
      BY <3>1, PostOpens DEF validate_event_data, Complete, FormOK, Inv, Ops
    <3> QED BY <2>2, <3>1, EventEditWrites DEF edit_event
  <2>3. ASSUME NEW k \in Keys["event"], delete_event(u, k)
        PROVE  Kind
    BY <2>3, PostOpens DEF delete_event, Inv, Ops
  <2>4. ASSUME NEW k \in Keys["event"], close_event(k)
        PROVE  Kind
    BY <2>4, CloseWrites
  <2> QED BY <2>1, <2>2, <2>3, <2>4
<1>5. ASSUME NEW u \in Users, Beneficiaries(u)
      PROVE  Kind
  <2> USE <1>5 DEF Beneficiaries
  <2>1. CASE create_beneficiary(u)
    <3>1. ASSUME NEW form \in Forms["beneficiary"], validate_beneficiary_data(form), PostNew(u, "beneficiary", form)
          PROVE  OpenedBy(u)
      BY <3>1, NewOpens DEF validate_beneficiary_data, Complete, FormOK, PostNew, Inv
    <3> QED BY <2>1, <3>1, InsertWrites DEF create_beneficiary
  <2>2. ASSUME NEW k \in Keys["beneficiary"], edit_beneficiary(u, k)
        PROVE  Kind
    <3>1. ASSUME NEW form \in Forms["beneficiary"], validate_beneficiary_data(form), Post(u, "edit", "beneficiary", k, form)
          PROVE  OpenedBy(u)
      BY <3>1, PostOpens DEF validate_beneficiary_data, Complete, FormOK, Inv, Ops
    <3> QED BY <2>2, <3>1, EditWrites DEF edit_beneficiary
  <2> QED BY <2>1, <2>2
<1>6. ASSUME NEW u \in Users, Items(u)
      PROVE  Kind
  <2> USE <1>6 DEF Items
  <2>1. CASE create_item(u)
    <3>1. ASSUME NEW form \in Forms["item"], ItemForm(NULL, form), PostNew(u, "item", form)
          PROVE  OpenedBy(u)
      BY <3>1, NewOpens DEF ItemForm, Complete, FormOK, PostNew, Inv
    <3> QED BY <2>1, <3>1, InsertWrites DEF create_item
  <2>2. ASSUME NEW k \in Keys["item"], edit_item(u, k)
        PROVE  Kind
    <3>1. ASSUME NEW form \in Forms["item"], ItemForm(k, form), Post(u, "edit", "item", k, form)
          PROVE  OpenedBy(u)
      BY <3>1, PostOpens DEF ItemForm, Complete, FormOK, Inv, Ops
    <3> QED BY <2>2, <3>1, EditWrites DEF edit_item
  <2>3. ASSUME NEW k \in Keys["item"], inactivate_item(u, k)
        PROVE  Kind
    BY <2>3, PostOpens, StatusWrites DEF inactivate_item, Inv, Ops
  <2>4. ASSUME NEW k \in Keys["item"], activate_item(u, k)
        PROVE  Kind
    BY <2>4, PostOpens, StatusWrites DEF activate_item, Inv, Ops
  <2> QED BY <2>1, <2>2, <2>3, <2>4
<1>7. ASSUME NEW u \in Users, Categories(u)
      PROVE  Kind
  <2> USE <1>7 DEF Categories
  <2>1. CASE create_category(u)
    <3>1. ASSUME NEW form \in Forms["itemcatg"], validate_category_data(NULL, form), PostNew(u, "itemcatg", form)
          PROVE  OpenedBy(u)
      BY <3>1, NewOpens DEF validate_category_data, Complete, FormOK, PostNew, Inv
    <3> QED BY <2>1, <3>1, InsertWrites DEF create_category
  <2>2. ASSUME NEW k \in Keys["itemcatg"], edit_category(u, k)
        PROVE  Kind
    <3>1. ASSUME NEW form \in Forms["itemcatg"], validate_category_data(k, form), Post(u, "edit", "itemcatg", k, form)
          PROVE  OpenedBy(u)
      BY <3>1, PostOpens DEF validate_category_data, Complete, FormOK, Inv, Ops
    <3> QED BY <2>2, <3>1, EditWrites DEF edit_category
  <2>3. ASSUME NEW k \in Keys["itemcatg"], delete_category(u, k)
        PROVE  Kind
    BY <2>3, PostOpens DEF delete_category, Inv, Ops
  <2> QED BY <2>1, <2>2, <2>3
<1>8. ASSUME NEW u \in Users, Donors(u)
      PROVE  Kind
  <2> USE <1>8 DEF Donors
  <2>1. CASE create_donor(u)
    <3>1. ASSUME NEW form \in Forms["donor"], validate_donor_data(NULL, form), PostNew(u, "donor", form)
          PROVE  OpenedBy(u)
      BY <3>1, NewOpens DEF validate_donor_data, Complete, FormOK, PostNew, Inv
    <3> QED BY <2>1, <3>1, InsertWrites DEF create_donor
  <2>2. ASSUME NEW k \in Keys["donor"], edit_donor(u, k)
        PROVE  Kind
    <3>1. ASSUME NEW form \in Forms["donor"], validate_donor_data(k, form), Post(u, "edit", "donor", k, form)
          PROVE  OpenedBy(u)
      BY <3>1, PostOpens DEF validate_donor_data, Complete, FormOK, Inv, Ops
    <3> QED BY <2>2, <3>1, EditWrites DEF edit_donor
  <2>3. ASSUME NEW k \in Keys["donor"], delete_donor(u, k)
        PROVE  Kind
    BY <2>3, PostOpens DEF delete_donor, Inv, Ops
  <2> QED BY <2>1, <2>2, <2>3
<1>9. ASSUME NEW u \in Users, Units(u)
      PROVE  Kind
  <2> USE <1>9 DEF Units
  <2>1. ASSUME NEW code \in Keys["unitofmeasure"], create_uom(u, code)
        PROVE  Kind
    <3>1. ASSUME NEW form \in Forms["unitofmeasure"], validate_uom_data(NULL, code, form),
                 Enter(u, "create", "unitofmeasure", code, NothingSeen, form)
          PROVE  OpenedBy(u)
      BY <3>1, NewOpens DEF validate_uom_data, Complete, FormOK, Inv
    <3> QED BY <2>1, <3>1, UnitWrites DEF create_uom
  <2>2. ASSUME NEW k \in Keys["unitofmeasure"], edit_uom(u, k)
        PROVE  Kind
    <3>1. ASSUME NEW form \in Forms["unitofmeasure"], validate_uom_data(k, k, form),
                 Post(u, "edit", "unitofmeasure", k, form)
          PROVE  OpenedBy(u)
      BY <3>1, PostOpens DEF validate_uom_data, Complete, FormOK, Inv, Ops
    <3>2. CASE \E form \in Forms["unitofmeasure"] :
                 validate_uom_data(k, k, form) /\ Post(u, "edit", "unitofmeasure", k, form)
      BY <3>1, <3>2
    <3>3. CASE Edit(u, "unitofmeasure", k)
      BY <3>3, EditWrites
    <3>4. CASE ~ Edit(u, "unitofmeasure", k) /\ In(u, "edit", "unitofmeasure", k)
      <4>1. \A form \in Forms["unitofmeasure"] : ~ Post(u, "edit", "unitofmeasure", k, form)
        BY <3>4 DEF Post, Enter, In, Closed
      <4> QED BY <2>2, <3>4, <4>1, UnitRenamed
    <3> QED BY <2>2, <3>2, <3>3, <3>4 DEF edit_uom
  <2>3. ASSUME NEW k \in Keys["unitofmeasure"], delete_uom(u, k)
        PROVE  Kind
    BY <2>3, PostOpens DEF delete_uom, Inv, Ops
  <2> QED BY <2>1, <2>2, <2>3
<1>10. ASSUME NEW u \in Users, Leave(u)
       PROVE  Kind
  BY <1>10 DEF Leave, SessionsClose, Inv, TypeOK
<1>11. CASE UNCHANGED vars
  BY <1>11 DEF vars, SessionsClose, Inv, TypeOK
<1> QED BY <1>1, <1>2, <1>3, <1>4, <1>5, <1>6, <1>7, <1>8, <1>9, <1>10, <1>11 DEF Next

-----------------------------------------------------------------------------
(* Each part of the invariant, kind by kind.                               *)

\* The sessions' part when the tables only lose rows or gain versions.
LEMMA SessionsKept ==
  ASSUME SessionsOK, SessionsClose,
         \A t \in Tables \ {"unitofmeasure"} : \A k \in Keys[t] :
           /\ table[t][k].status_code = "deleted" => table'[t][k].status_code = "deleted"
           /\ Exists(t, k) =>
                \/ table'[t][k] = table[t][k]
                \/ table'[t][k].status_code = "deleted"
                \/ /\ table[t][k].version_nbr \in Nat
                   /\ table'[t][k].status_code \notin {"absent", "deleted"}
                   /\ table'[t][k].version_nbr = table[t][k].version_nbr + 1
  PROVE  SessionsOK'
<1> SUFFICES ASSUME NEW u \in Users, session'[u] # Closed
             PROVE  StaticOK(session[u]) /\ SeenOK(session[u])'
  BY DEF SessionsOK, SessionsClose, StaticOK, FormOK
<1>1. session'[u] = session[u] /\ StaticOK(session[u]) /\ SeenOK(session[u])
  BY DEF SessionsOK, SessionsClose
<1>2. CASE session[u].op = "create" \/ session[u].t = "unitofmeasure"
  BY <1>1, <1>2 DEF SeenOK
<1>3. CASE ~(session[u].op = "create" \/ session[u].t = "unitofmeasure")
  <2>1. session[u].t \in Tables \ {"unitofmeasure"} /\ session[u].k \in Keys[session[u].t]
    BY <1>1, <1>3 DEF StaticOK
  <2> QED BY <1>1, <1>3, <2>1 DEF SeenOK, Exists
<1> QED BY <1>1, <1>2, <1>3

\* A closed session, and one that satisfies StaticOK, have their types.
LEMMA StaticType ==
  ASSUME NEW s, StaticOK(s)
  PROVE  SessionOK(s)
BY DEF StaticOK, SessionOK

\* Sessions that close keep their types.
LEMMA SessionTypes ==
  ASSUME TypeOK, SessionsClose
  PROVE  DOMAIN session' = Users /\ \A u \in Users : SessionOK(session'[u])
BY DEF TypeOK, SessionsClose, SessionOK

\* Opening a handler keeps the invariant.
LEMMA OpenedStep ==
  ASSUME Inv, NEW u \in Users, OpenedBy(u)
  PROVE  Inv'
<1>1. TypeOK'
  <2>1. \A v \in Users : SessionOK(session'[v])
    BY StaticType DEF OpenedBy, Inv, TypeOK
  <2> QED BY <2>1 DEF OpenedBy, Inv, TypeOK, RowOK
<1>2. SessionsOK'
  <2> SUFFICES ASSUME NEW v \in Users, NEW s, s = session'[v], s # Closed
               PROVE  StaticOK(s) /\ SeenOK(s)'
    BY DEF SessionsOK, StaticOK, FormOK, SeenOK, Exists
  <2>1. CASE v = u
    <3>1. StaticOK(s)
      BY <2>1 DEF OpenedBy
    <3>2. CASE s.op # "create"
      <4>1. /\ s.t \in Tables /\ s.k \in Keys[s.t] /\ Exists(s.t, s.k)
            /\ s.seen = table[s.t][s.k]
        BY <2>1, <3>1, <3>2 DEF OpenedBy, StaticOK
      <4>2. s.seen.version_nbr \in Nat
        BY <4>1, RowFacts DEF Inv, TypeOK, Exists
      <4> QED BY <3>1, <4>1, <4>2 DEF OpenedBy, SeenOK, Exists
    <3> QED BY <3>1, <3>2 DEF SeenOK
  <2>2. CASE v # u
    <3>1. s = session[v] /\ UNCHANGED table
      BY <2>2 DEF OpenedBy
    <3>2. StaticOK(s) /\ SeenOK(s)
      BY <3>1 DEF Inv, SessionsOK
    <3> QED BY <3>1, <3>2 DEF SeenOK, Exists
  <2> QED BY <2>1, <2>2
<1>3. UsedOK' /\ ReferencesExist' /\ UniqueNames'
  BY DEF OpenedBy, Inv, UsedOK, ReferencesExist, UniqueNames, Exists
<1> QED BY <1>1, <1>2, <1>3 DEF Inv

\* Leaving keeps the invariant.
LEMMA LeftStep ==
  ASSUME Inv, UNCHANGED <<table, used>>, SessionsClose
  PROVE  Inv'
<1>1. TypeOK'
  BY SessionTypes DEF Inv, TypeOK, RowOK
<1>2. SessionsOK'
  BY SessionsKept DEF Inv, Exists
<1>3. UsedOK' /\ ReferencesExist' /\ UniqueNames'
  BY DEF Inv, UsedOK, ReferencesExist, UniqueNames, Exists
<1> QED BY <1>1, <1>2, <1>3 DEF Inv

\* Using and releasing a row keep the invariant.
LEMMA UseStep ==
  ASSUME Inv, NEW r \in Uses, NEW k \in Keys[r[2]], Use(r, k) \/ Release(r, k)
  PROVE  Inv'
<1>a. r[2] \in Tables
  BY MasterDataAssumptions
<1>0. r[2] \in Tables /\ k \in AllKeys
  BY <1>a DEF AllKeys
<1>1. TypeOK'
  BY <1>0 DEF Inv, TypeOK, RowOK, Use, Release
<1>2. SessionsOK'
  BY DEF Inv, SessionsOK, StaticOK, SeenOK, FormOK, Exists, Use, Release
<1>3. UsedOK' /\ ReferencesExist' /\ UniqueNames'
  BY <1>0 DEF Inv, TypeOK, UsedOK, ReferencesExist, UniqueNames, Exists, Use, Release
<1> QED BY <1>1, <1>2, <1>3 DEF Inv

There(row) == row.status_code \notin {"absent", "deleted"}

\* A reference that is not NULL is a key of its table.
LEMMA RefKey ==
  ASSUME TypeOK, NEW s \in Tables, NEW j \in Keys[s], There(table[s][j]), NEW p \in References[s],
         table[s][j].refs[p] # NULL
  PROVE  table[s][j].refs[p] \in Keys[p] /\ p \in Tables
<1>1. RefsOK(s, table[s][j].refs)
  BY RowFacts DEF TypeOK, There
<1> QED BY <1>1 DEF RefsOK, References

\* What ReferencesExist says of the next state.
LEMMA ReferencesNext ==
  ASSUME \A r \in Uses : \A j \in used'[r] : There(table'[r[2]][j]),
         \A s \in Tables : \A j \in Keys[s] : \A p \in References[s] :
           There(table'[s][j]) /\ table'[s][j].refs[p] # NULL =>
             There(table'[p][table'[s][j].refs[p]])
  PROVE  ReferencesExist'
BY DEF ReferencesExist, Exists, There

\* Rows stay there, so that what refers to them does too, and a name is free for a
\* row that passes the unique constraint.
LEMMA WrittenStep ==
  ASSUME Inv, NEW t \in Tables, NEW k \in Keys[t], Written(t, k)
  PROVE  Inv'
<1> DEFINE row == table'[t][k]
<1>0. /\ SameBut(t, k) /\ SessionsClose /\ UNCHANGED used
      /\ RowOK(t, row) /\ row.status_code \notin {"absent", "deleted"}
      /\ uk(t, k, row.name) /\ fk(t, row.refs)
  BY DEF Written
<1>1. TypeOK'
  <2>1. \A s \in Tables : \A j \in Keys[s] : RowOK(s, table'[s][j])
    BY <1>0 DEF SameBut, Inv, TypeOK
  <2>2. DOMAIN session' = Users /\ \A u \in Users : SessionOK(session'[u])
    BY <1>0, SessionTypes DEF Inv
  <2> QED BY <1>0, <2>1, <2>2 DEF SameBut, Inv, TypeOK
<1>2. SessionsOK'
  <2>1. ASSUME NEW s \in Tables \ {"unitofmeasure"}, NEW j \in Keys[s]
        PROVE  /\ table[s][j].status_code = "deleted" => table'[s][j].status_code = "deleted"
               /\ Exists(s, j) =>
                    \/ table'[s][j] = table[s][j]
                    \/ table'[s][j].status_code = "deleted"
                    \/ /\ table[s][j].version_nbr \in Nat
                       /\ table'[s][j].status_code \notin {"absent", "deleted"}
                       /\ table'[s][j].version_nbr = table[s][j].version_nbr + 1
    <3>1. CASE s = t /\ j = k
      <4>1. Exists(t, k) => table[t][k].version_nbr \in Nat
        BY RowFacts DEF Inv, TypeOK, Exists
      <4> QED BY <2>1, <3>1, <4>1 DEF Written, Exists
    <3>2. CASE ~(s = t /\ j = k)
      BY <1>0, <3>2 DEF SameBut
    <3> QED BY <3>1, <3>2
  <2> QED BY <1>0, <2>1, SessionsKept DEF Inv
<1>3. UsedOK'
  BY <1>0 DEF Inv, UsedOK
<1>4. \A s \in Tables : \A j \in Keys[s] : There(table[s][j]) => There(table'[s][j])
  BY <1>0 DEF SameBut, There
<1>5. ReferencesExist'
  <2>0. \A r \in Uses : r[2] \in Tables /\ used[r] \subseteq Keys[r[2]]
    BY MasterDataAssumptions DEF Inv, UsedOK
  <2>1. ASSUME NEW r \in Uses, NEW j \in used'[r]
        PROVE  There(table'[r[2]][j])
    BY <1>0, <1>4, <2>0 DEF Inv, ReferencesExist, Exists, There
  <2>2. ASSUME NEW s \in Tables, NEW j \in Keys[s], NEW p \in References[s],
               There(table'[s][j]), table'[s][j].refs[p] # NULL
        PROVE  There(table'[p][table'[s][j].refs[p]])
    <3>1. p \in Tables
      BY DEF References
    <3>2. CASE s = t /\ j = k
      <4>0. RefsOK(t, row.refs)
        BY <1>0, RowFacts
      <4>1. row.refs[p] \in Keys[p]
        BY <2>2, <3>2, <4>0 DEF RefsOK
      <4>2. There(table[p][row.refs[p]])
        BY <1>0, <2>2, <3>2 DEF fk, Exists, There
      <4> QED BY <1>4, <3>1, <3>2, <4>1, <4>2
    <3>3. CASE ~(s = t /\ j = k)
      <4>1. table'[s][j] = table[s][j]
        BY <1>0, <3>3 DEF SameBut
      <4>2. table[s][j].refs[p] \in Keys[p]
        BY <2>2, <4>1, RefKey DEF Inv
      <4>3. There(table[p][table[s][j].refs[p]])
        BY <2>2, <4>1 DEF Inv, ReferencesExist, Exists, There
      <4> QED BY <1>4, <3>1, <4>1, <4>2, <4>3
    <3> QED BY <3>2, <3>3
  <2> QED BY <2>1, <2>2, ReferencesNext
<1>6. UniqueNames'
  <2> SUFFICES ASSUME NEW s \in UniqueTables \cap Tables, NEW i \in Keys[s], NEW j \in Keys[s],
                      Exists(s, i)', Exists(s, j)', table'[s][i].name = table'[s][j].name
               PROVE  i = j
    BY DEF UniqueNames
  <2>1. CASE s = t /\ i = k /\ j # k
    BY <1>0, <2>1 DEF uk, SameBut, Exists
  <2>2. CASE s = t /\ j = k /\ i # k
    BY <1>0, <2>2 DEF uk, SameBut, Exists
  <2>3. CASE s # t \/ (i # k /\ j # k)
    BY <1>0, <2>3 DEF SameBut, Exists, Inv, UniqueNames
  <2> QED BY <2>1, <2>2, <2>3
<1> QED BY <1>1, <1>2, <1>3, <1>5, <1>6 DEF Inv

\* A unit that is renamed was not referred to.
LEMMA RenamedStep ==
  ASSUME Inv, "unitofmeasure" \in Tables, NEW k \in Keys["unitofmeasure"],
         NEW code \in Keys["unitofmeasure"], Renamed(k, code)
  PROVE  Inv'
<1> DEFINE t == "unitofmeasure"
<1>1. TypeOK'
  <2>1. \A s \in Tables : \A j \in Keys[s] : RowOK(s, table'[s][j])
    <3>1. RowOK(t, NoRow(t, "absent"))
      BY DEF RowOK
    <3> QED BY <3>1 DEF Renamed, Inv, TypeOK
  <2>2. DOMAIN session' = Users /\ \A u \in Users : SessionOK(session'[u])
    BY SessionTypes DEF Inv, Renamed
  <2> QED BY <2>1, <2>2 DEF Renamed, Inv, TypeOK
<1>2. SessionsOK'
  BY SessionsKept DEF Renamed, Inv
<1>3. UsedOK'
  BY DEF Inv, UsedOK, Renamed
<1>4. \A s \in Tables : \A j \in Keys[s] :
        There(table[s][j]) /\ ~(s = t /\ j = k) => There(table'[s][j])
  BY DEF Renamed, There
<1>5. ReferencesExist'
  <2>0. \A r \in Uses : r[2] \in Tables /\ used[r] \subseteq Keys[r[2]]
    BY MasterDataAssumptions DEF Inv, UsedOK
  <2>1. ASSUME NEW r \in Uses, NEW j \in used'[r]
        PROVE  There(table'[r[2]][j])
    <3>1. r[2] = t => r \in KeptUses
      BY MasterDataAssumptions DEF KeptUses, NulledUses
    <3>2. j \in Keys[r[2]] /\ There(table[r[2]][j]) /\ ~(r[2] = t /\ j = k)
      BY <2>0, <3>1 DEF Inv, ReferencesExist, Renamed, InUse, Exists, There
    <3> QED BY <1>4, <2>0, <3>2
  <2>2. ASSUME NEW s \in Tables, NEW j \in Keys[s], NEW p \in References[s],
               There(table'[s][j]), table'[s][j].refs[p] # NULL
        PROVE  There(table'[p][table'[s][j].refs[p]])
    <3>1. p \in Tables /\ s # t
      BY DEF References, Kept, Nulled, Mandatory
    <3>2. table'[s][j] = table[s][j]
      BY <3>1 DEF Renamed
    <3>3. table[s][j].refs[p] \in Keys[p]
      BY <2>2, <3>2, RefKey DEF Inv
    <3>4. There(table[p][table[s][j].refs[p]])
      BY <2>2, <3>2 DEF Inv, ReferencesExist, Exists, There
    <3>5. ~(p = t /\ table[s][j].refs[p] = k)
      BY <2>2, <3>2 DEF Renamed, Referenced, Referring, Exists, There
    <3> QED BY <1>4, <3>1, <3>2, <3>3, <3>4, <3>5
  <2> QED BY <2>1, <2>2, ReferencesNext
<1>6. UniqueNames'
  BY DEF Renamed, Inv, UniqueNames, UniqueTables, Exists
<1> QED BY <1>1, <1>2, <1>3, <1>5, <1>6 DEF Inv

\* Setting a reference to NULL keeps a row's type and name and raises its version.
LEMMA NulledRow ==
  ASSUME NEW t \in Tables, NEW p \in References[t], NEW row, RowOK(t, row), There(row),
         <<t, p>> \notin Mandatory
  PROVE  LET new == Row([row EXCEPT !.refs[p] = NULL], row.version_nbr + 1) IN
         /\ RowOK(t, new) /\ There(new)
         /\ new.name = row.name /\ new.version_nbr = row.version_nbr + 1
         /\ new.status_code = row.status_code
         /\ new.refs[p] = NULL
         /\ \A q \in References[t] \ {p} : new.refs[q] = row.refs[q]
<1> DEFINE form == [row EXCEPT !.refs[p] = NULL]
           v == row.version_nbr + 1
<1>1. /\ row = Row(row, row.version_nbr)
      /\ row.status_code \in {"A", IF t = "event" THEN "C" ELSE "I"}
      /\ row.version_nbr \in Nat \ {0} /\ row.name \in Names[t] /\ RefsOK(t, row.refs)
  BY RowFacts DEF There
<1>2. /\ form.status_code = row.status_code /\ form.name = row.name
      /\ form.refs = [row.refs EXCEPT ![p] = NULL]
  BY <1>1 DEF Row
<1>3. /\ [row.refs EXCEPT ![p] = NULL] \in [References[t] -> AllKeys \cup {NULL}]
      /\ [row.refs EXCEPT ![p] = NULL][p] = NULL
      /\ \A q \in References[t] \ {p} : [row.refs EXCEPT ![p] = NULL][q] = row.refs[q]
  BY <1>1 DEF RefsOK
<1>4. RefsOK(t, form.refs)
  BY <1>1, <1>2, <1>3 DEF RefsOK
<1>5. v \in Nat \ {0}
  BY <1>1
<1> HIDE DEF form, v
<1>6. RowOK(t, Row(form, v)) /\ There(Row(form, v))
  BY <1>1, <1>2, <1>4, <1>5 DEF RowOK, Row, There
<1>7. /\ Row(form, v).name = row.name /\ Row(form, v).version_nbr = v
      /\ Row(form, v).status_code = row.status_code /\ Row(form, v).refs = form.refs
  BY <1>2 DEF Row
<1> QED BY <1>2, <1>3, <1>6, <1>7 DEF form, v

\* Deleting a row leaves no reference to it: mandatory ones refuse the deletion,
\* the others become NULL.
LEMMA DeleteStep ==
  ASSUME Inv, NEW u \in Users, NEW t \in Tables, NEW k \in Keys[t], Delete(u, t, k)
  PROVE  Inv'
<1>0. /\ DOMAIN table' = Tables
      /\ \A s \in Tables : DOMAIN table'[s] = Keys[s]
      /\ table'[t][k] = NoRow(t, Gone(t))
      /\ \A s \in Tables : \A j \in Keys[s] :
           ~(s = t /\ j = k) => table'[s][j] = SetNull(s, t, k, table[s][j])
  BY DEF Delete
<1>a. SessionsClose /\ used' = Dropped(t, k)
  BY DEF Delete, Inv, TypeOK, SessionsClose
<1>b. ~ There(table'[t][k])
  BY <1>0 DEF NoRow, Gone, There
<1>c. ASSUME NEW s \in Tables, NEW j \in Keys[s], ~(s = t /\ j = k)
      PROVE  /\ RowOK(s, table'[s][j])
             /\ There(table[s][j]) <=> There(table'[s][j])
             /\ table'[s][j].name = table[s][j].name
             /\ table'[s][j].status_code = table[s][j].status_code
             /\ table'[s][j] = table[s][j] \/ (/\ table[s][j].version_nbr \in Nat
                                              /\ table'[s][j].version_nbr = table[s][j].version_nbr + 1)
             /\ \A p \in References[s] :
                  There(table[s][j]) =>
                    \/ table'[s][j].refs[p] = NULL
                    \/ table'[s][j].refs[p] = table[s][j].refs[p] /\ ~(p = t /\ table[s][j].refs[p] = k)
  <2>1. RowOK(s, table[s][j]) /\ table'[s][j] = SetNull(s, t, k, table[s][j])
    BY <1>0, <1>c DEF Inv, TypeOK
  <2>2. CASE t \in References[s] /\ table[s][j].refs[t] = k
    <3>1. There(table[s][j])
      <4>1. k # NULL
        BY MasterDataAssumptions
      <4> QED BY <2>1, <2>2, <4>1 DEF RowOK, NoRow, There
    <3>2. <<s, t>> \notin Mandatory
      BY <2>2, <3>1 DEF Delete, Referring, Kept, Exists, There
    <3>3. table'[s][j] = Row([table[s][j] EXCEPT !.refs[t] = NULL], table[s][j].version_nbr + 1)
      BY <2>1, <2>2 DEF SetNull
    <3>4. table[s][j].version_nbr \in Nat
      BY <2>1, <3>1, RowFacts DEF There
    <3> DEFINE new == Row([table[s][j] EXCEPT !.refs[t] = NULL], table[s][j].version_nbr + 1)
    <3>5. /\ RowOK(s, new) /\ There(new)
          /\ new.name = table[s][j].name /\ new.version_nbr = table[s][j].version_nbr + 1
          /\ new.status_code = table[s][j].status_code
          /\ new.refs[t] = NULL
          /\ \A q \in References[s] \ {t} : new.refs[q] = table[s][j].refs[q]
      BY <2>1, <2>2, <3>1, <3>2, NulledRow
    <3> HIDE DEF new
    <3>6. table'[s][j] = new
      BY <3>3 DEF new
    <3> QED BY <3>1, <3>4, <3>5, <3>6
  <2>3. CASE ~(t \in References[s] /\ table[s][j].refs[t] = k)
    <3>1. table'[s][j] = table[s][j]
      BY <2>1, <2>3 DEF SetNull
    <3> QED BY <2>1, <2>3, <3>1
  <2> QED BY <2>2, <2>3
<1>1. TypeOK'
  <2>1. \A s \in Tables : \A j \in Keys[s] : RowOK(s, table'[s][j])
    <3>1. RowOK(t, NoRow(t, Gone(t)))
      BY DEF RowOK, Gone
    <3> QED BY <1>0, <1>c, <3>1
  <2>2. DOMAIN session' = Users /\ \A v \in Users : SessionOK(session'[v])
    BY <1>a, SessionTypes DEF Inv
  <2>3. used' \in [Uses -> SUBSET AllKeys]
    BY <1>a DEF Dropped, Inv, TypeOK
  <2> QED BY <1>0, <2>1, <2>2, <2>3 DEF TypeOK
<1>2. SessionsOK'
  <2>1. ASSUME NEW s \in Tables \ {"unitofmeasure"}, NEW j \in Keys[s]
        PROVE  /\ table[s][j].status_code = "deleted" => table'[s][j].status_code = "deleted"
               /\ Exists(s, j) =>
                    \/ table'[s][j] = table[s][j]
                    \/ table'[s][j].status_code = "deleted"
                    \/ /\ table[s][j].version_nbr \in Nat
                       /\ table'[s][j].status_code \notin {"absent", "deleted"}
                       /\ table'[s][j].version_nbr = table[s][j].version_nbr + 1
    <3>1. CASE s = t /\ j = k
      BY <1>0, <2>1, <3>1 DEF NoRow, Gone
    <3>2. CASE ~(s = t /\ j = k)
      BY <1>c, <3>2 DEF Exists, There
    <3> QED BY <3>1, <3>2
  <2> QED BY <1>a, <2>1, SessionsKept DEF Inv
<1>3. UsedOK'
  BY <1>a DEF Inv, UsedOK, Dropped
<1>4. ReferencesExist'
  <2>0. \A r \in Uses : r[2] \in Tables /\ used[r] \subseteq Keys[r[2]]
    BY MasterDataAssumptions DEF Inv, UsedOK
  <2>1. ASSUME NEW r \in Uses, NEW j \in used'[r]
        PROVE  There(table'[r[2]][j])
    <3>1. j \in used[r] /\ ~(r[2] = t /\ j = k)
      BY <1>a DEF Dropped
    <3>2. There(table[r[2]][j])
      BY <3>1 DEF Inv, ReferencesExist, Exists, There
    <3> QED BY <1>c, <2>0, <3>1, <3>2
  <2>2. ASSUME NEW s \in Tables, NEW j \in Keys[s], NEW p \in References[s],
               There(table'[s][j]), table'[s][j].refs[p] # NULL
        PROVE  There(table'[p][table'[s][j].refs[p]])
    <3>1. ~(s = t /\ j = k)
      BY <1>b, <2>2
    <3>2. /\ There(table[s][j]) /\ table'[s][j].refs[p] = table[s][j].refs[p]
          /\ ~(p = t /\ table[s][j].refs[p] = k)
      BY <1>c, <2>2, <3>1
    <3>3. table[s][j].refs[p] \in Keys[p] /\ p \in Tables
      BY <2>2, <3>2, RefKey DEF Inv
    <3>4. There(table[p][table[s][j].refs[p]])
      BY <2>2, <3>2 DEF Inv, ReferencesExist, Exists, There
    <3> QED BY <1>c, <3>2, <3>3, <3>4
  <2> QED BY <2>1, <2>2, ReferencesNext
<1>5. UniqueNames'
  <2> SUFFICES ASSUME NEW s \in UniqueTables \cap Tables, NEW i \in Keys[s], NEW j \in Keys[s],
                      There(table'[s][i]), There(table'[s][j]),
                      table'[s][i].name = table'[s][j].name
               PROVE  i = j
    BY DEF UniqueNames, Exists, There
  <2>1. ~(s = t /\ i = k) /\ ~(s = t /\ j = k)
    BY <1>b
  <2>2. /\ There(table[s][i]) /\ There(table[s][j])
        /\ table[s][i].name = table[s][j].name
    BY <1>c, <2>1
  <2> QED BY <2>2 DEF Inv, UniqueNames, Exists, There
<1> QED BY <1>1, <1>2, <1>3, <1>4, <1>5 DEF Inv

-----------------------------------------------------------------------------
(* The theorems.                                                           *)

\* The invariant holds of empty tables.
LEMMA InitInv == Init => Inv
<1> SUFFICES ASSUME Init PROVE Inv
  OBVIOUS
<1>1. TypeOK
  BY DEF Init, TypeOK, RowOK, SessionOK
<1>2. ASSUME NEW t \in Tables, NEW k \in Keys[t]
      PROVE  ~ Exists(t, k)
  BY DEF Init, Exists, NoRow
<1>3. SessionsOK /\ UsedOK
  BY DEF Init, SessionsOK, UsedOK
<1>4. ReferencesExist
  BY <1>2 DEF Init, ReferencesExist
<1>5. UniqueNames
  BY <1>2 DEF UniqueNames
<1> QED BY <1>1, <1>3, <1>4, <1>5 DEF Inv

\* ... and every step keeps it.
LEMMA InvStep == Inv /\ [Next]_vars => Inv'
<1> SUFFICES ASSUME Inv, [Next]_vars PROVE Inv'
  OBVIOUS
<1>1. Kind
  BY Kinds
<1> QED BY <1>1, OpenedStep, LeftStep, WrittenStep, DeleteStep, RenamedStep, UseStep DEF Kind

\* The inductive invariant of the master data.
THEOREM Invariance == Spec => []Inv
BY InitInv, InvStep, PTL DEF Spec

\* Rows, uses and handlers have their types; no row lacks what is mandatory.
THEOREM TypeCorrect == Spec => []TypeOK
<1>1. Inv => TypeOK
  BY DEF Inv
<1> QED BY <1>1, Invariance, PTL

\* No update is lost: a commit that finds the version its handler read finds the row
\* its user saw (version_id_col), for any number of users and tables.
THEOREM NoLostUpdate == Spec => []SeenIsCurrent
<1>1. ASSUME Inv, NEW u \in Users, session[u].op \notin {"closed", "create"},
             session[u].t # "unitofmeasure", Unchanged(u, session[u].t, session[u].k)
      PROVE  table[session[u].t][session[u].k] = session[u].seen
  <2>1. SeenOK(session[u])
    BY <1>1 DEF Inv, SessionsOK, Closed
  <2> QED BY <1>1, <2>1 DEF SeenOK, Unchanged, Exists
<1>2. Inv => SeenIsCurrent
  BY <1>1 DEF SeenIsCurrent
<1> QED BY <1>2, Invariance, PTL

\* References and uses are never dangling, although the handlers look before they
\* delete and the deletion comes later.
THEOREM NoDanglingReferences == Spec => []ReferencesExist
<1>1. Inv => ReferencesExist
  BY DEF Inv
<1> QED BY <1>1, Invariance, PTL

-----------------------------------------------------------------------------
(* Names.  A handler's check of a warehouse's name stays true up to its    *)
(* commit if no other handler of warehouses is open.                       *)

WarehouseNames ==
  "warehouse" \in Tables =>
    \A j, k \in Keys["warehouse"] :
      /\ There(table["warehouse"][j]) /\ There(table["warehouse"][k])
      /\ table["warehouse"][j].name = table["warehouse"][k].name
      => j = k

\* Every step keeps the names of warehouses distinct and the checks true.
LEMMA NamesStep ==
  ASSUME Inv, OneAtATime, CheckedNames, WarehouseNames, [Next]_vars
  PROVE  CheckedNames' /\ WarehouseNames'
<1> DEFINE w == "warehouse"
           Frame == w \in Tables => \A k \in Keys[w] : There(table'[w][k]) =>
                      There(table[w][k]) /\ table'[w][k].name = table[w][k].name
<1>1. ASSUME Frame, SessionsClose
      PROVE  CheckedNames' /\ WarehouseNames'
  <2>1. WarehouseNames'
    BY <1>1 DEF WarehouseNames, There
  <2>2. ASSUME NEW u \in Users
        PROVE  CheckedName(session[u])'
    <3>1. CASE session'[u] = Closed
      BY <3>1 DEF CheckedName, Closed
    <3>2. CASE session'[u] = session[u] /\ session[u] # Closed
      <4>1. CheckedName(session[u]) /\ session[u].t \in Tables
        BY <3>2 DEF CheckedNames, Inv, SessionsOK, StaticOK
      <4>2. CASE session[u].t = w
        BY <1>1, <3>2, <4>1, <4>2 DEF CheckedName, UniqueName, Exists, There
      <4>3. CASE session[u].t # w
        BY <3>2, <4>3 DEF CheckedName
      <4> QED BY <4>2, <4>3
    <3> QED BY <1>1, <3>1, <3>2 DEF SessionsClose
  <2> QED BY <2>1, <2>2 DEF CheckedNames, CheckedName
<1>2. ASSUME NEW u \in Users, OpenedBy(u)
      PROVE  CheckedNames' /\ WarehouseNames'
  <2>1. UNCHANGED table
    BY <1>2 DEF OpenedBy
  <2>2. ASSUME NEW v \in Users
        PROVE  CheckedName(session'[v])
    BY <1>2 DEF OpenedBy, CheckedNames
  <2> QED BY <2>1, <2>2 DEF CheckedNames, CheckedName, UniqueName, WarehouseNames, Exists, There
<1>3. ASSUME NEW t \in Tables, NEW k \in Keys[t], Written(t, k)
      PROVE  CheckedNames' /\ WarehouseNames'
  <2>0. SameBut(t, k) /\ SessionsClose
    BY <1>3 DEF Written
  <2>1. CASE t # w
    <3>1. Frame
      BY <2>0, <2>1 DEF SameBut
    <3> QED BY <1>1, <2>0, <3>1
  <2>2. CASE t = w
    <3>1. PICK u \in Users :
            /\ session[u].t = t /\ session[u] # Closed /\ session'[u] = Closed
            /\ CheckedName(session[u]) =>
                 \A j \in Keys[t] \ {k} : Exists(t, j) => table[t][j].name # table'[t][k].name
      BY <1>3, <2>2 DEF Written
    <3>2. \A j \in Keys[w] \ {k} : There(table[w][j]) => table[w][j].name # table'[w][k].name
      BY <2>2, <3>1 DEF CheckedNames, Exists, There
    <3>3. WarehouseNames'
      BY <2>0, <2>2, <3>2 DEF WarehouseNames, SameBut, There
    <3>4. ASSUME NEW v \in Users
          PROVE  session'[v] = Closed \/ session'[v].t # w
      BY <2>0, <2>2, <3>1 DEF OneAtATime, SessionsClose, UniqueTables
    <3>5. CheckedNames'
      BY <3>4 DEF CheckedNames, CheckedName, Closed
    <3> QED BY <3>3, <3>5
  <2> QED BY <2>1, <2>2
<1>4. ASSUME NEW u \in Users, NEW t \in Tables, NEW k \in Keys[t], Delete(u, t, k)
      PROVE  CheckedNames' /\ WarehouseNames'
  <2>1. SessionsClose
    BY <1>4 DEF Delete, Inv, TypeOK, SessionsClose
  <2>2. ASSUME w \in Tables, NEW j \in Keys[w], There(table'[w][j])
        PROVE  There(table[w][j]) /\ table'[w][j].name = table[w][j].name
    <3>1. ~(w = t /\ j = k)
      BY <1>4, <2>2 DEF Delete, NoRow, Gone, There
    <3>2. table'[w][j] = SetNull(w, t, k, table[w][j])
      BY <1>4, <2>2, <3>1 DEF Delete
    <3>3. RowOK(w, table[w][j])
      BY <2>2 DEF Inv, TypeOK
    <3>4. CASE t \in References[w] /\ table[w][j].refs[t] = k
      <4>0. <<w, t>> \in Kept \cup Nulled
        BY <2>2, <3>4 DEF References
      <4>1. t = "custodian"
        BY <4>0 DEF Kept, Nulled, Mandatory
      <4>2. k # NULL
        BY MasterDataAssumptions
      <4>3. There(table[w][j])
        BY <3>3, <3>4, <4>2 DEF RowOK, NoRow, There
      <4>4. j \in Referring(w, t, k) /\ <<w, t>> \in Kept
        BY <2>2, <3>4, <4>1, <4>3 DEF Referring, Exists, There, Kept, Mandatory
      <4> QED BY <1>4, <2>2, <4>4 DEF Delete
    <3>5. CASE ~(t \in References[w] /\ table[w][j].refs[t] = k)
      BY <2>2, <3>2, <3>5 DEF SetNull
    <3> QED BY <3>4, <3>5
  <2> QED BY <1>1, <2>1, <2>2
<1>5. ASSUME "unitofmeasure" \in Tables, NEW k \in Keys["unitofmeasure"],
             NEW code \in Keys["unitofmeasure"], Renamed(k, code)
      PROVE  CheckedNames' /\ WarehouseNames'
  BY <1>1, <1>5 DEF Renamed
<1>6. ASSUME NEW r \in Uses, NEW k \in Keys[r[2]], Use(r, k) \/ Release(r, k)
      PROVE  CheckedNames' /\ WarehouseNames'
  BY <1>1, <1>6 DEF Use, Release, SessionsClose, Inv, TypeOK
<1>7. CASE UNCHANGED <<table, used>> /\ SessionsClose
  BY <1>1, <1>7
<1>8. Kind
  BY Kinds
<1> QED BY <1>2, <1>3, <1>4, <1>5, <1>6, <1>7, <1>8 DEF Kind

\* Two rows get one name only in a race, and only where the database has no unique
\* constraint: the pages' own checks suffice for warehouses that are saved one by
\* one (validate_warehouse_data), the constraints for everything else.
THEOREM NameClashOnlyInRace == Spec => NameClashNeedsRace
<1>1. Init => CheckedNames /\ WarehouseNames
  BY DEF Init, CheckedNames, CheckedName, WarehouseNames, Closed, NoRow, There
<1>2. Inv /\ OneAtATime /\ CheckedNames /\ WarehouseNames /\ [Next]_vars =>
        CheckedNames' /\ WarehouseNames'
  BY NamesStep
<1>3. Inv /\ WarehouseNames => NamesDistinct
  BY DEF Inv, UniqueNames, WarehouseNames, NamesDistinct, NamedTables, Exists, There
<1> QED BY <1>1, <1>2, <1>3, Invariance, PTL DEF Spec, NameClashNeedsRace

\* A closed event stays closed and unchanged until it is deleted (edit_event,
\* close_event, delete_event).
THEOREM ClosedFinal == Spec => ClosedEventFinal
<1> DEFINE Events_ == IF "event" \in Tables THEN Keys["event"] ELSE {}
<1>1. ASSUME Inv, [Next]_vars, NEW k \in Events_, table["event"][k].status_code = "C"
      PROVE  table'["event"][k] \in {table["event"][k], NoRow("event", "deleted")}
  <2>0. "event" \in Tables /\ k \in Keys["event"]
    OBVIOUS
  <2>1. ASSUME NEW t \in Tables, NEW j \in Keys[t], Written(t, j)
        PROVE  table'["event"][k] = table["event"][k]
    BY <1>1, <2>0, <2>1 DEF Written, SameBut, Exists
  <2>2. ASSUME NEW u \in Users, NEW t \in Tables, NEW j \in Keys[t], Delete(u, t, j)
        PROVE  table'["event"][k] \in {table["event"][k], NoRow("event", "deleted")}
    <3>1. References["event"] = {}
      BY DEF References, Kept, Nulled, Mandatory
    <3> QED BY <2>0, <2>2, <3>1 DEF Delete, SetNull, Gone
  <2>3. ASSUME "unitofmeasure" \in Tables, NEW j \in Keys["unitofmeasure"],
               NEW code \in Keys["unitofmeasure"], Renamed(j, code)
        PROVE  table'["event"][k] = table["event"][k]
    BY <2>0, <2>3 DEF Renamed
  <2>4. Kind
    BY <1>1, Kinds
  <2> QED BY <2>1, <2>2, <2>3, <2>4 DEF Kind, OpenedBy, Use, Release
<1>2. Inv /\ [Next]_vars =>
        [\A k \in (IF "event" \in Tables THEN Keys["event"] ELSE {}) :
           table["event"][k].status_code = "C" =>
             table'["event"][k] \in {table["event"][k], NoRow("event", "deleted")}]_vars
  BY <1>1
<1> QED BY <1>2, Invariance, PTL DEF Spec, ClosedEventFinal
=============================================================================
