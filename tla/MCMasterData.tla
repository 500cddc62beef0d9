----------------------------- MODULE MCMasterData -----------------------------
(* Two users on a few tables at a time.                                      *)
EXTENDS MasterData, TLC

CONSTANTS
  TwoRows,    \* the tables with two keys, the others have one
  Referrers,  \* the workflows that refer to rows
  Groups      \* the sets of tables that are in use at the same time

MCKeys == [t \in Tables |-> IF t \in TwoRows THEN {"k1", "k2"} ELSE {"k1"}]

\* All rows of a table want the same name; one of two warehouses can be given another.
MCNames == [t \in Tables |-> IF t = "warehouse" /\ t \in TwoRows THEN {"n1", "n2"} ELSE {"n1"}]

\* Only items have a form that says inactive.
MCStatuses == [t \in Tables |-> IF t = "item" THEN {"A", "I"} ELSE {"A"}]

\* An event can be edited, closed, and found closed by a second edit.
MCMaxVersion == [t \in Tables |-> IF t = "event" THEN 3 ELSE 2]

MCUses ==
  {r \in KeptUses \cup NulledUses :
     r[1] \in Referrers /\ r[2] \in Tables \ {"agency", "custodian"}}

InTables(t, keys) ==
  \/ \E k \in Keys[t] \cap keys : table[t][k].status_code # "absent"
  \/ \E u \in Users : session[u].t = t

\* Groups whose tables do not refer to each other are looked at one by one; next to
\* beneficiaries there is one warehouse.
OneGroup ==
  /\ \E g \in Groups : \A t \in Tables \ g : ~ InTables(t, Keys[t])
  /\ "beneficiary" \in Tables => \/ ~ InTables("beneficiary", {"k1"})
                                 \/ table["warehouse"]["k2"].status_code = "absent"

Symmetry == Permutations(Users)
===============================================================================
