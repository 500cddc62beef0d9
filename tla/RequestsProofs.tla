--------------------------- MODULE RequestsProofs ---------------------------
(***************************************************************************)
(* Proofs that the properties of Requests hold for every set of requests,  *)
(* items, users and roles.                                                 *)
(***************************************************************************)
EXTENDS Requests, FiniteSetTheorems, TLAPS

\* A number that was not given out has version 0, and up to the review there is no
\* decision.
Undecided ==
  \A r \in Requests :
    /\ reliefrqst[r].status_code = "absent" => reliefrqst[r].version_nbr = 0
    /\ reliefrqst[r].status_code \in {"absent", "DRAFT", "AWAITING_APPROVAL"} =>
         reliefrqst[r].review_by_id = "none"

\* The inductive invariant.
Inv == TypeOK /\ ReadsHold /\ NoOrphanItems /\ NoticesAreTrue /\ Undecided

Keys == Users \X Requests \X Types

-----------------------------------------------------------------------------
(* Facts about notices.                                                    *)

\* A user is listed a natural number of times among the recipients.
LEMMA CountsAreNat ==
  /\ odpem_directors \in [Users -> Nat]
  /\ logistics_users \in [Users -> Nat]
  /\ agency_users \in [Users -> Nat]
<1>1. ASSUME NEW u \in Users
      PROVE  Cardinality({role \in DirectorRoles : u \in RoleUsers[role]}) \in Nat
  <2>1. {role \in DirectorRoles : u \in RoleUsers[role]} \subseteq DirectorRoles
    OBVIOUS
  <2>2. IsFiniteSet({role \in DirectorRoles : u \in RoleUsers[role]})
    BY <2>1, RequestAssumptions, FS_Subset
  <2> QED BY <2>2, FS_CardinalityType
<1> QED BY <1>1 DEF odpem_directors, logistics_users, agency_users

\* What create_notification leaves under each key.
LEMMA NoticesCreated ==
  ASSUME TypeOK, NEW r \in Requests, NEW t \in Types, NEW count \in [Users -> Nat],
         create_notification(r, t, count)
  PROVE  /\ notification' \in [Keys -> Notices]
         /\ \A n \in Keys : ~(n[2] = r /\ n[3] = t) => notification'[n] = notification[n]
         /\ \A u \in Users :
              /\ notification'[<<u, r, t>>].unread = notification[<<u, r, t>>].unread + count[u]
              /\ notification'[<<u, r, t>>].read = notification[<<u, r, t>>].read
<1>1. DOMAIN notification = Keys
  BY DEF TypeOK, Keys
<1>2. ASSUME NEW n \in Keys
      PROVE  n[1] \in Users /\ notification[n] \in Notices
  BY <1>2 DEF TypeOK, Keys
<1>3. notification' = [n \in Keys |->
        IF n[2] = r /\ n[3] = t
        THEN [notification[n] EXCEPT !.unread = @ + count[n[1]]]
        ELSE notification[n]]
  BY <1>1 DEF create_notification
<1>4. ASSUME NEW n \in Keys
      PROVE  [notification[n] EXCEPT !.unread = @ + count[n[1]]] \in Notices
  BY <1>2 DEF Notices
<1>5. notification' \in [Keys -> Notices]
  BY <1>2, <1>3, <1>4
<1>6. ASSUME NEW u \in Users
      PROVE  /\ notification'[<<u, r, t>>].unread = notification[<<u, r, t>>].unread + count[u]
             /\ notification'[<<u, r, t>>].read = notification[<<u, r, t>>].read
  <2>1. <<u, r, t>> \in Keys
    BY DEF Keys
  <2>2. notification'[<<u, r, t>>] = [notification[<<u, r, t>>] EXCEPT !.unread = @ + count[u]]
    BY <2>1, <1>3
  <2> QED BY <2>1, <2>2, <1>2 DEF Notices
<1> QED BY <1>3, <1>5, <1>6

-----------------------------------------------------------------------------
(* Types.                                                                  *)

\* Opening a handler keeps the types.
LEMMA EnterType ==
  ASSUME TypeOK, NEW u \in Users, NEW op \in Ops, NEW r \in Requests,
         NEW i \in Items \cup {"none"}, NEW v \in Nat, Enter(u, op, r, i, v)
  PROVE  TypeOK'
BY DEF TypeOK, Enter, Sessions

\* The version of an item's row is a natural number.
LEMMA ItemVersionType ==
  ASSUME TypeOK, NEW r \in Requests, NEW i \in Items
  PROVE  ItemVersion(r, i) \in Nat
BY DEF TypeOK, ItemVersion

\* Every step keeps the types.
LEMMA TypeStep ==
  ASSUME TypeOK, [Next]_vars
  PROVE  TypeOK'
<1> USE CountsAreNat
<1>1. ASSUME NEW r \in Requests, create_draft_request(r)
      PROVE  TypeOK'
  BY <1>1 DEF TypeOK, create_draft_request, ReliefRqst, Statuses
<1>2. ASSUME NEW u \in Users, NEW r \in Requests, Read(u, r)
      PROVE  TypeOK'
  <2>1. reliefrqst[r].version_nbr \in Nat
    BY DEF TypeOK, ReliefRqst
  <2>2. CASE ReadItems(u, r)
    <3>1. DOMAIN reliefrqst_item[r] \subseteq Items
      BY DEF TypeOK
    <3> QED BY <2>2, <3>1, ItemVersionType, EnterType DEF ReadItems, Ops
  <2>3. CASE ReadDraft(u, r)
    BY <2>1, <2>3, EnterType DEF ReadDraft, Ops
  <2>4. CASE Enter(u, "submit", r, "none", reliefrqst[r].version_nbr)
    BY <2>1, <2>4, EnterType DEF Ops
  <2>5. CASE /\ In(u, "page", r, "none")
             /\ session' = [session EXCEPT ![u].op = "submit"]
             /\ UNCHANGED <<reliefrqst, reliefrqst_item, notification>>
    <3>1. session[u] # Closed
      BY <2>5 DEF In, Closed
    <3>2. session[u] \in [op : Ops, r : Requests, i : Items \cup {"none"}, version_nbr : Nat]
      BY <3>1 DEF TypeOK, Sessions
    <3>3. [session[u] EXCEPT !.op = "submit"] \in Sessions
      BY <3>2 DEF Sessions, Ops
    <3> QED BY <2>5, <3>3 DEF TypeOK
  <2>6. CASE ReadDecision(u, r)
    BY <2>1, <2>6, EnterType DEF ReadDecision, Ops
  <2> QED BY <1>2, <2>2, <2>3, <2>4, <2>5, <2>6 DEF Read, ReadSubmit
<1>3. ASSUME NEW u \in Users, Leave(u)
      PROVE  TypeOK'
  BY <1>3 DEF TypeOK, Leave, Sessions
<1>4. ASSUME NEW u \in Users, NEW r \in Requests, edit_request(u, r)
      PROVE  TypeOK'
  BY <1>4 DEF TypeOK, edit_request, Done, ReliefRqst, Sessions
<1>5. ASSUME NEW u \in Users, NEW r \in Requests, NEW i \in Items,
             add_or_update_request_item(u, r, i)
      PROVE  TypeOK'
  <2>1. ItemVersion(r, i) \in Nat
    BY ItemVersionType
  <2>2. session' \in [Users -> Sessions]
    BY <1>5 DEF TypeOK, add_or_update_request_item, Done, Sessions
  <2> DEFINE new == [j \in DOMAIN reliefrqst_item[r] \cup {i} |->
                       IF j = i THEN ItemVersion(r, i) + 1 ELSE reliefrqst_item[r][j]]
  <2>3. /\ DOMAIN new \subseteq Items
        /\ new \in [DOMAIN new -> Nat \ {0}]
    BY <2>1 DEF TypeOK
  <2>4. reliefrqst_item' = [reliefrqst_item EXCEPT ![r] = new]
    BY <1>5 DEF add_or_update_request_item
  <2> HIDE DEF new
  <2> QED BY <1>5, <2>2, <2>3, <2>4 DEF TypeOK, add_or_update_request_item
<1>6. ASSUME NEW u \in Users, NEW r \in Requests, NEW i \in Items,
             delete_request_item(u, r, i)
      PROVE  TypeOK'
  <2>1. session' \in [Users -> Sessions]
    BY <1>6 DEF TypeOK, delete_request_item, Done, Sessions
  <2> QED BY <1>6, <2>1 DEF TypeOK, delete_request_item
<1>7. ASSUME NEW u \in Users, NEW r \in Requests, cancel_request(u, r)
      PROVE  TypeOK'
  <2>1. session' \in [Users -> Sessions]
    BY <1>7 DEF TypeOK, cancel_request, Done, Sessions
  <2>2. /\ DOMAIN NoItems \subseteq Items
        /\ NoItems \in [DOMAIN NoItems -> Nat \ {0}]
    BY DEF NoItems
  <2>3. reliefrqst' \in [Requests -> ReliefRqst]
    BY <1>7 DEF TypeOK, cancel_request, ReliefRqst, Statuses
  <2> QED BY <1>7, <2>1, <2>2, <2>3 DEF TypeOK, cancel_request
<1>8. ASSUME NEW u \in Users, NEW r \in Requests, submit_request(u, r)
      PROVE  TypeOK'
  <2>1. session' \in [Users -> Sessions]
    BY <1>8 DEF TypeOK, submit_request, Done, Sessions
  <2>2. reliefrqst' \in [Requests -> ReliefRqst]
    BY <1>8 DEF TypeOK, submit_request, ReliefRqst, Statuses
  <2>3. notification' \in [Keys -> Notices]
    BY <1>8, NoticesCreated DEF submit_request, _create_odpem_notifications, Types
  <2> QED BY <1>8, <2>1, <2>2, <2>3 DEF TypeOK, submit_request, Keys
<1>9. ASSUME NEW u \in Users, NEW r \in Requests, submit_eligibility_decision(u, r)
      PROVE  TypeOK'
  <2>1. session' \in [Users -> Sessions]
    BY <1>9 DEF TypeOK, submit_eligibility_decision, Done, Sessions
  <2>2. reliefrqst' \in [Requests -> ReliefRqst]
    BY <1>9 DEF TypeOK, submit_eligibility_decision, ReliefRqst, Statuses
  <2>3. notification' \in [Keys -> Notices]
    BY <1>9, NoticesCreated DEF submit_eligibility_decision, _create_eligible_notification,
       _create_ineligible_notification, Types
  <2> QED BY <1>9, <2>1, <2>2, <2>3 DEF TypeOK, submit_eligibility_decision, Keys
<1>10. ASSUME Notice
       PROVE  TypeOK'
  <2>1. ASSUME NEW n \in Keys, mark_as_read(n)
        PROVE  TypeOK'
    <3>1. notification[n] \in Notices
      BY DEF TypeOK, Keys
    <3>2. [unread |-> notification[n].unread - 1, read |-> notification[n].read + 1] \in Notices
      BY <2>1, <3>1 DEF mark_as_read, Notices
    <3>3. notification' = [notification EXCEPT ![n] =
            [unread |-> notification[n].unread - 1, read |-> notification[n].read + 1]]
      BY <2>1 DEF mark_as_read
    <3>4. notification' \in [Keys -> Notices]
      BY <3>2, <3>3 DEF TypeOK, Keys
    <3> QED BY <2>1, <3>4 DEF TypeOK, mark_as_read, Keys
  <2>2. ASSUME NEW n \in Keys, delete_notification(n)
        PROVE  TypeOK'
    <3>1. notification[n] \in Notices
      BY DEF TypeOK, Keys
    <3>2. PICK status \in {"unread", "read"} :
            /\ notification[n][status] > 0
            /\ notification' = [notification EXCEPT ![n][status] = @ - 1]
      BY <2>2 DEF delete_notification
    <3> DEFINE left == [notification[n] EXCEPT ![status] = @ - 1]
    <3>3. left \in Notices
      BY <3>1, <3>2 DEF Notices
    <3>4. notification' = [notification EXCEPT ![n] = left]
      BY <3>2
    <3> HIDE DEF left
    <3>5. notification' \in [Keys -> Notices]
      BY <3>3, <3>4 DEF TypeOK, Keys
    <3> QED BY <2>2, <3>5 DEF TypeOK, delete_notification, Keys
  <2>3. ASSUME NEW u \in Users, clear_all_notifications(u)
        PROVE  TypeOK'
    BY <2>3 DEF TypeOK, clear_all_notifications, NoNotice, Notices
  <2> QED BY <1>10, <2>1, <2>2, <2>3 DEF Notice, Keys
<1>11. CASE UNCHANGED vars
  BY <1>11 DEF TypeOK, vars
<1> QED
  BY <1>1, <1>2, <1>3, <1>4, <1>5, <1>6, <1>7, <1>8, <1>9, <1>10, <1>11
     DEF Next, Commit, create_request, create_request_on_behalf

-----------------------------------------------------------------------------
(* What a handler read.                                                    *)

\* The operations that will write the request's row.
Writers == {"page", "edit", "cancel", "submit", "decide"}

\* What ReadsHold says of one session s and one row of the request.
Holds(s, row) ==
  s.op \in Writers =>
    /\ s.version_nbr <= row.version_nbr
    /\ s.version_nbr = row.version_nbr /\ row.status_code # "deleted" =>
         /\ row.status_code = (IF s.op = "decide" THEN "AWAITING_APPROVAL" ELSE "DRAFT")
         /\ row.review_by_id = "none"

\* ReadsHold, session by session.
LEMMA ReadsHoldEach ==
  ReadsHold <=> \A u \in Users : session[u] # Closed => Holds(session[u], reliefrqst[session[u].r])
BY DEF ReadsHold, Holds, Writers

\* A session that is not closed is about a request.
LEMMA SessionOfRequest ==
  ASSUME TypeOK, NEW u \in Users, session[u] # Closed
  PROVE  /\ session[u] \in [op : Ops, r : Requests, i : Items \cup {"none"}, version_nbr : Nat]
         /\ session[u].r \in Requests /\ session[u].version_nbr \in Nat
BY DEF TypeOK, Sessions

\* A handler that finds the version it read finds the row as it checked it.
LEMMA ReadRow ==
  ASSUME TypeOK, ReadsHold, NEW u \in Users, NEW r \in Requests, NEW op \in Writers,
         In(u, op, r, "none"), Unchanged(u, r)
  PROVE  /\ reliefrqst[r].status_code = IF op = "decide" THEN "AWAITING_APPROVAL" ELSE "DRAFT"
         /\ reliefrqst[r].review_by_id = "none"
<1>1. session[u] # Closed
  BY DEF In, Closed, Writers
<1> QED BY <1>1, ReadsHoldEach DEF In, Unchanged, Holds

\* A row whose version is raised holds for every session that held of the old one.
LEMMA RaisedRowHolds ==
  ASSUME TypeOK, ReadsHold, NEW r \in Requests,
         reliefrqst' \in [Requests -> ReliefRqst],
         \A q \in Requests \ {r} : reliefrqst'[q] = reliefrqst[q],
         reliefrqst'[r].version_nbr = reliefrqst[r].version_nbr + 1,
         \A u \in Users : session'[u] = session[u] \/ session'[u] = Closed
  PROVE  ReadsHold'
<1> SUFFICES ASSUME NEW u \in Users, session'[u] # Closed
             PROVE  Holds(session[u], reliefrqst'[session[u].r])
  BY DEF ReadsHold, Holds, Writers
<1>1. session[u] # Closed /\ session'[u] = session[u]
  OBVIOUS
<1>2. Holds(session[u], reliefrqst[session[u].r])
  BY <1>1, ReadsHoldEach
<1>3. session[u].r \in Requests /\ session[u].version_nbr \in Nat
  BY <1>1, SessionOfRequest
<1>4. CASE session[u].r # r
  BY <1>2, <1>3, <1>4
<1>5. CASE session[u].r = r
  <2>1. reliefrqst[r].version_nbr \in Nat
    BY DEF TypeOK, ReliefRqst
  <2> QED BY <1>2, <1>3, <1>5, <2>1 DEF Holds
<1> QED BY <1>4, <1>5

\* A step that keeps the requests, and opens at most a session that holds.
LEMMA OpenedHolds ==
  ASSUME ReadsHold, UNCHANGED reliefrqst,
         \A u \in Users : \/ session'[u] = session[u]
                          \/ session'[u] = Closed
                          \/ Holds(session'[u], reliefrqst[session'[u].r])
  PROVE  ReadsHold'
<1> SUFFICES ASSUME NEW u \in Users, session'[u] # Closed
             PROVE  Holds(session'[u], reliefrqst[session'[u].r])
  BY DEF ReadsHold, Holds, Writers
<1> QED BY ReadsHoldEach

\* A step that keeps the sessions or closes some.
LEMMA SessionsClose ==
  ASSUME TypeOK, NEW u \in Users, Done(u)
  PROVE  \A v \in Users : session'[v] = session[v] \/ session'[v] = Closed
BY DEF TypeOK, Done

\* Opening a handler on the version the request has keeps ReadsHold if the request
\* is in the status the handler asks for.
LEMMA EnterHolds ==
  ASSUME TypeOK, ReadsHold, NEW u \in Users, NEW op \in Ops, NEW r \in Requests,
         NEW i \in Items \cup {"none"}, NEW v \in Nat, Enter(u, op, r, i, v),
         op \in Writers =>
           /\ v = reliefrqst[r].version_nbr
           /\ reliefrqst[r].status_code = IF op = "decide" THEN "AWAITING_APPROVAL" ELSE "DRAFT"
           /\ reliefrqst[r].review_by_id = "none"
  PROVE  ReadsHold'
<1>1. \A w \in Users \ {u} : session'[w] = session[w]
  BY DEF TypeOK, Enter
<1>2. session'[u] = [op |-> op, r |-> r, i |-> i, version_nbr |-> v]
  BY DEF TypeOK, Enter
<1>3. Holds(session'[u], reliefrqst[session'[u].r])
  BY <1>2 DEF Holds
<1> QED BY <1>1, <1>3, OpenedHolds DEF Enter

\* Every step keeps ReadsHold.
LEMMA ReadsStep ==
  ASSUME Inv, [Next]_vars
  PROVE  ReadsHold'
<1> USE DEF Inv
<1>0. TypeOK'
  BY TypeStep
<1>1. ASSUME NEW r \in Requests, create_draft_request(r)
      PROVE  ReadsHold'
  <2>1. reliefrqst[r].status_code = "absent" /\ reliefrqst[r].version_nbr = 0
    BY <1>1 DEF create_draft_request, Undecided
  <2>2. reliefrqst'[r].version_nbr = reliefrqst[r].version_nbr + 1
    BY <1>1, <2>1 DEF create_draft_request, TypeOK
  <2>3. /\ \A q \in Requests \ {r} : reliefrqst'[q] = reliefrqst[q]
        /\ \A u \in Users : session'[u] = session[u]
    BY <1>1 DEF create_draft_request, TypeOK
  <2> QED BY <1>0, <2>2, <2>3, RaisedRowHolds DEF TypeOK
<1>2. ASSUME NEW u \in Users, NEW r \in Requests, Read(u, r)
      PROVE  ReadsHold'
  <2>1. reliefrqst[r].version_nbr \in Nat
    BY DEF TypeOK, ReliefRqst
  <2>2. CASE ReadItems(u, r)
    <3>1. DOMAIN reliefrqst_item[r] \subseteq Items
      BY DEF TypeOK
    <3>2. PICK op \in {"add_item", "delete_item"}, i \in Items :
            Enter(u, op, r, i, ItemVersion(r, i))
      BY <2>2, <3>1 DEF ReadItems
    <3> QED BY <3>2, ItemVersionType, EnterHolds DEF Ops, Writers
  <2>3. CASE ReadDraft(u, r)
    <3>1. PICK op \in {"page", "edit", "cancel"} :
            Enter(u, op, r, "none", reliefrqst[r].version_nbr)
      BY <2>3 DEF ReadDraft
    <3>2. reliefrqst[r].status_code = "DRAFT" /\ reliefrqst[r].review_by_id = "none"
      BY <2>3 DEF ReadDraft, Undecided
    <3> QED BY <2>1, <3>1, <3>2, EnterHolds DEF Ops
  <2>4. CASE /\ reliefrqst[r].status_code = "DRAFT"
             /\ Enter(u, "submit", r, "none", reliefrqst[r].version_nbr)
    <3>1. reliefrqst[r].review_by_id = "none"
      BY <2>4 DEF Undecided
    <3> QED BY <2>1, <2>4, <3>1, EnterHolds DEF Ops
  <2>5. CASE /\ In(u, "page", r, "none")
             /\ session' = [session EXCEPT ![u].op = "submit"]
             /\ UNCHANGED <<reliefrqst, reliefrqst_item, notification>>
    <3>1. session[u] # Closed
      BY <2>5 DEF In, Closed
    <3>2. session[u] \in [op : Ops, r : Requests, i : Items \cup {"none"}, version_nbr : Nat]
      BY <3>1, SessionOfRequest
    <3>3. session'[u] = [session[u] EXCEPT !.op = "submit"]
      BY <2>5 DEF TypeOK
    <3>4. /\ session'[u].op = "submit" /\ session'[u].r = session[u].r
          /\ session'[u].version_nbr = session[u].version_nbr
      BY <3>2, <3>3
    <3>5. Holds(session[u], reliefrqst[session[u].r]) /\ session[u].op = "page"
      BY <2>5, <3>1, ReadsHoldEach DEF In
    <3>6. Holds(session'[u], reliefrqst[session'[u].r])
      BY <3>4, <3>5 DEF Holds, Writers
    <3>7. \A v \in Users \ {u} : session'[v] = session[v]
      BY <2>5 DEF TypeOK
    <3> QED BY <2>5, <3>6, <3>7, OpenedHolds
  <2>6. CASE ReadDecision(u, r)
    BY <2>1, <2>6, EnterHolds DEF ReadDecision, Ops
  <2> QED BY <1>2, <2>2, <2>3, <2>4, <2>5, <2>6 DEF Read, ReadSubmit
<1>3. ASSUME NEW u \in Users, Leave(u)
      PROVE  ReadsHold'
  <2>1. \A v \in Users : session'[v] = session[v] \/ session'[v] = Closed
    BY <1>3 DEF Leave, TypeOK
  <2> QED BY <1>3, <2>1, OpenedHolds DEF Leave
<1>5. ASSUME NEW u \in Users, NEW r \in Requests, edit_request(u, r)
      PROVE  ReadsHold'
  <2>1. /\ reliefrqst'[r].version_nbr = reliefrqst[r].version_nbr + 1
        /\ \A q \in Requests \ {r} : reliefrqst'[q] = reliefrqst[q]
    BY <1>5 DEF TypeOK, ReliefRqst, edit_request
  <2> QED BY <1>0, <1>5, <2>1, SessionsClose, RaisedRowHolds DEF TypeOK, edit_request
<1>6. ASSUME NEW u \in Users, NEW r \in Requests, NEW i \in Items,
             add_or_update_request_item(u, r, i) \/ delete_request_item(u, r, i)
      PROVE  ReadsHold'
  BY <1>6, SessionsClose, OpenedHolds DEF add_or_update_request_item, delete_request_item
<1>7. ASSUME NEW u \in Users, NEW r \in Requests, cancel_request(u, r)
      PROVE  ReadsHold'
  <2>1. /\ reliefrqst'[r].version_nbr = reliefrqst[r].version_nbr
        /\ reliefrqst'[r].status_code = "deleted"
        /\ \A q \in Requests \ {r} : reliefrqst'[q] = reliefrqst[q]
    BY <1>7 DEF cancel_request, TypeOK, ReliefRqst
  <2> SUFFICES ASSUME NEW v \in Users, session'[v] # Closed
               PROVE  Holds(session[v], reliefrqst'[session[v].r])
    BY <1>7, SessionsClose DEF cancel_request, ReadsHold, Holds, Writers
  <2>2. session'[v] = session[v]
    BY <1>7, SessionsClose DEF cancel_request
  <2>3. session[v].r \in Requests
    BY <2>2, SessionOfRequest
  <2>4. Holds(session[v], reliefrqst[session[v].r])
    BY <2>2, ReadsHoldEach
  <2> QED BY <2>1, <2>3, <2>4 DEF Holds
<1>8. ASSUME NEW u \in Users, NEW r \in Requests, submit_request(u, r)
      PROVE  ReadsHold'
  <2>1. /\ reliefrqst'[r].version_nbr = reliefrqst[r].version_nbr + 1
        /\ \A q \in Requests \ {r} : reliefrqst'[q] = reliefrqst[q]
    BY <1>8 DEF TypeOK, ReliefRqst, submit_request
  <2> QED BY <1>0, <1>8, <2>1, SessionsClose, RaisedRowHolds DEF TypeOK, submit_request
<1>9. ASSUME NEW u \in Users, NEW r \in Requests, submit_eligibility_decision(u, r)
      PROVE  ReadsHold'
  <2>1. /\ reliefrqst'[r].version_nbr = reliefrqst[r].version_nbr + 1
        /\ \A q \in Requests \ {r} : reliefrqst'[q] = reliefrqst[q]
    BY <1>9 DEF TypeOK, ReliefRqst, submit_eligibility_decision
  <2> QED BY <1>0, <1>9, <2>1, SessionsClose, RaisedRowHolds
             DEF TypeOK, submit_eligibility_decision
<1>10. ASSUME Notice \/ UNCHANGED vars
       PROVE  ReadsHold'
  <2>1. UNCHANGED <<reliefrqst, session>>
    BY <1>10 DEF Notice, mark_as_read, delete_notification, clear_all_notifications, vars
  <2> QED BY <2>1, OpenedHolds
<1> QED
  BY <1>1, <1>2, <1>3, <1>5, <1>6, <1>7, <1>8, <1>9, <1>10
     DEF Next, Commit, create_request, create_request_on_behalf

-----------------------------------------------------------------------------
(* The other parts of the invariant.  Each lemma splits on the steps that  *)
(* can disturb its part.                                                   *)

\* The steps that change requests, items or notices; the others keep all three.
Writes ==
  \/ \E r \in Requests : create_draft_request(r)
  \/ \E u \in Users, r \in Requests : Commit(u, r)
  \/ Notice

\* A step writes or keeps the tables.
LEMMA WritesOrKeeps ==
  ASSUME [Next]_vars
  PROVE  Writes \/ UNCHANGED <<reliefrqst, reliefrqst_item, notification>>
BY DEF Next, Writes, create_request, create_request_on_behalf, Read, ReadItems, ReadDraft,
       ReadSubmit, ReadDecision, Enter, Leave, vars

\* Every step keeps NoOrphanItems.
LEMMA OrphanStep ==
  ASSUME Inv, [Next]_vars
  PROVE  NoOrphanItems'
<1> USE DEF Inv
<1>1. ASSUME NEW r \in Requests, create_draft_request(r)
      PROVE  NoOrphanItems'
  BY <1>1 DEF create_draft_request, NoOrphanItems, TypeOK, ReliefRqst
<1>2. ASSUME NEW u \in Users, NEW r \in Requests,
             edit_request(u, r) \/ submit_request(u, r) \/ submit_eligibility_decision(u, r)
      PROVE  NoOrphanItems'
  <2>1. \A q \in Requests : reliefrqst'[q].status_code \in {"absent", "deleted"} =>
          reliefrqst[q].status_code \in {"absent", "deleted"}
    BY <1>2 DEF edit_request, submit_request, submit_eligibility_decision, TypeOK, ReliefRqst
  <2> QED BY <1>2, <2>1 DEF edit_request, submit_request, submit_eligibility_decision, NoOrphanItems
<1>3. ASSUME NEW u \in Users, NEW r \in Requests, cancel_request(u, r)
      PROVE  NoOrphanItems'
  <2>1. \A q \in Requests \ {r} : /\ reliefrqst'[q] = reliefrqst[q]
                                  /\ reliefrqst_item'[q] = reliefrqst_item[q]
    BY <1>3 DEF cancel_request, TypeOK
  <2>2. DOMAIN reliefrqst_item'[r] = {}
    BY <1>3 DEF cancel_request, TypeOK, NoItems
  <2> QED BY <2>1, <2>2 DEF NoOrphanItems
<1>4. ASSUME NEW u \in Users, NEW r \in Requests, NEW i \in Items,
             add_or_update_request_item(u, r, i)
      PROVE  NoOrphanItems'
  BY <1>4 DEF add_or_update_request_item, fk_reliefrqst_item_reliefrqst, NoOrphanItems, TypeOK
<1>5. ASSUME NEW u \in Users, NEW r \in Requests, NEW i \in Items,
             delete_request_item(u, r, i)
      PROVE  NoOrphanItems'
  BY <1>5 DEF delete_request_item, NoOrphanItems, TypeOK
<1>6. ASSUME Notice \/ UNCHANGED <<reliefrqst, reliefrqst_item, notification>>
      PROVE  NoOrphanItems'
  BY <1>6 DEF Notice, mark_as_read, delete_notification, clear_all_notifications, NoOrphanItems
<1> QED BY <1>1, <1>2, <1>3, <1>4, <1>5, <1>6, WritesOrKeeps DEF Writes, Commit

\* Every step keeps Undecided.
LEMMA UndecidedStep ==
  ASSUME Inv, [Next]_vars
  PROVE  Undecided'
<1> USE DEF Inv
<1>1. ASSUME NEW r \in Requests, create_draft_request(r)
      PROVE  Undecided'
  BY <1>1 DEF create_draft_request, Undecided, TypeOK
<1>2. ASSUME NEW u \in Users, NEW r \in Requests, edit_request(u, r)
      PROVE  Undecided'
  BY <1>2 DEF edit_request, Unchanged, Undecided, TypeOK, ReliefRqst
<1>3. ASSUME NEW u \in Users, NEW r \in Requests, cancel_request(u, r)
      PROVE  Undecided'
  BY <1>3 DEF cancel_request, Undecided, TypeOK, ReliefRqst
<1>4. ASSUME NEW u \in Users, NEW r \in Requests, submit_request(u, r)
      PROVE  Undecided'
  <2>1. reliefrqst[r].review_by_id = "none"
    BY <1>4, ReadRow DEF submit_request, Writers
  <2> QED BY <1>4, <2>1 DEF submit_request, Undecided, TypeOK, ReliefRqst
<1>5. ASSUME NEW u \in Users, NEW r \in Requests, submit_eligibility_decision(u, r)
      PROVE  Undecided'
  <2>1. /\ reliefrqst'[r].status_code \in {"SUBMITTED", "INELIGIBLE"}
        /\ \A q \in Requests \ {r} : reliefrqst'[q] = reliefrqst[q]
    BY <1>5 DEF submit_eligibility_decision, TypeOK
  <2> QED BY <2>1 DEF Undecided
<1>6. ASSUME UNCHANGED reliefrqst
      PROVE  Undecided'
  BY <1>6 DEF Undecided
<1>7. ASSUME NEW u \in Users, NEW r \in Requests, NEW i \in Items,
             add_or_update_request_item(u, r, i) \/ delete_request_item(u, r, i)
      PROVE  UNCHANGED reliefrqst
  BY <1>7 DEF add_or_update_request_item, delete_request_item
<1>8. ASSUME Notice
      PROVE  UNCHANGED reliefrqst
  BY <1>8 DEF Notice, mark_as_read, delete_notification, clear_all_notifications
<1> QED BY <1>1, <1>2, <1>3, <1>4, <1>5, <1>6, <1>7, <1>8, WritesOrKeeps DEF Writes, Commit

\* NoticesAreTrue for one user, one request and one type.
TrueNotice(u, r, t) ==
  LET n == notification[<<u, r, t>>] IN
    /\ n.unread + n.read > 0 => reliefrqst[r].status_code \in Reported(t)
    /\ n.unread + n.read <= Recipients(t)[u]

\* A request whose status is none of those a type reports has no such notice.
LEMMA NoSuchNotice ==
  ASSUME TypeOK, NoticesAreTrue, NEW u \in Users, NEW r \in Requests, NEW t \in Types,
         reliefrqst[r].status_code \notin Reported(t)
  PROVE  notification[<<u, r, t>>].unread = 0 /\ notification[<<u, r, t>>].read = 0
<1>1. notification[<<u, r, t>>] \in Notices
  BY DEF TypeOK
<1>2. TrueNotice(u, r, t)
  BY DEF NoticesAreTrue, TrueNotice
<1> QED BY <1>1, <1>2 DEF TrueNotice, Notices

\* The recipients are counted in natural numbers.
LEMMA RecipientsNat ==
  ASSUME NEW t \in Types
  PROVE  Recipients(t) \in [Users -> Nat]
BY CountsAreNat DEF Recipients, Types

\* Sending the notices of type t when the request enters a status keeps NoticesAreTrue
\* if no notice of t was there and the other types' notices stay true.
LEMMA SendingStep ==
  ASSUME TypeOK, NoticesAreTrue, NEW r \in Requests, NEW t \in Types,
         create_notification(r, t, Recipients(t)),
         reliefrqst[r].status_code \notin Reported(t),
         reliefrqst'[r].status_code \in Reported(t),
         \A q \in Requests \ {r} : reliefrqst'[q] = reliefrqst[q],
         \A s \in Types \ {t} : reliefrqst[r].status_code \in Reported(s) =>
                                 reliefrqst'[r].status_code \in Reported(s)
  PROVE  NoticesAreTrue'
<1> SUFFICES ASSUME NEW u \in Users, NEW q \in Requests, NEW s \in Types
             PROVE  TrueNotice(u, q, s)'
  BY DEF NoticesAreTrue, TrueNotice
<1>1. TrueNotice(u, q, s)
  BY DEF NoticesAreTrue, TrueNotice
<1>2. Recipients(t) \in [Users -> Nat]
  BY RecipientsNat
<1>3. Recipients(s)' = Recipients(s) /\ Reported(s)' = Reported(s)
  BY DEF Recipients, Reported, odpem_directors, logistics_users, agency_users
<1>4. CASE q = r /\ s = t
  <2>1. notification[<<u, r, t>>].unread = 0 /\ notification[<<u, r, t>>].read = 0
    BY NoSuchNotice
  <2>2. /\ notification'[<<u, r, t>>].unread = Recipients(t)[u]
        /\ notification'[<<u, r, t>>].read = 0
    BY <1>2, <2>1, NoticesCreated
  <2> QED BY <1>2, <1>3, <1>4, <2>2 DEF TrueNotice
<1>5. CASE ~(q = r /\ s = t)
  <2>1. <<u, q, s>> \in Keys
    BY DEF Keys
  <2>2. notification'[<<u, q, s>>] = notification[<<u, q, s>>]
    BY <1>2, <1>5, <2>1, NoticesCreated
  <2>3. reliefrqst[q].status_code \in Reported(s) => reliefrqst'[q].status_code \in Reported(s)
    BY <1>5
  <2> QED BY <1>1, <1>3, <2>2, <2>3 DEF TrueNotice
<1> QED BY <1>4, <1>5

\* A step that takes no notice away from a status it reports, and adds none, keeps
\* NoticesAreTrue.
LEMMA FewerNotices ==
  ASSUME TypeOK, NoticesAreTrue, TypeOK',
         \A n \in Keys : notification'[n].unread + notification'[n].read
                         <= notification[n].unread + notification[n].read,
         \A r \in Requests, t \in Types :
           reliefrqst[r].status_code \in Reported(t) => reliefrqst'[r].status_code \in Reported(t)
  PROVE  NoticesAreTrue'
<1> SUFFICES ASSUME NEW u \in Users, NEW q \in Requests, NEW s \in Types
             PROVE  TrueNotice(u, q, s)'
  BY DEF NoticesAreTrue, TrueNotice
<1>1. TrueNotice(u, q, s)
  BY DEF NoticesAreTrue, TrueNotice
<1>2. Recipients(s)' = Recipients(s) /\ Reported(s)' = Reported(s)
  BY DEF Recipients, Reported, odpem_directors, logistics_users, agency_users
<1>3. <<u, q, s>> \in Keys
  BY DEF Keys
<1>4. notification[<<u, q, s>>] \in Notices /\ notification'[<<u, q, s>>] \in Notices
  BY <1>3 DEF TypeOK, Keys
<1>5. Recipients(s)[u] \in Nat
  BY RecipientsNat
<1> QED BY <1>1, <1>2, <1>3, <1>4, <1>5 DEF TrueNotice, Notices

\* Every step keeps NoticesAreTrue.
LEMMA NoticesStep ==
  ASSUME Inv, [Next]_vars
  PROVE  NoticesAreTrue'
<1> USE DEF Inv
<1>0. TypeOK'
  BY TypeStep
<1> DEFINE Later == \A r \in Requests, t \in Types :
      reliefrqst[r].status_code \in Reported(t) => reliefrqst'[r].status_code \in Reported(t)
<1>a. ASSUME UNCHANGED notification, Later
      PROVE  NoticesAreTrue'
  <2>1. ASSUME NEW n \in Keys
        PROVE  notification'[n].unread + notification'[n].read
                 <= notification[n].unread + notification[n].read
    <3>1. notification[n] \in Notices
      BY DEF TypeOK, Keys
    <3> QED BY <1>a, <3>1 DEF Notices
  <2> QED BY <1>0, <1>a, <2>1, FewerNotices
<1>1. ASSUME NEW r \in Requests, create_draft_request(r)
      PROVE  NoticesAreTrue'
  <2>1. Later
    BY <1>1 DEF create_draft_request, Reported, Types, TypeOK
  <2> QED BY <1>1, <1>a, <2>1 DEF create_draft_request
<1>2. ASSUME NEW u \in Users, NEW r \in Requests, edit_request(u, r)
      PROVE  NoticesAreTrue'
  <2>1. \A q \in Requests : reliefrqst'[q].status_code = reliefrqst[q].status_code
    BY <1>2 DEF edit_request, TypeOK, ReliefRqst
  <2> QED BY <1>2, <1>a, <2>1 DEF edit_request
<1>3. ASSUME NEW u \in Users, NEW r \in Requests, cancel_request(u, r)
      PROVE  NoticesAreTrue'
  <2>1. reliefrqst[r].status_code = "DRAFT"
    BY <1>3, ReadRow DEF cancel_request, Writers
  <2>2. \A q \in Requests \ {r} : reliefrqst'[q] = reliefrqst[q]
    BY <1>3 DEF cancel_request, TypeOK
  <2>3. Later
    BY <2>1, <2>2 DEF Reported, Types
  <2> QED BY <1>3, <1>a, <2>3 DEF cancel_request
<1>4. ASSUME NEW u \in Users, NEW r \in Requests, submit_request(u, r)
      PROVE  NoticesAreTrue'
  <2>1. reliefrqst[r].status_code = "DRAFT"
    BY <1>4, ReadRow DEF submit_request, Writers
  <2>2. /\ reliefrqst'[r].status_code = "AWAITING_APPROVAL"
        /\ \A q \in Requests \ {r} : reliefrqst'[q] = reliefrqst[q]
    BY <1>4 DEF submit_request, TypeOK, ReliefRqst
  <2>3. create_notification(r, "reliefrqst_submitted", Recipients("reliefrqst_submitted"))
    BY <1>4 DEF submit_request, _create_odpem_notifications, Recipients
  <2> QED BY <2>1, <2>2, <2>3, SendingStep DEF Reported, Types
<1>5. ASSUME NEW u \in Users, NEW r \in Requests, submit_eligibility_decision(u, r)
      PROVE  NoticesAreTrue'
  <2>1. reliefrqst[r].status_code = "AWAITING_APPROVAL"
    BY <1>5, ReadRow DEF submit_eligibility_decision, Writers
  <2>2. \A q \in Requests \ {r} : reliefrqst'[q] = reliefrqst[q]
    BY <1>5 DEF submit_eligibility_decision, TypeOK
  <2>3. CASE /\ reliefrqst'[r].status_code = "SUBMITTED"
             /\ _create_eligible_notification(r)
    <3>1. create_notification(r, "reliefrqst_approved", Recipients("reliefrqst_approved"))
      BY <2>3 DEF _create_eligible_notification, Recipients
    <3> QED BY <2>1, <2>2, <2>3, <3>1, SendingStep DEF Reported, Types
  <2>4. CASE /\ reliefrqst'[r].status_code = "INELIGIBLE"
             /\ _create_ineligible_notification(r)
    <3>1. create_notification(r, "reliefrqst_ineligible", Recipients("reliefrqst_ineligible"))
      BY <2>4 DEF _create_ineligible_notification, Recipients
    <3> QED BY <2>1, <2>2, <2>4, <3>1, SendingStep DEF Reported, Types
  <2> QED BY <1>5, <2>3, <2>4 DEF submit_eligibility_decision, TypeOK
<1>6. ASSUME NEW u \in Users, NEW r \in Requests, NEW i \in Items,
             add_or_update_request_item(u, r, i) \/ delete_request_item(u, r, i)
      PROVE  NoticesAreTrue'
  BY <1>6, <1>a DEF add_or_update_request_item, delete_request_item
<1>7. ASSUME Notice
      PROVE  NoticesAreTrue'
  <2>1. UNCHANGED reliefrqst
    BY <1>7 DEF Notice, mark_as_read, delete_notification, clear_all_notifications
  <2> SUFFICES ASSUME NEW m \in Keys
               PROVE  notification'[m].unread + notification'[m].read
                        <= notification[m].unread + notification[m].read
    BY <1>0, <2>1, FewerNotices
  <2>2. notification[m] \in Notices /\ notification \in [Keys -> Notices]
    BY DEF TypeOK, Keys
  <2>3. ASSUME NEW n \in Keys, mark_as_read(n)
        PROVE  notification'[m].unread + notification'[m].read
                 <= notification[m].unread + notification[m].read
    <3>1. notification'[m] = IF m = n
            THEN [unread |-> notification[n].unread - 1, read |-> notification[n].read + 1]
            ELSE notification[m]
      BY <2>2, <2>3 DEF mark_as_read
    <3> QED BY <2>2, <3>1 DEF Notices
  <2>4. ASSUME NEW n \in Keys, delete_notification(n)
        PROVE  notification'[m].unread + notification'[m].read
                 <= notification[m].unread + notification[m].read
    <3>1. PICK status \in {"unread", "read"} :
            /\ notification[n][status] > 0
            /\ notification' = [notification EXCEPT ![n][status] = @ - 1]
      BY <2>4 DEF delete_notification
    <3>2. notification'[m] = IF m = n THEN [notification[n] EXCEPT ![status] = @ - 1]
                                      ELSE notification[m]
      BY <2>2, <3>1
    <3> QED BY <2>2, <3>2 DEF Notices
  <2>5. ASSUME NEW u \in Users, clear_all_notifications(u)
        PROVE  notification'[m].unread + notification'[m].read
                 <= notification[m].unread + notification[m].read
    <3>1. notification'[m] = IF m[1] = u THEN NoNotice ELSE notification[m]
      BY <2>2, <2>5 DEF clear_all_notifications
    <3> QED BY <2>2, <3>1 DEF NoNotice, Notices
  <2> QED BY <1>7, <2>3, <2>4, <2>5 DEF Notice, Keys
<1>8. CASE UNCHANGED <<reliefrqst, reliefrqst_item, notification>>
  BY <1>8, <1>a
<1> QED BY <1>1, <1>2, <1>3, <1>4, <1>5, <1>6, <1>7, <1>8, WritesOrKeeps DEF Writes, Commit

-----------------------------------------------------------------------------
(* The theorems.                                                           *)

\* The invariant holds at the start.
LEMMA InitInv == Init => Inv
<1> SUFFICES ASSUME Init PROVE Inv
  OBVIOUS
<1>1. TypeOK
  BY DEF Init, TypeOK, ReliefRqst, Statuses, NoItems, NoNotice, Notices, Sessions
<1>2. ReadsHold /\ NoOrphanItems /\ Undecided
  BY DEF Init, ReadsHold, NoOrphanItems, NoItems, Undecided
<1>3. ASSUME NEW u \in Users, NEW r \in Requests, NEW t \in Types
      PROVE  TrueNotice(u, r, t)
  <2>1. Recipients(t)[u] \in Nat
    BY RecipientsNat
  <2>2. notification[<<u, r, t>>] = NoNotice
    BY DEF Init
  <2> QED BY <2>1, <2>2 DEF TrueNotice, NoNotice
<1> QED BY <1>1, <1>2, <1>3 DEF Inv, NoticesAreTrue, TrueNotice

\* ... and every step keeps it.
LEMMA InvStep == Inv /\ [Next]_vars => Inv'
<1> SUFFICES ASSUME Inv, [Next]_vars PROVE Inv'
  OBVIOUS
<1>1. TypeOK'
  BY TypeStep DEF Inv
<1> QED BY <1>1, ReadsStep, OrphanStep, NoticesStep, UndecidedStep DEF Inv

\* The inductive invariant of the request workflow.
THEOREM Invariance == Spec => []Inv
BY InitInv, InvStep, PTL DEF Spec

\* The rows and the open handlers have their types.
THEOREM TypeCorrect == Spec => []TypeOK
<1>1. Inv => TypeOK
  BY DEF Inv
<1> QED BY <1>1, Invariance, PTL

\* version_nbr alone protects the submission and the decision: a handler that finds
\* the version it read finds the status it checked (submit_request,
\* submit_eligibility_decision).
THEOREM ReadsHoldAlways == Spec => []ReadsHold
<1>1. Inv => ReadsHold
  BY DEF Inv
<1> QED BY <1>1, Invariance, PTL

\* cancel_request leaves no item behind, whoever adds items meanwhile.
THEOREM NoOrphans == Spec => []NoOrphanItems
<1>1. Inv => NoOrphanItems
  BY DEF Inv
<1> QED BY <1>1, Invariance, PTL

\* The notices on a request are true, and nobody gets more of a type than the
\* recipients' list says, for any number of users, roles and requests.
THEOREM NoticesTrue == Spec => []NoticesAreTrue
<1>1. Inv => NoticesAreTrue
  BY DEF Inv
<1> QED BY <1>1, Invariance, PTL

\* No second decision, and no change of a request after the decision.
THEOREM DecisionsFinal == Spec => DecisionFinal
<1>1. ASSUME Inv, [Next]_vars, NEW r \in Requests, reliefrqst[r].review_by_id # "none"
      PROVE  reliefrqst'[r] = reliefrqst[r]
  <2> USE <1>1 DEF Inv
  <2>1. ASSUME NEW q \in Requests, create_draft_request(q)
        PROVE  reliefrqst'[r] = reliefrqst[r]
    BY <2>1 DEF create_draft_request, Undecided, TypeOK
  <2>2. ASSUME NEW u \in Users, NEW q \in Requests, edit_request(u, q)
        PROVE  reliefrqst'[r] = reliefrqst[r]
    BY <2>2, ReadRow DEF edit_request, Writers, TypeOK
  <2>3. ASSUME NEW u \in Users, NEW q \in Requests, cancel_request(u, q)
        PROVE  reliefrqst'[r] = reliefrqst[r]
    BY <2>3, ReadRow DEF cancel_request, Writers, TypeOK
  <2>4. ASSUME NEW u \in Users, NEW q \in Requests, submit_request(u, q)
        PROVE  reliefrqst'[r] = reliefrqst[r]
    BY <2>4, ReadRow DEF submit_request, Writers, TypeOK
  <2>5. ASSUME NEW u \in Users, NEW q \in Requests, submit_eligibility_decision(u, q)
        PROVE  reliefrqst'[r] = reliefrqst[r]
    BY <2>5, ReadRow DEF submit_eligibility_decision, Writers, TypeOK
  <2>6. ASSUME NEW u \in Users, NEW q \in Requests, NEW i \in Items,
               add_or_update_request_item(u, q, i) \/ delete_request_item(u, q, i)
        PROVE  reliefrqst'[r] = reliefrqst[r]
    BY <2>6 DEF add_or_update_request_item, delete_request_item
  <2>7. ASSUME Notice
        PROVE  reliefrqst'[r] = reliefrqst[r]
    BY <2>7 DEF Notice, mark_as_read, delete_notification, clear_all_notifications
  <2> QED BY <2>1, <2>2, <2>3, <2>4, <2>5, <2>6, <2>7, WritesOrKeeps DEF Writes, Commit
<1>2. Inv /\ [Next]_vars =>
        [\A r \in Requests : reliefrqst[r].review_by_id # "none" =>
                              reliefrqst'[r] = reliefrqst[r]]_vars
  BY <1>1
<1> QED BY <1>2, Invariance, PTL DEF Spec, DecisionFinal

\* Once the pages on its items that were opened while it was a draft are done, the
\* items of a request never change again.
THEOREM ItemsSettleAlways == Spec => ItemsSettle
<1>1. ASSUME Inv, [Next]_vars, NEW r \in Requests, Settled(r)
      PROVE  Settled(r)' /\ reliefrqst_item'[r] = reliefrqst_item[r]
  <2> USE <1>1 DEF Inv
  <2> DEFINE Kept == Settled(r)' /\ reliefrqst_item'[r] = reliefrqst_item[r]
  <2>a. ASSUME NEW u \in Users, Done(u),
               reliefrqst'[r].status_code \notin {"absent", "DRAFT"}
        PROVE  Settled(r)'
    BY <2>a, SessionsClose DEF Settled, Closed
  <2>1. ASSUME NEW q \in Requests, create_draft_request(q)
        PROVE  Kept
    BY <2>1 DEF create_draft_request, Settled, TypeOK
  <2>2. ASSUME NEW u \in Users, NEW q \in Requests, edit_request(u, q)
        PROVE  Kept
    BY <2>2, <2>a, ReadRow DEF edit_request, Writers, Settled, TypeOK
  <2>3. ASSUME NEW u \in Users, NEW q \in Requests, cancel_request(u, q)
        PROVE  Kept
    BY <2>3, <2>a, ReadRow DEF cancel_request, Writers, Settled, TypeOK
  <2>4. ASSUME NEW u \in Users, NEW q \in Requests, submit_request(u, q)
        PROVE  Kept
    BY <2>4, <2>a, ReadRow DEF submit_request, Writers, Settled, TypeOK
  <2>5. ASSUME NEW u \in Users, NEW q \in Requests, submit_eligibility_decision(u, q)
        PROVE  Kept
    <3>1. reliefrqst'[r].status_code \notin {"absent", "DRAFT"}
      BY <2>5 DEF submit_eligibility_decision, Settled, TypeOK
    <3> QED BY <2>5, <2>a, <3>1 DEF submit_eligibility_decision
  <2>6. ASSUME NEW u \in Users, NEW q \in Requests, NEW i \in Items,
               add_or_update_request_item(u, q, i) \/ delete_request_item(u, q, i)
        PROVE  Kept
    <3>1. q # r
      BY <2>6 DEF add_or_update_request_item, delete_request_item, In, Settled
    <3>2. reliefrqst_item'[r] = reliefrqst_item[r]
      BY <2>6, <3>1 DEF add_or_update_request_item, delete_request_item, TypeOK
    <3> QED BY <2>6, <2>a, <3>2 DEF add_or_update_request_item, delete_request_item, Settled
  <2>7. ASSUME Notice \/ UNCHANGED vars
        PROVE  Kept
    BY <2>7 DEF Notice, mark_as_read, delete_notification, clear_all_notifications, vars, Settled
  <2>8. ASSUME NEW u \in Users, Leave(u)
        PROVE  Kept
    BY <2>8 DEF Leave, Settled, Closed, TypeOK
  <2>9. ASSUME NEW u \in Users, NEW q \in Requests, Read(u, q)
        PROVE  Kept
    <3>1. UNCHANGED <<reliefrqst, reliefrqst_item>>
      BY <2>9 DEF Read, ReadItems, ReadDraft, ReadSubmit, ReadDecision, Enter
    <3>2. CASE ReadItems(u, q)
      <4>1. q # r
        BY <3>2 DEF ReadItems, Settled
      <4>2. /\ session'[u].r = q
            /\ \A v \in Users \ {u} : session'[v] = session[v]
        BY <3>2 DEF ReadItems, Enter, TypeOK
      <4> QED BY <3>1, <4>1, <4>2 DEF Settled
    <3>3. CASE ReadDraft(u, q) \/ ReadSubmit(u, q) \/ ReadDecision(u, q)
      <4>1. \A v \in Users \ {u} : session'[v] = session[v]
        BY <3>3 DEF ReadDraft, ReadSubmit, ReadDecision, Enter, TypeOK
      <4>2. CASE ReadSubmit(u, q) /\ In(u, "page", q, "none")
        <5>1. session[u] \in [op : Ops, r : Requests, i : Items \cup {"none"}, version_nbr : Nat]
          BY <4>2, SessionOfRequest DEF In, Closed
        <5>2. session'[u].op = "submit"
          BY <4>2, <5>1 DEF ReadSubmit, Enter, TypeOK
        <5> QED BY <3>1, <4>1, <5>2 DEF Settled
      <4>3. CASE ~(ReadSubmit(u, q) /\ In(u, "page", q, "none"))
        <5>1. session'[u].op \notin {"add_item", "delete_item"}
          BY <3>3, <4>3 DEF ReadDraft, ReadSubmit, ReadDecision, Enter, TypeOK
        <5> QED BY <3>1, <4>1, <5>1 DEF Settled
      <4> QED BY <4>2, <4>3
    <3> QED BY <2>9, <3>2, <3>3 DEF Read
  <2> QED BY <2>1, <2>2, <2>3, <2>4, <2>5, <2>6, <2>7, <2>8, <2>9
             DEF Next, Commit, create_request, create_request_on_behalf
<1>2. Inv /\ [Next]_vars =>
        [\A r \in Requests : Settled(r) => Settled(r)' /\ reliefrqst_item'[r] = reliefrqst_item[r]]_vars
  BY <1>1
<1> QED BY <1>2, Invariance, PTL DEF Spec, ItemsSettle

-----------------------------------------------------------------------------
(* Refinement of RequestLifecycle.                                         *)

\* The decisions that are open are those of directors.
DirectorsDecide == \A u \in Users : session[u].op = "decide" => u \in Directors

\* Every step keeps DirectorsDecide: the role is checked when the page is read.
LEMMA DirectorStep ==
  ASSUME TypeOK, DirectorsDecide, [Next]_vars
  PROVE  DirectorsDecide'
<1>1. ASSUME NEW u \in Users, Done(u)
      PROVE  DirectorsDecide'
  BY <1>1, SessionsClose DEF DirectorsDecide, Closed
<1>2. ASSUME NEW u \in Users, NEW r \in Requests, Commit(u, r)
      PROVE  DirectorsDecide'
  BY <1>1, <1>2 DEF Commit, edit_request, add_or_update_request_item, delete_request_item,
     cancel_request, submit_request, submit_eligibility_decision
<1>3. ASSUME NEW u \in Users, Leave(u)
      PROVE  DirectorsDecide'
  BY <1>3 DEF Leave, TypeOK, DirectorsDecide, Closed
<1>4. ASSUME UNCHANGED session
      PROVE  DirectorsDecide'
  BY <1>4 DEF DirectorsDecide
<1>5. ASSUME NEW u \in Users, NEW r \in Requests, Read(u, r)
      PROVE  DirectorsDecide'
  <2>1. ASSUME NEW op, NEW i, NEW v, Enter(u, op, r, i, v), op = "decide" => u \in Directors
        PROVE  DirectorsDecide'
    <3>1. /\ session'[u].op = op
          /\ \A w \in Users \ {u} : session'[w] = session[w]
      BY <2>1 DEF Enter, TypeOK
    <3> QED BY <2>1, <3>1 DEF DirectorsDecide
  <2>2. CASE /\ In(u, "page", r, "none")
             /\ session' = [session EXCEPT ![u].op = "submit"]
    <3>1. session[u] \in [op : Ops, r : Requests, i : Items \cup {"none"}, version_nbr : Nat]
      BY <2>2, SessionOfRequest DEF In, Closed
    <3>2. session'[u].op = "submit" /\ \A v \in Users \ {u} : session'[v] = session[v]
      BY <2>2, <3>1 DEF TypeOK
    <3> QED BY <3>2 DEF DirectorsDecide
  <2> QED BY <1>5, <2>1, <2>2 DEF Read, ReadItems, ReadDraft, ReadSubmit, ReadDecision
<1> QED BY <1>2, <1>3, <1>4, <1>5
           DEF Next, create_request, create_request_on_behalf, create_draft_request, Notice,
               mark_as_read, delete_notification, clear_all_notifications, vars

\* Every step is one of the lifecycle's, or not seen by it.
LEMMA LifecycleStep ==
  ASSUME Inv, DirectorsDecide, [Next]_vars
  PROVE  [Lifecycle!Next]_(Lifecycle!lifecycle)
<1> USE DEF Inv
<1>1. ASSUME NEW r \in Requests, create_draft_request(r)
      PROVE  Lifecycle!Create(r)
  <2>1. reliefrqst[r].status_code = "absent" /\ reliefrqst[r].review_by_id = "none"
    BY <1>1 DEF create_draft_request, Undecided
  <2>2. /\ \A q \in Requests : reliefrqst'[q].review_by_id = reliefrqst[q].review_by_id
        /\ \A q \in Requests : reliefrqst'[q].status_code =
             IF q = r THEN "DRAFT" ELSE reliefrqst[q].status_code
    BY <1>1, <2>1 DEF create_draft_request, TypeOK
  <2> QED BY <2>1, <2>2 DEF Lifecycle!Create, Lifecycle!Move
<1>2. ASSUME NEW u \in Users, NEW r \in Requests, edit_request(u, r)
      PROVE  UNCHANGED Lifecycle!lifecycle
  <2>1. \A q \in Requests : /\ reliefrqst'[q].status_code = reliefrqst[q].status_code
                            /\ reliefrqst'[q].review_by_id = reliefrqst[q].review_by_id
    BY <1>2 DEF edit_request, TypeOK, ReliefRqst
  <2> QED BY <2>1 DEF Lifecycle!lifecycle
<1>3. ASSUME NEW u \in Users, NEW r \in Requests, cancel_request(u, r)
      PROVE  Lifecycle!Cancel(r)
  <2>1. reliefrqst[r].status_code = "DRAFT"
    BY <1>3, ReadRow DEF cancel_request, Writers
  <2>2. /\ \A q \in Requests : reliefrqst'[q].review_by_id = reliefrqst[q].review_by_id
        /\ \A q \in Requests : reliefrqst'[q].status_code =
             IF q = r THEN "deleted" ELSE reliefrqst[q].status_code
    BY <1>3 DEF cancel_request, TypeOK, ReliefRqst
  <2> QED BY <2>1, <2>2 DEF Lifecycle!Cancel, Lifecycle!Move
<1>4. ASSUME NEW u \in Users, NEW r \in Requests, submit_request(u, r)
      PROVE  Lifecycle!Submit(r)
  <2>1. reliefrqst[r].status_code = "DRAFT"
    BY <1>4, ReadRow DEF submit_request, Writers
  <2>2. /\ \A q \in Requests : reliefrqst'[q].review_by_id = reliefrqst[q].review_by_id
        /\ \A q \in Requests : reliefrqst'[q].status_code =
             IF q = r THEN "AWAITING_APPROVAL" ELSE reliefrqst[q].status_code
    BY <1>4 DEF submit_request, TypeOK, ReliefRqst
  <2> QED BY <2>1, <2>2 DEF Lifecycle!Submit, Lifecycle!Move
<1>5. ASSUME NEW u \in Users, NEW r \in Requests, submit_eligibility_decision(u, r)
      PROVE  u \in Directors /\ Lifecycle!Decide(r, u)
  <2>1. /\ reliefrqst[r].status_code = "AWAITING_APPROVAL"
        /\ reliefrqst[r].review_by_id = "none"
    BY <1>5, ReadRow DEF submit_eligibility_decision, Writers
  <2>2. u \in Directors
    BY <1>5 DEF submit_eligibility_decision, In, DirectorsDecide
  <2>3. PICK verdict \in {"SUBMITTED", "INELIGIBLE"} :
          reliefrqst' = [reliefrqst EXCEPT ![r] =
            [status_code |-> verdict, version_nbr |-> reliefrqst[r].version_nbr + 1, review_by_id |-> u]]
    BY <1>5 DEF submit_eligibility_decision
  <2>4. /\ \A q \in Requests : reliefrqst'[q].status_code =
             IF q = r THEN verdict ELSE reliefrqst[q].status_code
        /\ \A q \in Requests : reliefrqst'[q].review_by_id =
             IF q = r THEN u ELSE reliefrqst[q].review_by_id
    BY <2>3 DEF TypeOK
  <2> QED BY <2>1, <2>2, <2>4 DEF Lifecycle!Decide, Lifecycle!Move
<1>6. ASSUME NEW u \in Users, NEW r \in Requests, NEW i \in Items,
             add_or_update_request_item(u, r, i) \/ delete_request_item(u, r, i)
      PROVE  UNCHANGED Lifecycle!lifecycle
  BY <1>6 DEF add_or_update_request_item, delete_request_item, Lifecycle!lifecycle
<1>7. ASSUME Notice \/ UNCHANGED reliefrqst
      PROVE  UNCHANGED Lifecycle!lifecycle
  BY <1>7 DEF Notice, mark_as_read, delete_notification, clear_all_notifications,
     Lifecycle!lifecycle
<1>8. ASSUME NEW u \in Users, NEW r \in Requests, Commit(u, r)
      PROVE  Lifecycle!Next \/ UNCHANGED Lifecycle!lifecycle
  BY <1>2, <1>3, <1>4, <1>5, <1>6, <1>8 DEF Commit, Lifecycle!Next
<1> QED BY <1>1, <1>7, <1>8, WritesOrKeeps DEF Writes, Lifecycle!Next

\* However many pages are open on a request, what happens to it is one submission or
\* deletion and then one director's decision.
THEOREM RequestsImplementLifecycle == Spec => ImplementsLifecycle
<1>1. Init => Lifecycle!Init /\ DirectorsDecide
  BY DEF Init, Lifecycle!Init, DirectorsDecide, Closed
<1>2. Inv /\ DirectorsDecide /\ [Next]_vars => DirectorsDecide'
  BY DirectorStep DEF Inv
<1>3. Inv /\ DirectorsDecide /\ [Next]_vars => [Lifecycle!Next]_(Lifecycle!lifecycle)
  BY LifecycleStep
<1> QED BY <1>1, <1>2, <1>3, Invariance, PTL DEF Spec, ImplementsLifecycle, Lifecycle!Spec
=============================================================================
