------------------------------- MODULE Requests -------------------------------
(***************************************************************************)
(* Relief requests up to the eligibility decision, and the notices their   *)
(* readers get: services/relief_request_service.py, features/             *)
(* requests_aidmgmt.py, features/eligibility.py, services/                 *)
(* notification_service.py and features/notifications.py.                  *)
(*                                                                         *)
(* An agency drafts a request, adds items one POST at a time, and submits  *)
(* it. A director then finds it eligible, which hands it to logistics      *)
(* (module Fulfillment starts there), or ineligible. A draft can be        *)
(* cancelled, which deletes it.                                            *)
(*                                                                         *)
(* A handler reads rows and checks them in one step and commits in         *)
(* another; in between other users commit. reliefrqst and reliefrqst_item  *)
(* carry version_nbr, and an UPDATE or DELETE of a row whose version is    *)
(* not the one that was read is refused. The version of a request does not *)
(* change when its items do. Request numbers are never used again, but an  *)
(* item that is deleted and added again starts at version 1 again.         *)
(*                                                                         *)
(* Urgency, dates, notes, quantities (all positive, or the form is         *)
(* refused) and events only make more forms refused and are left out, and  *)
(* so is the check that an item is an active GOODS item. There is one      *)
(* agency. The package workflow's notices are left out.                    *)
(***************************************************************************)
EXTENDS Integers, FiniteSets

CONSTANTS
  Requests, Items, Users,
  AgencyUsers, LogisticsUsers,   \* the active users of the agency and of logistics
  DirectorRoles,                 \* ODPEM_DG, ODPEM_DDG, ODPEM_DIR_PEOD
  RoleUsers,                     \* the active users who have a director's role
  MaxVersion                     \* bound: rows of this version are not edited again

ASSUME RequestAssumptions ==
  /\ IsFiniteSet(DirectorRoles)
  /\ RoleUsers \in [DirectorRoles -> SUBSET Users]
  /\ AgencyUsers \subseteq Users
  /\ LogisticsUsers \subseteq Users
  /\ MaxVersion \in Nat
  /\ "none" \notin Users

VARIABLES
  reliefrqst,       \* the row of each request
  reliefrqst_item,  \* the rows of a request's items: the version of each
  notification,     \* how many notices of a type a user has on a request
  session           \* the handler each user is in

vars == <<reliefrqst, reliefrqst_item, notification, session>>

Directors == UNION {RoleUsers[role] : role \in DirectorRoles}

Types == {"reliefrqst_submitted", "reliefrqst_approved", "reliefrqst_ineligible"}

\* "absent" is a number not given out yet, "deleted" one that never will be again.
Statuses == {"absent", "deleted", "DRAFT", "AWAITING_APPROVAL", "SUBMITTED", "INELIGIBLE"}

ReliefRqst == [status_code : Statuses, version_nbr : Nat, review_by_id : Users \cup {"none"}]

Notices == [unread : Nat, read : Nat]
NoNotice == [unread |-> 0, read |-> 0]

NoItems == [i \in {} |-> 0]

-----------------------------------------------------------------------------
(* Sessions.                                                               *)

Closed == [op |-> "closed", r |-> "none", i |-> "none", version_nbr |-> 0]

Ops == {"page", "edit", "cancel", "submit", "add_item", "delete_item", "decide"}

Enter(u, op, r, i, v) ==
  /\ session[u] = Closed
  /\ session' = [session EXCEPT ![u] = [op |-> op, r |-> r, i |-> i, version_nbr |-> v]]
  /\ UNCHANGED <<reliefrqst, reliefrqst_item, notification>>

In(u, op, r, i) == session[u].op = op /\ session[u].r = r /\ session[u].i = i

\* Mutant: the UPDATE's WHERE clause does not contain the version.
Unchanged_Any(u, r) == reliefrqst[r].status_code \notin {"absent", "deleted"}

\* version_id_col: the request's row has the version that u's handler read.
Unchanged(u, r) ==
  /\ reliefrqst[r].status_code \notin {"absent", "deleted"}
  /\ reliefrqst[r].version_nbr = session[u].version_nbr

Leave(u) ==
  /\ session[u] # Closed
  /\ session' = [session EXCEPT ![u] = Closed]
  /\ UNCHANGED <<reliefrqst, reliefrqst_item, notification>>

Done(u) == session' = [session EXCEPT ![u] = Closed]

\* 0 stands for no row.
ItemVersion(r, i) ==
  IF i \in DOMAIN reliefrqst_item[r] THEN reliefrqst_item[r][i] ELSE 0

can_access_relief_request(u) == u \in AgencyUsers \cup LogisticsUsers \cup Directors

-----------------------------------------------------------------------------
(* Notices: services/notification_service.py.                              *)

\* Each recipient gets one notice per occurrence in the list of recipients.
create_notification(r, t, count) ==
  notification' = [n \in DOMAIN notification |->
    IF n[2] = r /\ n[3] = t
    THEN [notification[n] EXCEPT !.unread = @ + count[n[1]]]
    ELSE notification[n]]

\* The directors are collected role by role, with no duplicate removed.
odpem_directors ==
  [u \in Users |-> Cardinality({role \in DirectorRoles : u \in RoleUsers[role]})]

logistics_users == [u \in Users |-> IF u \in LogisticsUsers THEN 1 ELSE 0]

agency_users == [u \in Users |-> IF u \in AgencyUsers THEN 1 ELSE 0]

_create_odpem_notifications(r) ==
  create_notification(r, "reliefrqst_submitted", odpem_directors)

_create_eligible_notification(r) ==
  create_notification(r, "reliefrqst_approved", logistics_users)

_create_ineligible_notification(r) ==
  create_notification(r, "reliefrqst_ineligible", agency_users)

\* Mutant: the notice need not be there any more.
mark_as_read_Gone(n) ==
  /\ notification' = [notification EXCEPT
       ![n] = [unread |-> @.unread - 1, read |-> @.read + 1]]
  /\ UNCHANGED <<reliefrqst, reliefrqst_item, session>>

mark_as_read(n) ==
  /\ notification[n].unread > 0
  /\ notification' = [notification EXCEPT
       ![n] = [unread |-> @.unread - 1, read |-> @.read + 1]]
  /\ UNCHANGED <<reliefrqst, reliefrqst_item, session>>

delete_notification(n) ==
  /\ \E status \in {"unread", "read"} :
       /\ notification[n][status] > 0
       /\ notification' = [notification EXCEPT ![n][status] = @ - 1]
  /\ UNCHANGED <<reliefrqst, reliefrqst_item, session>>

clear_all_notifications(u) ==
  /\ notification' = [n \in DOMAIN notification |->
                        IF n[1] = u THEN NoNotice ELSE notification[n]]
  /\ UNCHANGED <<reliefrqst, reliefrqst_item, session>>

-----------------------------------------------------------------------------
(* Drafts: features/requests_aidmgmt.py.                                   *)

create_draft_request(r) ==
  /\ reliefrqst[r].status_code = "absent"
  /\ reliefrqst' = [reliefrqst EXCEPT ![r] =
       [status_code |-> "DRAFT", version_nbr |-> 1, review_by_id |-> "none"]]
  /\ UNCHANGED <<reliefrqst_item, notification, session>>

\* The agency's own users, and logistics on its behalf.
create_request(u, r) == u \in AgencyUsers /\ create_draft_request(r)

create_request_on_behalf(u, r) == u \in AgencyUsers \cup LogisticsUsers /\ create_draft_request(r)

\* Mutant: the items page does not look at the request's status.
ReadItems_AnyStatus(u, r) ==
  \/ \E i \in Items : Enter(u, "add_item", r, i, ItemVersion(r, i))
  \/ \E i \in DOMAIN reliefrqst_item[r] : Enter(u, "delete_item", r, i, ItemVersion(r, i))

\* The first half of edit_items and delete_item: they read the request, which
\* they do not write, and the item's row.
ReadItems(u, r) ==
  /\ reliefrqst[r].status_code = "DRAFT"
  /\ \/ \E i \in Items : Enter(u, "add_item", r, i, ItemVersion(r, i))
     \/ \E i \in DOMAIN reliefrqst_item[r] :
          Enter(u, "delete_item", r, i, ItemVersion(r, i))

\* The first half of edit_request and cancel_request, and the items page, whose
\* submit button posts the version the page was shown with.
ReadDraft(u, r) ==
  /\ reliefrqst[r].status_code = "DRAFT"
  /\ \E op \in {"page", "edit", "cancel"} :
       Enter(u, op, r, "none", reliefrqst[r].version_nbr)

\* The first half of submit_request. The edit page posts no version: the one
\* that is read now is used.
ReadSubmit(u, r) ==
  /\ reliefrqst[r].status_code = "DRAFT"
  /\ DOMAIN reliefrqst_item[r] # {}
  /\ \/ Enter(u, "submit", r, "none", reliefrqst[r].version_nbr)
     \/ /\ In(u, "page", r, "none")
        /\ Unchanged(u, r)
        /\ session' = [session EXCEPT ![u].op = "submit"]
        /\ UNCHANGED <<reliefrqst, reliefrqst_item, notification>>

edit_request(u, r) ==
  /\ In(u, "edit", r, "none")
  /\ Unchanged(u, r)
  /\ reliefrqst[r].version_nbr < MaxVersion
  /\ reliefrqst' = [reliefrqst EXCEPT ![r].version_nbr = @ + 1]
  /\ Done(u)
  /\ UNCHANGED <<reliefrqst_item, notification>>

\* Mutant: reliefrqst_item has no foreign key to reliefrqst.
fk_reliefrqst_item_reliefrqst_Dropped(r) == TRUE

\* An item is inserted only if its request is there.
fk_reliefrqst_item_reliefrqst(r) == reliefrqst[r].status_code \notin {"absent", "deleted"}

\* An item that was not there is inserted, which the primary key refuses if it
\* is there by now; one that was is updated, if it has not changed.
add_or_update_request_item(u, r, i) ==
  /\ In(u, "add_item", r, i)
  /\ ItemVersion(r, i) = session[u].version_nbr
  /\ ItemVersion(r, i) < MaxVersion
  /\ fk_reliefrqst_item_reliefrqst(r)
  /\ reliefrqst_item' = [reliefrqst_item EXCEPT ![r] =
       [j \in DOMAIN reliefrqst_item[r] \cup {i} |->
          IF j = i THEN ItemVersion(r, i) + 1 ELSE reliefrqst_item[r][j]]]
  /\ Done(u)
  /\ UNCHANGED <<reliefrqst, notification>>

delete_request_item(u, r, i) ==
  /\ In(u, "delete_item", r, i)
  /\ i \in DOMAIN reliefrqst_item[r]
  /\ ItemVersion(r, i) = session[u].version_nbr
  /\ reliefrqst_item' = [reliefrqst_item EXCEPT ![r] =
       [j \in DOMAIN reliefrqst_item[r] \ {i} |-> reliefrqst_item[r][j]]]
  /\ Done(u)
  /\ UNCHANGED <<reliefrqst, notification>>

\* All item rows go, whatever their versions, and then the request.
cancel_request(u, r) ==
  /\ In(u, "cancel", r, "none")
  /\ Unchanged(u, r)
  /\ reliefrqst' = [reliefrqst EXCEPT ![r].status_code = "deleted"]
  /\ reliefrqst_item' = [reliefrqst_item EXCEPT ![r] = NoItems]
  /\ Done(u)
  /\ UNCHANGED notification

\* Mutant: the version is not raised.
submit_request_SameVersion(u, r) ==
  /\ In(u, "submit", r, "none")
  /\ Unchanged(u, r)
  /\ reliefrqst' = [reliefrqst EXCEPT ![r].status_code = "AWAITING_APPROVAL"]
  /\ _create_odpem_notifications(r)
  /\ Done(u)
  /\ UNCHANGED reliefrqst_item

\* The items are those that were read: they are not looked at again.
submit_request(u, r) ==
  /\ In(u, "submit", r, "none")
  /\ Unchanged(u, r)
  /\ reliefrqst' = [reliefrqst EXCEPT ![r].status_code = "AWAITING_APPROVAL",
                                      ![r].version_nbr = @ + 1]
  /\ _create_odpem_notifications(r)
  /\ Done(u)
  /\ UNCHANGED reliefrqst_item

-----------------------------------------------------------------------------
(* Eligibility: features/eligibility.py.                                   *)

\* Mutant: the page is shown to everybody who may see the request.
ReadDecision_Anyone(u, r) ==
  /\ can_access_relief_request(u)
  /\ reliefrqst[r].status_code = "AWAITING_APPROVAL"
  /\ reliefrqst[r].review_by_id = "none"
  /\ Enter(u, "decide", r, "none", reliefrqst[r].version_nbr)

ReadDecision(u, r) ==
  /\ u \in Directors
  /\ reliefrqst[r].status_code = "AWAITING_APPROVAL"
  /\ reliefrqst[r].review_by_id = "none"
  /\ Enter(u, "decide", r, "none", reliefrqst[r].version_nbr)

submit_eligibility_decision(u, r) ==
  /\ In(u, "decide", r, "none")
  /\ Unchanged(u, r)
  /\ \/ /\ reliefrqst' = [reliefrqst EXCEPT ![r] =
             [status_code |-> "SUBMITTED", version_nbr |-> @.version_nbr + 1, review_by_id |-> u]]
        /\ _create_eligible_notification(r)
     \/ /\ reliefrqst' = [reliefrqst EXCEPT ![r] =
             [status_code |-> "INELIGIBLE", version_nbr |-> @.version_nbr + 1, review_by_id |-> u]]
        /\ _create_ineligible_notification(r)
  /\ Done(u)
  /\ UNCHANGED reliefrqst_item

-----------------------------------------------------------------------------
(* The specification.                                                      *)

Init ==
  /\ reliefrqst = [r \in Requests |->
       [status_code |-> "absent", version_nbr |-> 0, review_by_id |-> "none"]]
  /\ reliefrqst_item = [r \in Requests |-> NoItems]
  /\ notification = [n \in Users \X Requests \X Types |-> NoNotice]
  /\ session = [u \in Users |-> Closed]

Read(u, r) ==
  \/ /\ can_access_relief_request(u)
     /\ ReadItems(u, r) \/ ReadDraft(u, r) \/ ReadSubmit(u, r)
  \/ ReadDecision(u, r)

Commit(u, r) ==
  \/ edit_request(u, r)
  \/ \E i \in Items : add_or_update_request_item(u, r, i) \/ delete_request_item(u, r, i)
  \/ cancel_request(u, r)
  \/ submit_request(u, r)
  \/ submit_eligibility_decision(u, r)

Notice ==
  \/ \E n \in Users \X Requests \X Types : mark_as_read(n) \/ delete_notification(n)
  \/ \E u \in Users : clear_all_notifications(u)

Next ==
  \/ \E u \in Users, r \in Requests :
       create_request(u, r) \/ create_request_on_behalf(u, r) \/ Read(u, r) \/ Commit(u, r)
  \/ \E u \in Users : Leave(u)
  \/ Notice

Spec == Init /\ [][Next]_vars

-----------------------------------------------------------------------------
(* Properties.                                                             *)

Sessions ==
  {Closed} \cup [op : Ops, r : Requests, i : Items \cup {"none"}, version_nbr : Nat]

\* Every variable has the type its table and its handlers give it.
TypeOK ==
  /\ reliefrqst \in [Requests -> ReliefRqst]
  /\ DOMAIN reliefrqst_item = Requests
  /\ \A r \in Requests :
       /\ DOMAIN reliefrqst_item[r] \subseteq Items
       /\ reliefrqst_item[r] \in [DOMAIN reliefrqst_item[r] -> Nat \ {0}]
  /\ notification \in [Users \X Requests \X Types -> Notices]
  /\ session \in [Users -> Sessions]

\* A handler that will write the request's row still finds it in the status it
\* checked if it finds the version it read: nothing but version_nbr protects
\* the submission and the decision, which do not look at the status again.
ReadsHold ==
  \A u \in Users : session[u] # Closed =>
    LET s == session[u]  row == reliefrqst[s.r] IN
      s.op \in {"page", "edit", "cancel", "submit", "decide"} =>
        /\ s.version_nbr <= row.version_nbr
        /\ s.version_nbr = row.version_nbr /\ row.status_code # "deleted" =>
             /\ row.status_code = (IF s.op = "decide" THEN "AWAITING_APPROVAL" ELSE "DRAFT")
             /\ row.review_by_id = "none"

\* A request that was cancelled leaves no item behind: an item that another
\* user was adding meanwhile is refused (cancel_request deletes the items it
\* finds, then the request).
NoOrphanItems ==
  \A r \in Requests :
    reliefrqst[r].status_code \in {"absent", "deleted"} => DOMAIN reliefrqst_item[r] = {}

\* The recipients of a notice, and the statuses a request has once it was sent.
Recipients(t) ==
  CASE t = "reliefrqst_submitted"  -> odpem_directors
    [] t = "reliefrqst_approved"   -> logistics_users
    [] t = "reliefrqst_ineligible" -> agency_users

Reported(t) ==
  CASE t = "reliefrqst_submitted"  -> {"AWAITING_APPROVAL", "SUBMITTED", "INELIGIBLE"}
    [] t = "reliefrqst_approved"   -> {"SUBMITTED"}
    [] t = "reliefrqst_ineligible" -> {"INELIGIBLE"}

\* Nobody is told of a submission or a decision that did not happen, or told
\* more than once in each capacity, whatever users submit and decide at the
\* same time (the notices are rows of the transaction that changes the status).
NoticesAreTrue ==
  \A u \in Users, r \in Requests, t \in Types :
    LET n == notification[<<u, r, t>>] IN
      /\ n.unread + n.read > 0 => reliefrqst[r].status_code \in Reported(t)
      /\ n.unread + n.read <= Recipients(t)[u]

\* A decision is never replaced, neither by a second director who was deciding
\* at the same time nor by a draft page that is still open
\* (submit_eligibility_decision checks review_by_id only when it reads).
DecisionFinal ==
  [][\A r \in Requests : reliefrqst[r].review_by_id # "none" => reliefrqst'[r] = reliefrqst[r]]_vars

\* No page on the items of r was opened while r was a draft and is still open.
Settled(r) ==
  /\ reliefrqst[r].status_code \notin {"absent", "DRAFT"}
  /\ \A u \in Users : session[u].r = r => session[u].op \notin {"add_item", "delete_item"}

\* The items of a request that is no draft any more change only through pages
\* that were posted while it was one: once these are done, what a director
\* reviews and logistics packs is what was asked for (edit_items and
\* delete_item check the status of a row they do not write).
ItemsSettle ==
  [][\A r \in Requests : Settled(r) => Settled(r)' /\ reliefrqst_item'[r] = reliefrqst_item[r]]_vars

\* Whatever pages are open, requests go through their life one step at a time: a
\* draft is submitted or deleted but not both, nothing is decided before it is
\* submitted or by anyone who is no director, and nothing twice.  The handlers
\* check the status and the role when they read, and rely on the version when
\* they write.
Lifecycle == INSTANCE RequestLifecycle WITH
  status   <- [r \in Requests |-> reliefrqst[r].status_code],
  reviewer <- [r \in Requests |-> reliefrqst[r].review_by_id]
ImplementsLifecycle == Lifecycle!Spec
===============================================================================
