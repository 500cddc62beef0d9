--------------------------- MODULE RequestLifecycle ---------------------------
(***************************************************************************)
(* The abstract specification of a relief request up to the eligibility    *)
(* decision, as its readers understand it: a draft is submitted or         *)
(* deleted, once, and a director decides on what was submitted, once.      *)
(* Requests (pages that several users have open at the same time)          *)
(* implements it.                                                          *)
(***************************************************************************)
CONSTANTS
  Requests,
  Directors     \* who may decide

VARIABLES
  status,       \* [r -> the status of the request]
  reviewer      \* [r -> the director who decided, or "none"]

lifecycle == <<status, reviewer>>

Move(r, from, to) ==
  /\ status[r] = from
  /\ status' = [status EXCEPT ![r] = to]

Create(r) == Move(r, "absent", "DRAFT") /\ UNCHANGED reviewer

Cancel(r) == Move(r, "DRAFT", "deleted") /\ UNCHANGED reviewer

Submit(r) == Move(r, "DRAFT", "AWAITING_APPROVAL") /\ UNCHANGED reviewer

Decide(r, d) ==
  /\ reviewer[r] = "none"
  /\ \E verdict \in {"SUBMITTED", "INELIGIBLE"} : Move(r, "AWAITING_APPROVAL", verdict)
  /\ reviewer' = [reviewer EXCEPT ![r] = d]

Init ==
  /\ status = [r \in Requests |-> "absent"]
  /\ reviewer = [r \in Requests |-> "none"]

Next == \E r \in Requests :
  \/ Create(r) \/ Cancel(r) \/ Submit(r)
  \/ \E d \in Directors : Decide(r, d)

Spec == Init /\ [][Next]_lifecycle
===============================================================================
