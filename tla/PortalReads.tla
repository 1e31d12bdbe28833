----------------------------- MODULE PortalReads -----------------------------
(***************************************************************************)
(* The employee's pages about actions (src/app/portal/service.py behind    *)
(* src/app/api/routes): an action's detail and the list of actions.  Each  *)
(* is a session of several READ COMMITTED statements, so the control plane *)
(* commits between them and a page may pair rows that never stood          *)
(* together.  created_at is not kept: the newest actions of a list are any *)
(* of them.                                                                *)
(***************************************************************************)
EXTENDS ActionSystem

CONSTANT ListLimit   \* the limit of GET /me/actions

ASSUME ListLimitAssumption == ListLimit \in 1 .. 50

VARIABLE page   \* the page being assembled, one statement after another

pvars == <<vars, page>>

Blank ==
  [stage |-> "idle", session |-> NoAction, action |-> NoAction, since |-> 0,
   items |-> {}, trail |-> {}, total |-> 0]

PInit == Init /\ page = Blank

At(stage) == page.stage = stage
Employee == SessionOwner[page.session]

(* A statement reads what is committed and changes only the page. *)
Read(p) == page' = p /\ UNCHANGED vars

(* Both queries ask for the owner, whatever the route checked before. *)
OwnActions == {a \in ActionId : Exists(a) /\ OwnerOf(a) = Employee}

(* A workflow joined with its current revision, its result not yet read. *)
Item(a) ==
  LET n == current_revision[a]
  IN  [action |-> a, key |-> business_request_key[a], revision |-> n,
       state |-> state[a][n], draft |-> draft[a][n],
       live_until |-> CASE state[a][n] = "AWAITING_CONFIRMATION" -> action_expires_at[a][n]
                        [] state[a][n] = "CONFIRMED" -> confirmed_expires_at[a][n]
                        [] OTHER -> 0,
       result |-> NoRow]

(* What is shown of a leave request or of a ticket, whole or not at all.   *)
Result(a) ==
  LET found == {r \in business_rows : r.action = a}
  IN  IF found = {} THEN NoRow ELSE CHOOSE r \in found : TRUE

(* The events without the metadata an employee must not see. *)
AuditEvents(a) ==
  {[revision |-> x.revision, from |-> x.from, to |-> x.to] : x \in {y \in audit : y.action = a}}

WithLeaveResults(items) ==
  {IF i.key \in LeaveKey THEN [i EXCEPT !.result = Result(i.action)] ELSE i : i \in items}
WithItResults(items) ==
  {IF i.key \in LeaveKey THEN i ELSE [i EXCEPT !.result = Result(i.action)] : i \in items}
WithResults(items) == WithItResults(WithLeaveResults(items))
-----------------------------------------------------------------------------
(* GET /actions/{id}: the route first lets the confirmation service        *)
(* normalise the expiry, in a transaction of its own.                      *)
OpenDetail(s, a) ==
  /\ At("idle")
  /\ GetAction(s, a) /\ EmployeeFrame
  /\ page' = [Blank EXCEPT !.stage = "opened", !.session = s, !.action = a, !.since = now]

(* Mutant: the result is read before the revision. *)
ReadResultFirst ==
  \/ At("opened") /\ Read([page EXCEPT !.stage = "early", !.items = WithResults({Item(page.action)})])
  \/ /\ At("early")
     /\ Read([page EXCEPT !.stage = "detail", !.trail = AuditEvents(page.action),
                !.items = {[Item(page.action) EXCEPT !.result = i.result] : i \in page.items}])

ReadRevision ==
  /\ At("opened")
  /\ page.action \in OwnActions
  /\ Read([page EXCEPT !.stage = "revision", !.items = {Item(page.action)}])

ReadTrail ==
  /\ At("revision")
  /\ Read([page EXCEPT !.stage = "trail", !.trail = AuditEvents(page.action)])

ReadResult ==
  /\ At("trail")
  /\ Read([page EXCEPT !.stage = "detail", !.items = WithResults(@)])

(* GET /me/actions counts first; it does not normalise any expiry.         *)
CountActions(s) ==
  /\ At("idle")
  /\ LET own == {a \in ActionId : Exists(a) /\ OwnerOf(a) = SessionOwner[s]}
     IN  Read([Blank EXCEPT !.stage = "counted", !.session = s, !.since = now,
                            !.total = Cardinality(own)])

ListActions ==
  /\ At("counted")
  /\ \E shown \in kSubset(IF Cardinality(OwnActions) < ListLimit
                          THEN Cardinality(OwnActions) ELSE ListLimit, OwnActions) :
       Read([page EXCEPT !.stage = "listed", !.items = {Item(a) : a \in shown}])

ReadLeaveResults ==
  /\ At("listed")
  /\ Read([page EXCEPT !.stage = "leave_read", !.items = WithLeaveResults(@)])

ReadItResults ==
  /\ At("leave_read")
  /\ Read([page EXCEPT !.stage = "list", !.items = WithItResults(@)])

(* The answer is sent, or a statement fails and the answer is a 503.       *)
ClosePage == ~At("idle") /\ Read(Blank)

PNext ==
  \/ Next /\ UNCHANGED page
  \/ \E s \in Session, a \in ActionId : OpenDetail(s, a)
  \/ ReadRevision \/ ReadTrail \/ ReadResult
  \/ \E s \in Session : CountActions(s)
  \/ ListActions \/ ReadLeaveResults \/ ReadItResults
  \/ ClosePage

PSpec == PInit /\ [][PNext]_pvars
-----------------------------------------------------------------------------
Complete == page.stage \in {"detail", "list"}

(* Whatever commits between the statements, a success is shown with the    *)
(* request or ticket of that very revision and wording, an action that     *)
(* ended otherwise with none, and one shown open only with a result that   *)
(* came later.                                                             *)
ResultMatchesState ==
  Complete => \A i \in page.items :
    /\ i.state = "SUCCEEDED" =>
         i.result # NoRow /\ i.result.revision = i.revision /\ i.result.draft = i.draft
    /\ i.state \in TerminalStates \ {"SUCCEEDED"} => i.result = NoRow
    /\ i.result # NoRow =>
         /\ i.result.revision >= i.revision
         /\ i.state \in NonTerminalStates => Item(i.action).state = "SUCCEEDED"

(* The trail under a detail explains the state above it: the event that    *)
(* entered that state of that revision is among those shown.               *)
TrailReachesState ==
  page.stage \in {"trail", "detail"} => \A i \in page.items :
    \E x \in page.trail : x.revision = i.revision /\ x.to = i.state

(* An employee's page holds nothing of another's. *)
PageIsOwners ==
  \A i \in page.items : KeyOwner[i.key] = Employee

(* A detail never asks to confirm, nor announces as confirmed, what had    *)
(* already lapsed when it was asked for.                                   *)
LiveWhenOpened ==
  At("detail") => \A i \in page.items :
    i.state \in NonTerminalStates => i.live_until > page.since

(* The list is as long as the total beside it promises, up to the limit.   *)
ListIsFull ==
  At("list") => Cardinality(page.items) >= (IF page.total < ListLimit THEN page.total ELSE ListLimit)

(* What an employee reads fits together, although every statement of the   *)
(* page sees another moment.                                               *)
PageFitsTogether ==
  ResultMatchesState /\ TrailReachesState /\ PageIsOwners /\ LiveWhenOpened /\ ListIsFull
=============================================================================
