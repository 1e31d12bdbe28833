---------------------------- MODULE WorkflowStore ----------------------------
(***************************************************************************)
(* The PostgreSQL tables that the action control plane shares              *)
(* (src/app/db/workflow_models.py): action_workflows, action_revisions,    *)
(* confirmation_challenges, action_audit_events, leave_requests and        *)
(* it_tickets, with the row and advisory locks that outlive one statement. *)
(*                                                                         *)
(* Every API handler is one READ COMMITTED transaction that starts with    *)
(* SELECT ... FOR UPDATE on the workflow row and then on the current       *)
(* revision, so its committed effect is one step that needs both rows      *)
(* free.  Only the worker's transaction is long enough for others to run   *)
(* between its statements; the locks it keeps are state.                   *)
(***************************************************************************)
EXTENDS Integers, FiniteSets, FiniteSetsExt

CONSTANTS
  ActionId,       \* identifiers uuid4() may still hand out
  ChallengeId,    \* identifiers of confirmation challenges; a challenge's token is its own
  RequestKey,     \* business_request_key values
  LeaveKey,       \* the keys of annual-leave requests; the others are IT tickets
  Owner,          \* employees; an employee and its subject resolve together
  Session,        \* authenticated sessions
  Content,        \* what a draft says
  Worker,         \* poller processes
  KeyOwner,       \* [RequestKey -> Owner]: the key is a hash over its owner
  SessionOwner,   \* [Session -> Owner]
  Days,           \* [LeaveKey -> SUBSET Nat]: the days a leave request covers
  Hours,          \* [LeaveKey -> [0 .. MaxAuthority -> Nat]]: the hours it takes,
                  \* as each version of the stable authority counts them
  Balance,        \* [Owner -> Nat]: trusted base balance in hours
  ActionTTL,      \* v4_action_ttl_seconds
  ChallengeTTL,   \* v4_confirmation_challenge_ttl_seconds
  ConfirmedTTL,   \* v4_confirmed_ttl_seconds
  MaxTime,        \* bound on the clock
  MaxRevision,    \* bound on the revisions of one action
  MaxAuthority,   \* bound on the changes of a request's stable authority
  Nobody,         \* no worker
  NoAction,       \* no action
  NoKey,          \* the key of an action that does not exist
  NoDraft,        \* the draft of a revision that does not exist
  NoRow           \* no business row

(* The settings are validated with ge=1 (src/app/config.py). *)
ASSUME TTLAssumption ==
  /\ ActionTTL \in Nat \ {0}
  /\ ChallengeTTL \in Nat \ {0}
  /\ ConfirmedTTL \in Nat \ {0}

ASSUME BoundAssumption ==
  /\ MaxTime \in Nat
  /\ MaxRevision \in Nat \ {0}
  /\ MaxAuthority \in Nat

ASSUME RequestAssumption ==
  /\ LeaveKey \subseteq RequestKey
  /\ KeyOwner \in [RequestKey -> Owner]
  /\ SessionOwner \in [Session -> Owner]
  /\ Hours \in [LeaveKey -> [0 .. MaxAuthority -> Nat]]
  /\ Days \in [LeaveKey -> SUBSET Nat]
  /\ Balance \in [Owner -> Nat]

ASSUME NullAssumption ==
  /\ Nobody \notin Worker
  /\ NoAction \notin ActionId
  /\ NoAction \notin Session
  /\ NoKey \notin RequestKey
  /\ NoDraft \notin [content : Content, authority : 0 .. MaxAuthority]
  /\ NoRow \notin [action : ActionId, revision : 1 .. MaxRevision,
                   key : RequestKey,
                   draft : [content : Content, authority : 0 .. MaxAuthority],
                   at : Nat]

VARIABLES
  now,                   \* clock_timestamp()
  authority,             \* version of the stable authority the deployed code and
                         \* data compute for each request: work pattern, calendar
                         \* and ruleset for leave, ruleset for IT
  current_revision,      \* action_workflows.current_revision; 0: no such workflow
  business_request_key,  \* the key every revision of the action carries
  state,                 \* action_revisions.state, by action and revision
  draft,                 \* draft_payload (and so draft_hash), by action and revision
  action_expires_at,     \* by action and revision
  confirmed_expires_at,  \* by action and revision; 0: NULL
  challenge,             \* confirmation_challenges
  business_rows,         \* leave_requests and it_tickets
  audit,                 \* state-changing action_audit_events
  row_lock,              \* worker whose open transaction holds the action's rows
  employee_lock,         \* worker holding the employee's advisory lock
  uncommitted            \* state the holder wrote but has not committed

tableVars == <<current_revision, business_request_key, state, draft,
               action_expires_at, confirmed_expires_at, challenge,
               business_rows, audit>>
lockVars == <<row_lock, employee_lock, uncommitted>>
clockVars == <<now, authority>>

-----------------------------------------------------------------------------
RevisionNo == 1 .. MaxRevision

NonTerminalStates == {"AWAITING_CONFIRMATION", "CONFIRMED"}
TerminalStates == {"SUCCEEDED", "EXECUTION_FAILED", "CANCELLED", "EXPIRED",
                   "STALE", "SUPERSEDED"}
WorkflowState == NonTerminalStates \cup TerminalStates

(* A revision in one of these states keeps its business request key to     *)
(* itself: the partial unique index over action_revisions.                 *)
OccupyingStates == {"AWAITING_CONFIRMATION", "CONFIRMED", "SUCCEEDED"}

DraftPayload == [content : Content, authority : 0 .. MaxAuthority]

Challenge ==
  [status : {"UNISSUED", "ACTIVE", "CONSUMED", "SUPERSEDED"},
   action : ActionId \cup {NoAction}, revision : 0 .. MaxRevision,
   session : Session \cup {NoAction}, draft : DraftPayload \cup {NoDraft},
   expires_at : Nat]

NoChallenge ==
  [status |-> "UNISSUED", action |-> NoAction, revision |-> 0,
   session |-> NoAction, draft |-> NoDraft, expires_at |-> 0]

BusinessRow ==
  [action : ActionId, revision : RevisionNo, key : RequestKey,
   draft : DraftPayload, at : Nat]

AuditEvent ==
  [action : ActionId, revision : RevisionNo,
   from : WorkflowState \cup {"NONE"}, to : WorkflowState]

StoreTypeOK ==
  /\ now \in 0 .. MaxTime
  /\ authority \in [RequestKey -> 0 .. MaxAuthority]
  /\ current_revision \in [ActionId -> 0 .. MaxRevision]
  /\ business_request_key \in [ActionId -> RequestKey \cup {NoKey}]
  /\ state \in [ActionId -> [RevisionNo -> WorkflowState \cup {"NONE"}]]
  /\ draft \in [ActionId -> [RevisionNo -> DraftPayload \cup {NoDraft}]]
  /\ action_expires_at \in [ActionId -> [RevisionNo -> Nat]]
  /\ confirmed_expires_at \in [ActionId -> [RevisionNo -> Nat]]
  /\ challenge \in [ChallengeId -> Challenge]
  /\ business_rows \subseteq BusinessRow
  /\ audit \subseteq AuditEvent
  /\ row_lock \in [ActionId -> Worker \cup {Nobody}]
  /\ employee_lock \in [Owner -> Worker \cup {Nobody}]
  /\ uncommitted \in [ActionId -> TerminalStates \cup {"NONE"}]

StoreInit ==
  /\ now = 0
  /\ authority = [k \in RequestKey |-> 0]
  /\ current_revision = [a \in ActionId |-> 0]
  /\ business_request_key = [a \in ActionId |-> NoKey]
  /\ state = [a \in ActionId |-> [n \in RevisionNo |-> "NONE"]]
  /\ draft = [a \in ActionId |-> [n \in RevisionNo |-> NoDraft]]
  /\ action_expires_at = [a \in ActionId |-> [n \in RevisionNo |-> 0]]
  /\ confirmed_expires_at = [a \in ActionId |-> [n \in RevisionNo |-> 0]]
  /\ challenge = [c \in ChallengeId |-> NoChallenge]
  /\ business_rows = {}
  /\ audit = {}
  /\ row_lock = [a \in ActionId |-> Nobody]
  /\ employee_lock = [e \in Owner |-> Nobody]
  /\ uncommitted = [a \in ActionId |-> "NONE"]

-----------------------------------------------------------------------------
Exists(a) == current_revision[a] > 0

CurrentState(a) == state[a][current_revision[a]]

OwnerOf(a) == KeyOwner[business_request_key[a]]

(* SELECT ... FOR UPDATE on the action's rows returns only when no worker  *)
(* holds them.                                                             *)
RowsFree(a) == row_lock[a] = Nobody

(* The draft a handler computes now for a request.                         *)
LiveDraft(k, content) == [content |-> content, authority |-> authority[k]]

(* Mutant: the index covers waiting revisions only.                        *)
WaitingUnder(k) ==
  {an \in ActionId \X RevisionNo :
     /\ business_request_key[an[1]] = k
     /\ state[an[1]][an[2]] = "AWAITING_CONFIRMATION"}

(* The revisions the partial unique index holds under a key.               *)
Occupying(k) ==
  {an \in ActionId \X RevisionNo :
     /\ business_request_key[an[1]] = k
     /\ state[an[1]][an[2]] \in OccupyingStates}

(* The non-terminal state of the current revision has outlived its TTL.    *)
Lapsed(a) ==
  LET n == current_revision[a]
  IN  \/ /\ state[a][n] = "AWAITING_CONFIRMATION"
         /\ action_expires_at[a][n] <= now
      \/ /\ state[a][n] = "CONFIRMED"
         /\ confirmed_expires_at[a][n] <= now

(* Mutant: the active challenge survives.                                  *)
KeepActive(a, n) == challenge

(* The challenges once the revision's active one is superseded.            *)
SupersedeActive(a, n) ==
  [c \in ChallengeId |->
     IF /\ challenge[c].status = "ACTIVE"
        /\ challenge[c].action = a
        /\ challenge[c].revision = n
       THEN [challenge[c] EXCEPT !.status = "SUPERSEDED"]
       ELSE challenge[c]]

(* A state write and its audit event, in one transaction.                  *)
Enter(a, n, to) ==
  /\ state' = [state EXCEPT ![a][n] = to]
  /\ audit' = audit \cup
       {[action |-> a, revision |-> n, from |-> state[a][n], to |-> to]}

(* Expire the current revision: its challenge dies with it.                *)
Expire(a) ==
  LET n == current_revision[a]
  IN  /\ Enter(a, n, "EXPIRED")
      /\ challenge' = IF state[a][n] = "AWAITING_CONFIRMATION"
                        THEN SupersedeActive(a, n)
                        ELSE challenge
      /\ UNCHANGED <<current_revision, business_request_key, draft,
                     action_expires_at, confirmed_expires_at, business_rows>>

NormalizeExpiry(a) == IF Lapsed(a) THEN Expire(a) ELSE UNCHANGED tableVars

LeaveRows(e) ==
  {r \in business_rows : r.key \in LeaveKey /\ KeyOwner[r.key] = e}

RowHours(r) == Hours[r.key][r.draft.authority]

SubmittedHours(e) == SumFunction([r \in LeaveRows(e) |-> RowHours(r)])

(* Balance the employee still has once submitted leave is taken off.       *)
Available(e) == Balance[e] - SubmittedHours(e)
=============================================================================
