----------------------------- MODULE ActionSystem -----------------------------
(***************************************************************************)
(* The action control plane: PREPARE calls, employee sessions and workers  *)
(* over one database.  Composes ActionCreation, ConfirmationService,       *)
(* ItRevision and AtomicExecution, with the clock and the deployments that *)
(* change what a request's stable authority is.                            *)
(***************************************************************************)
EXTENDS ActionCreation, ItRevision, AtomicExecution

vars == <<tableVars, lockVars, clockVars, prepare, workerVars>>

Init ==
  /\ StoreInit
  /\ PrepareInit
  /\ WorkerInit

Tick ==
  /\ now < MaxTime
  /\ now' = now + 1
  /\ UNCHANGED <<tableVars, lockVars, authority, prepare, workerVars>>

(* A deployment, or new employee or calendar data, changes what is         *)
(* computed for a request.                                                 *)
ChangeAuthority(k) ==
  /\ authority[k] < MaxAuthority
  /\ authority' = [authority EXCEPT ![k] = @ + 1]
  /\ UNCHANGED <<tableVars, lockVars, now, prepare, workerVars>>

(* What the steps of a component leave to the others.                      *)
PrepareFrame == UNCHANGED <<lockVars, clockVars, workerVars>>
EmployeeFrame == UNCHANGED <<prepare, workerVars>>
WorkerFrame == UNCHANGED prepare

Next ==
  \/ \E p \in Preparer, k \in RequestKey, content \in Content :
       StartPrepare(p, k, content) /\ PrepareFrame
  \/ \E p \in Preparer : AttemptInsert(p) /\ PrepareFrame
  \/ \E p \in Preparer : FindOccupant(p) /\ PrepareFrame
  \/ \E p \in Preparer : ResolveOccupant(p) /\ PrepareFrame
  \/ \E s \in Session, a \in ActionId : GetAction(s, a) /\ EmployeeFrame
  \/ \E s \in Session, a \in ActionId, c \in ChallengeId :
       IssueChallenge(s, a, c) /\ EmployeeFrame
  \/ \E s \in Session, a \in ActionId, c, token \in ChallengeId :
       Confirm(s, a, c, token) /\ EmployeeFrame
  \/ \E s \in Session, a \in ActionId : Cancel(s, a) /\ EmployeeFrame
  \/ \E s \in Session, a \in ActionId, expected \in RevisionNo,
        content \in Content :
       CreateRevision(s, a, expected, content) /\ EmployeeFrame
  \/ \E w \in Worker, a \in ActionId : Claim(w, a) /\ WorkerFrame
  \/ \E w \in Worker : BeginExecution(w) /\ WorkerFrame
  \/ \E w \in Worker : Revalidate(w) /\ WorkerFrame
  \/ \E w \in Worker : FinishLeave(w) /\ WorkerFrame
  \/ \E w \in Worker : Commit(w) /\ WorkerFrame
  \/ \E w \in Worker : Abort(w) /\ WorkerFrame
  \/ \E w \in Worker : LoseAck(w) /\ WorkerFrame
  \/ \E w \in Worker : SettleInDoubt(w) /\ WorkerFrame
  \/ \E w \in Worker : Observe(w) /\ WorkerFrame
  \/ Tick
  \/ \E k \in RequestKey : ChangeAuthority(k)

Spec == Init /\ [][Next]_vars

(* A request in progress is carried on by its thread, an open worker       *)
(* transaction by the worker or the server.  The poller asks for work in   *)
(* an endless loop, and the confirmed actions ahead of one are finitely    *)
(* many, so an action that stays claimable is claimed.  Nobody owes the    *)
(* employee's steps, the clock or the faults.                              *)
Fairness ==
  /\ \A p \in Preparer : WF_vars(AdvancePrepare(p) /\ PrepareFrame)
  /\ \A w \in Worker : WF_vars(AdvanceWorker(w) /\ WorkerFrame)
  /\ \A a \in ActionId :
       WF_vars(\E w \in Worker : Claim(w, a) /\ WorkerFrame)

FairSpec == Spec /\ Fairness

TypeOK == StoreTypeOK /\ PrepareTypeOK /\ WorkerTypeOK

-----------------------------------------------------------------------------
(* The moves of a revision, as the handlers and the worker write them.     *)
LifeCycle ==
  {<<"NONE", "AWAITING_CONFIRMATION">>,
   <<"AWAITING_CONFIRMATION", "CONFIRMED">>,
   <<"AWAITING_CONFIRMATION", "SUPERSEDED">>}
  \cup (NonTerminalStates \X {"CANCELLED", "EXPIRED"})
  \cup ({"CONFIRMED"} \X {"SUCCEEDED", "EXECUTION_FAILED", "STALE"})

(* Structure of the tables.                                                *)

(* Revisions are numbered without gaps up to the current one, and only the *)
(* current one can be other than SUPERSEDED.                               *)
OnlyCurrentRevisionLives ==
  \A a \in ActionId : \A n \in RevisionNo :
    /\ n < current_revision[a] => state[a][n] = "SUPERSEDED"
    /\ n = current_revision[a] =>
         /\ state[a][n] \in WorkflowState \ {"SUPERSEDED"}
         /\ draft[a][n] \in DraftPayload
         /\ business_request_key[a] \in RequestKey
    /\ n > current_revision[a] => state[a][n] = "NONE"

(* However PREPARE calls, edits, expiries and the worker interleave, one   *)
(* request has at most one action that waits, is confirmed or succeeded    *)
(* (uq_action_revisions_final_occupying_business_request_key).             *)
OneOccupantPerRequest ==
  \A a, b \in ActionId, m, n \in RevisionNo :
    /\ business_request_key[a] = business_request_key[b]
    /\ state[a][m] \in OccupyingStates
    /\ state[b][n] \in OccupyingStates
    => a = b /\ m = n

(* The challenge authorises what its owner sees now: the current revision  *)
(* of an action still waiting, with that revision's draft.                 *)
AuthorisesCurrent(c) ==
  LET a == challenge[c].action
      n == challenge[c].revision
  IN  /\ a \in ActionId
      /\ n = current_revision[a]
      /\ n > 0
      /\ state[a][n] = "AWAITING_CONFIRMATION"
      /\ challenge[c].draft = draft[a][n]
      /\ challenge[c].session \in Session
      /\ SessionOwner[challenge[c].session] = OwnerOf(a)

(* A challenge that can still be confirmed never speaks of an edited,      *)
(* expired, cancelled or foreign action, and a revision has one at most    *)
(* (uq_confirmation_challenges_one_active).                                *)
ActiveChallengeIsCurrent ==
  /\ \A c \in ChallengeId :
       challenge[c].status = "ACTIVE" => AuthorisesCurrent(c)
  /\ \A c, d \in ChallengeId :
       /\ challenge[c].status = "ACTIVE"
       /\ challenge[d].status = "ACTIVE"
       /\ challenge[c].action = challenge[d].action
       => c = d

(* The consent behind a state: a consumed challenge for that very revision *)
(* and draft, issued to a session of the owner.                            *)
Consented(a, n) ==
  \E c \in ChallengeId :
    /\ challenge[c].status = "CONSUMED"
    /\ challenge[c].action = a
    /\ challenge[c].revision = n
    /\ challenge[c].draft = draft[a][n]
    /\ challenge[c].session \in Session
    /\ SessionOwner[challenge[c].session] = OwnerOf(a)

(* Every submitted leave request and every ticket is what its owner        *)
(* confirmed: the row carries the draft of a revision for which a          *)
(* challenge was consumed, and it was written before the confirmation's    *)
(* TTL ran out, however long the worker waited for locks.                  *)
ExecutedAsConfirmed ==
  \A r \in business_rows :
    LET a == r.action
        n == r.revision
    IN  /\ Consented(a, n)
        /\ r.draft = draft[a][n]
        /\ r.key = business_request_key[a]
        /\ r.at < confirmed_expires_at[a][n]

(* Action state and business row agree at every commit, through crashes,   *)
(* lost acknowledgements and retries: SUCCEEDED has its row, and no other  *)
(* state has one.                                                          *)
RowIffSucceeded ==
  \A a \in ActionId, n \in RevisionNo :
    (state[a][n] = "SUCCEEDED")
      <=> (\E r \in business_rows : r.action = a /\ r.revision = n)

(* A request is carried out at most once, whichever actions asked for it.  *)
OneRowPerRequest ==
  \A r1, r2 \in business_rows : r1.key = r2.key => r1 = r2

(* Leave confirmed separately, checked separately when it was prepared and *)
(* executed by different workers never adds up to more than the balance.   *)
BalanceNeverOverdrawn ==
  \A e \in Owner : SubmittedHours(e) <= Balance[e]

(* ... and never claims a day twice.                                       *)
NoOverlappingLeave ==
  \A e \in Owner : \A r1, r2 \in LeaveRows(e) :
    r1 # r2 => Days[r1.key] \cap Days[r2.key] = {}

(* The audit trail of a revision is a path from its creation to the state  *)
(* it is in: one event enters every state it has been in, one leaves each  *)
(* but the last.                                                           *)
AuditExplainsState ==
  \A a \in ActionId, n \in RevisionNo :
    LET trail == {x \in audit : x.action = a /\ x.revision = n}
    IN  IF state[a][n] = "NONE"
          THEN trail = {}
          ELSE /\ \E x \in trail : x.to = state[a][n]
               /\ \A x \in trail : x.from # state[a][n]
               /\ \A x \in trail : x.from # "NONE" =>
                    \E y \in trail : y.to = x.from
               /\ \A x, y \in trail : x.to = y.to \/ x.from = y.from => x = y

(* The worker's locks: an open transaction holds the rows of its job,      *)
(* which stays the CONFIRMED current revision until it commits, and past   *)
(* the revalidation also the employee's lock; nothing else is held.        *)
LocksProtectJob ==
  /\ \A w \in Worker : phase[w] \in OpenPhases =>
       /\ job[w] \in ActionId
       /\ row_lock[job[w]] = w
       /\ Exists(job[w])
       /\ CurrentState(job[w]) = "CONFIRMED"
       /\ /\ phase[w] = "locked" \/ pending_row[w] # NoRow
          /\ business_request_key[job[w]] \in LeaveKey
          => employee_lock[OwnerOf(job[w])] = w
  /\ \A w \in Worker : phase[w] = "observing" => job[w] \in ActionId
  /\ \A a \in ActionId : row_lock[a] # Nobody =>
       phase[row_lock[a]] \in OpenPhases /\ job[row_lock[a]] = a
  /\ \A a \in ActionId : uncommitted[a] # "NONE" => row_lock[a] # Nobody
  /\ \A e \in Owner : employee_lock[e] # Nobody =>
       phase[employee_lock[e]] \in {"locked", "flushed", "in_doubt"}

(* What an open transaction has written belongs to its job and is decided  *)
(* together: a terminal state, with the row of the current revision        *)
(* exactly when that state is SUCCEEDED, written before the TTL.           *)
PendingWriteIsWhole ==
  \A w \in Worker :
    LET a == job[w]
        r == pending_row[w]
    IN  /\ phase[w] \in {"flushed", "in_doubt"} =>
             /\ uncommitted[a] \in TerminalStates \ {"SUPERSEDED", "CANCELLED"}
             /\ uncommitted[a] = "SUCCEEDED" <=> r # NoRow
        /\ phase[w] \in {"claimed", "waiting", "locked"} =>
             uncommitted[a] = "NONE"
        /\ phase[w] \notin {"flushed", "in_doubt"} => r = NoRow
        /\ r # NoRow =>
             /\ r.action = a
             /\ r.revision = current_revision[a]
             /\ r.key = business_request_key[a]
             /\ r.draft = draft[a][current_revision[a]]
             /\ r.at < confirmed_expires_at[a][current_revision[a]]

(* Between the revalidation and the commit no leave can appear that        *)
(* overlaps the job's: the employee lock keeps the others out.             *)
RevalidationStaysTrue ==
  \A w \in Worker :
    /\ phase[w] = "locked" \/ pending_row[w] # NoRow
    /\ business_request_key[job[w]] \in LeaveKey
    => Foreign(job[w]) = {}

(* ... and the hours the job takes stay covered by what is left.           *)
RevalidationStaysCovered ==
  \A w \in Worker :
    /\ phase[w] = "locked" \/ pending_row[w] # NoRow
    /\ business_request_key[job[w]] \in LeaveKey
    => Hours[business_request_key[job[w]]][DraftOf(job[w]).authority]
         <= Available(OwnerOf(job[w]))

(* Every audit event is a move of the revision life cycle.                 *)
AuditFollowsLifeCycle ==
  \A x \in audit : <<x.from, x.to>> \in LifeCycle

(* A revision is CONFIRMED or SUCCEEDED only by its owner's consent.       *)
ConfirmedByConsent ==
  \A a \in ActionId, n \in RevisionNo :
    state[a][n] \in {"CONFIRMED", "SUCCEEDED"} => Consented(a, n)

(* What a PREPARE call carries from one of its transactions to the next.   *)
(* The occupant it means to lock may have been decided meanwhile, but it   *)
(* is still a revision of an action for the same request.                  *)
PrepareCarries ==
  \A p \in Preparer :
    /\ prepare[p].stage \in ActiveStages =>
         /\ prepare[p].key \in RequestKey
         /\ prepare[p].draft \in DraftPayload
         /\ prepare[p].attempt > 0
    /\ prepare[p].stage = "lock" =>
         LET a == prepare[p].action
         IN  /\ a \in ActionId
             /\ prepare[p].revision \in 1 .. current_revision[a]
             /\ business_request_key[a] = prepare[p].key

(* The inductive invariant of the control plane.                           *)
ControlInvariant ==
  /\ TypeOK
  /\ OnlyCurrentRevisionLives
  /\ OneOccupantPerRequest
  /\ ActiveChallengeIsCurrent
  /\ ConfirmedByConsent
  /\ ExecutedAsConfirmed
  /\ RowIffSucceeded
  /\ OneRowPerRequest
  /\ NoOverlappingLeave
  /\ LocksProtectJob
  /\ PendingWriteIsWhole
  /\ RevalidationStaysTrue
  /\ PrepareCarries

(* What the ledgers of the control plane add up to: the leave rows and the *)
(* audit trail, with what makes that inductive.                            *)
LedgerInvariant ==
  /\ IsFiniteSet(business_rows)
  /\ BalanceNeverOverdrawn
  /\ RevalidationStaysCovered
  /\ AuditFollowsLifeCycle
  /\ AuditExplainsState

FullInvariant == ControlInvariant /\ LedgerInvariant

-----------------------------------------------------------------------------
(* A decided action stays decided: no retry, replay, edit or late worker   *)
(* moves a terminal revision, and what was agreed about a revision never   *)
(* changes afterwards.                                                     *)
TerminalIsFinal ==
  [][\A a \in ActionId, n \in RevisionNo :
       /\ state[a][n] \in TerminalStates => state'[a][n] = state[a][n]
       /\ state[a][n] # "NONE" => draft'[a][n] = draft[a][n]]_vars

(* Nobody confirms, edits or executes on the strength of a lapsed state: a *)
(* lapsed action is only ever expired, unless the worker had locked it and *)
(* written its decision before the TTL ran out.  Nor is it challenged,     *)
(* although issue_challenge rolls the expiry back with its error.          *)
LapsedOnlyExpires ==
  [][\A a \in ActionId : Exists(a) /\ Lapsed(a) =>
       /\ \/ state'[a] = state[a]
          \/ state'[a] = [state[a] EXCEPT ![current_revision[a]] = "EXPIRED"]
          \/ uncommitted[a] # "NONE"
       /\ \A c \in ChallengeId :
            challenge'[c].action = a /\ challenge'[c].status = "ACTIVE" =>
              challenge'[c] = challenge[c]]_vars

(* PREPARE for leave never hands back a dead action: what it says it       *)
(* reuses can still be confirmed or is about to be executed.               *)
ReusedLeaveIsLive ==
  [][\A p \in Preparer :
       /\ prepare[p].stage # "REUSED_EXISTING"
       /\ prepare'[p].stage = "REUSED_EXISTING"
       /\ prepare[p].key \in LeaveKey
       => LET a == prepare'[p].action
          IN  /\ business_request_key[a] = prepare[p].key
              /\ CurrentState(a) \in NonTerminalStates
              /\ ~Lapsed(a)]_vars

(* PREPARE for a ticket may hand back an action whose time has passed, but *)
(* never a revision that an edit replaced, or someone decided, while it    *)
(* waited for the row: what it reuses is its request's one occupant.       *)
ReusedTicketIsCurrent ==
  [][\A p \in Preparer :
       /\ prepare[p].stage # "REUSED_EXISTING"
       /\ prepare'[p].stage = "REUSED_EXISTING"
       /\ prepare[p].key \notin LeaveKey
       => LET a == prepare'[p].action
          IN  /\ CurrentState(a) \in NonTerminalStates
              /\ Occupying(prepare[p].key) = {<<a, prepare'[p].revision>>}]_vars

(* Every confirmed action is decided, one way or another, once workers     *)
(* stop failing.                                                           *)
ConfirmedIsDecided ==
  \A a \in ActionId :
    Exists(a) /\ CurrentState(a) = "CONFIRMED"
      ~> Exists(a) /\ CurrentState(a) \in TerminalStates

(* Every PREPARE call returns.                                             *)
PrepareReturns ==
  \A p \in Preparer :
    prepare[p].stage \in ActiveStages ~> prepare[p].stage \notin ActiveStages

-----------------------------------------------------------------------------
(* The promise the tables keep: offers are revisions, and only what is     *)
(* committed counts.                                                       *)
StandingOf(s) ==
  CASE s = "NONE" -> "none"
    [] s = "AWAITING_CONFIRMATION" -> "offered"
    [] s = "CONFIRMED" -> "consented"
    [] s = "SUCCEEDED" -> "done"
    [] OTHER -> "dropped"

Promise == INSTANCE AuthorizedExecution WITH
  Action <- ActionId,
  Request <- RequestKey,
  Terms <- DraftPayload,
  MaxOffer <- MaxRevision,
  NoRequest <- NoKey,
  NoTerms <- NoDraft,
  request <- business_request_key,
  latest <- current_revision,
  terms <- draft,
  standing <- [a \in ActionId |->
                 [n \in RevisionNo |-> StandingOf(state[a][n])]],
  effects <- {[action |-> r.action, offer |-> r.revision, request |-> r.key,
               terms |-> r.draft] : r \in business_rows}

(* Every run of the control plane, seen through the committed tables, is a *)
(* run of AuthorizedExecution: nothing is carried out without consent to   *)
(* the very terms, nor twice.                                              *)
KeepsPromise == Promise!AbstractSpec
=============================================================================
