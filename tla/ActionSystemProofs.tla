-------------------------- MODULE ActionSystemProofs --------------------------
(***************************************************************************)
(* Proofs about ActionSystem: ControlInvariant is an inductive invariant   *)
(* of Spec for every set of actions, challenges, requests, sessions,       *)
(* workers and calls and for every bound, so each safety property among    *)
(* its conjuncts is a theorem.                                             *)
(*                                                                         *)
(* The invariant is cut along who writes what it talks about: the tables,  *)
(* the worker's transaction, the PREPARE calls.  A handler of the          *)
(* employee's side or of PREPARE changes the rows of one unlocked action   *)
(* (Touches), which is what the worker's part needs to survive it, and     *)
(* moves that action along the revision life cycle, which is what the      *)
(* tables' part needs.  The commit is the only step that adds a row.       *)
(*                                                                         *)
(* The second half follows from ControlInvariant and from the shape of the *)
(* steps: the leave ledger never overdraws a balance, the audit trail      *)
(* explains every state, a lapsed action only expires, and the whole       *)
(* system implements AuthorizedExecution.                                  *)
(*                                                                         *)
(* The last part is about PortalReads: a page is put together by reads     *)
(* that other transactions interrupt, and what it has read is history.     *)
(***************************************************************************)
EXTENDS PortalReads, SumLemmas

TableInvariant ==
  /\ StoreTypeOK
  /\ OnlyCurrentRevisionLives
  /\ OneOccupantPerRequest
  /\ ActiveChallengeIsCurrent
  /\ ConfirmedByConsent
  /\ ExecutedAsConfirmed
  /\ RowIffSucceeded
  /\ OneRowPerRequest
  /\ NoOverlappingLeave

WorkerInvariant ==
  /\ WorkerTypeOK
  /\ LocksProtectJob
  /\ PendingWriteIsWhole
  /\ RevalidationStaysTrue

PrepareInvariant == PrepareTypeOK /\ PrepareCarries

(* The three parts are all of the invariant.                               *)
LEMMA InvariantParts ==
  /\ ControlInvariant <=> TableInvariant /\ WorkerInvariant /\ PrepareInvariant
  /\ ControlInvariant' <=>
       TableInvariant' /\ WorkerInvariant' /\ PrepareInvariant'
BY DEF ControlInvariant, TypeOK, TableInvariant, WorkerInvariant, PrepareInvariant

-----------------------------------------------------------------------------
(* The initial states.                                                     *)

(* The empty tables satisfy all that is said of them.                      *)
LEMMA InitTables == Init => TableInvariant
<1> SUFFICES ASSUME StoreInit PROVE TableInvariant
  BY DEF Init
<1>1. StoreTypeOK
  BY BoundAssumption, NullAssumption
  DEF StoreInit, StoreTypeOK, Challenge, NoChallenge
<1>2. OnlyCurrentRevisionLives
  BY DEF StoreInit, OnlyCurrentRevisionLives, RevisionNo
<1>3. OneOccupantPerRequest /\ ConfirmedByConsent
  BY DEF StoreInit, OneOccupantPerRequest, ConfirmedByConsent, OccupyingStates
<1>4. ActiveChallengeIsCurrent
  BY DEF StoreInit, ActiveChallengeIsCurrent, NoChallenge
<1>5. RowIffSucceeded
  BY DEF StoreInit, RowIffSucceeded
<1>6. ExecutedAsConfirmed /\ OneRowPerRequest /\ NoOverlappingLeave
  BY DEF StoreInit, ExecutedAsConfirmed, OneRowPerRequest, NoOverlappingLeave,
         LeaveRows
<1> QED BY <1>1, <1>2, <1>3, <1>4, <1>5, <1>6 DEF TableInvariant

(* At first no worker has a transaction.                                   *)
LEMMA InitWorkers == Init => WorkerInvariant
<1> SUFFICES ASSUME Init PROVE WorkerInvariant
  OBVIOUS
<1>1. WorkerTypeOK
  BY FaultAssumption DEF Init, WorkerInit, WorkerTypeOK, WorkerPhase
<1>2. LocksProtectJob
  BY DEF Init, StoreInit, WorkerInit, LocksProtectJob, OpenPhases
<1>3. PendingWriteIsWhole
  BY DEF Init, StoreInit, WorkerInit, PendingWriteIsWhole
<1>4. RevalidationStaysTrue
  BY DEF Init, WorkerInit, RevalidationStaysTrue
<1> QED BY <1>1, <1>2, <1>3, <1>4 DEF WorkerInvariant

(* At first no PREPARE call is in progress.                                *)
LEMMA InitPrepare == Init => PrepareInvariant
<1> SUFFICES ASSUME PrepareInit PROVE PrepareInvariant
  BY DEF Init
<1>1. PrepareTypeOK
  BY BoundAssumption
  DEF PrepareInit, PrepareTypeOK, PrepareCall, PREPARE_CONTENTION_ATTEMPTS
<1>2. PrepareCarries
  BY DEF PrepareInit, PrepareCarries, ActiveStages
<1> QED BY <1>1, <1>2 DEF PrepareInvariant

-----------------------------------------------------------------------------
(* What a step outside the worker may change.                              *)

(* Only the rows of a change, and nothing is carried out.                  *)
Touches(a) ==
  /\ \A b \in ActionId : b # a =>
       /\ state'[b] = state[b]
       /\ current_revision'[b] = current_revision[b]
       /\ business_request_key'[b] = business_request_key[b]
       /\ draft'[b] = draft[b]
       /\ confirmed_expires_at'[b] = confirmed_expires_at[b]
  /\ business_rows' = business_rows

(* Consent, once given, stays: a consumed challenge never changes, nor     *)
(* does the draft or the request of a revision that exists.                *)
KeepsConsent(a) ==
  /\ \A c \in ChallengeId :
       challenge[c].status = "CONSUMED" => challenge'[c] = challenge[c]
  /\ \A n \in RevisionNo : state[a][n] # "NONE" => draft'[a][n] = draft[a][n]
  /\ Exists(a) => business_request_key'[a] = business_request_key[a]

(* A revision moves only as its life cycle allows.                         *)
KeepsLifeCycle(a) ==
  /\ \A n \in RevisionNo :
       /\ state[a][n] = "SUCCEEDED" <=> state'[a][n] = "SUCCEEDED"
       /\ state[a][n] = "SUCCEEDED" =>
            confirmed_expires_at'[a][n] = confirmed_expires_at[a][n]
       /\ state'[a][n] = "CONFIRMED" =>
            state[a][n] = "CONFIRMED" \/ Consented(a, n)'
       /\ state'[a][n] \in OccupyingStates =>
            \/ \E m \in RevisionNo : state[a][m] \in OccupyingStates
            \/ Occupying(business_request_key'[a]) = {}
  /\ \A m, n \in RevisionNo :
       state'[a][m] \in OccupyingStates /\ state'[a][n] \in OccupyingStates
         => m = n

(* What exists has a revision.                                             *)
LEMMA LivesOnlyIfExists ==
  ASSUME TableInvariant, NEW a \in ActionId, NEW n \in RevisionNo,
         state[a][n] # "NONE"
  PROVE  /\ Exists(a)
         /\ n <= current_revision[a]
         /\ state[a][n] # "SUPERSEDED" => n = current_revision[a]
BY BoundAssumption
DEF TableInvariant, StoreTypeOK, OnlyCurrentRevisionLives, Exists, RevisionNo

(* The consent behind an existing revision survives a step that keeps it.  *)
LEMMA ConsentStays ==
  ASSUME TableInvariant, NEW a \in ActionId, Touches(a), KeepsConsent(a),
         NEW b \in ActionId, NEW n \in RevisionNo,
         state[b][n] # "NONE", Consented(b, n)
  PROVE  Consented(b, n)'
<1>1. Exists(b)
  BY LivesOnlyIfExists
<1>2. /\ business_request_key'[b] = business_request_key[b]
      /\ draft'[b][n] = draft[b][n]
  BY <1>1 DEF Touches, KeepsConsent
<1> QED BY <1>2 DEF Consented, KeepsConsent, OwnerOf

(* The challenges that stay active belong to actions the step leaves alone. *)
LEMMA ChallengesSurvive ==
  ASSUME TableInvariant, NEW a \in ActionId, Touches(a),
         \A c \in ChallengeId : challenge'[c].status = "ACTIVE" =>
           /\ challenge'[c] = challenge[c]
           /\ challenge[c].action # a
  PROVE  ActiveChallengeIsCurrent'
<1>1. ASSUME NEW c \in ChallengeId, challenge'[c].status = "ACTIVE"
      PROVE  AuthorisesCurrent(c)'
  <2>1. /\ challenge'[c] = challenge[c]
        /\ challenge[c].action # a
        /\ AuthorisesCurrent(c)
    BY <1>1 DEF TableInvariant, ActiveChallengeIsCurrent
  <2> QED BY <2>1 DEF AuthorisesCurrent, Touches, OwnerOf
<1> QED BY <1>1 DEF TableInvariant, ActiveChallengeIsCurrent

(* Tables after a step of the employee or of PREPARE: everything but the   *)
(* structure of the action it touches follows from the three conditions.   *)
LEMMA TablesSurvive ==
  ASSUME TableInvariant, NEW a \in ActionId, Touches(a), KeepsConsent(a),
         KeepsLifeCycle(a), StoreTypeOK',
         OnlyCurrentRevisionLives', ActiveChallengeIsCurrent'
  PROVE  TableInvariant'
<1>1. OneOccupantPerRequest'
  <2> SUFFICES ASSUME NEW b \in ActionId, NEW d \in ActionId,
                      NEW m \in RevisionNo, NEW n \in RevisionNo,
                      business_request_key'[b] = business_request_key'[d],
                      state'[b][m] \in OccupyingStates,
                      state'[d][n] \in OccupyingStates
               PROVE  b = d /\ m = n
    BY DEF OneOccupantPerRequest
  <2>1. CASE b = a /\ d = a
    BY <2>1 DEF KeepsLifeCycle
  <2>2. CASE b # a /\ d # a
    BY <2>2 DEF Touches, TableInvariant, OneOccupantPerRequest
  <2>3. ASSUME NEW x \in ActionId, x # a, NEW i \in RevisionNo,
               NEW j \in RevisionNo,
               business_request_key'[x] = business_request_key'[a],
               state'[x][i] \in OccupyingStates,
               state'[a][j] \in OccupyingStates
        PROVE  FALSE
    <3>1. /\ state[x][i] \in OccupyingStates
          /\ business_request_key[x] = business_request_key'[a]
      BY <2>3 DEF Touches
    <3>2. Occupying(business_request_key'[a]) # {}
      <4>1. <<x, i>> \in Occupying(business_request_key'[a])
        BY <3>1, <2>3 DEF Occupying
      <4> QED BY <4>1
    <3>3. PICK k \in RevisionNo : state[a][k] \in OccupyingStates
      BY <3>2, <2>3 DEF KeepsLifeCycle
    <3>4. Exists(a)
      BY <3>3, LivesOnlyIfExists DEF OccupyingStates
    <3>5. business_request_key'[a] = business_request_key[a]
      BY <3>4 DEF KeepsConsent
    <3> QED BY <2>3, <3>1, <3>3, <3>5 DEF TableInvariant, OneOccupantPerRequest
  <2> QED BY <2>1, <2>2, <2>3
<1>2. ConfirmedByConsent'
  <2> SUFFICES ASSUME NEW b \in ActionId, NEW n \in RevisionNo,
                      state'[b][n] \in {"CONFIRMED", "SUCCEEDED"}
               PROVE  Consented(b, n)'
    BY DEF ConfirmedByConsent
  <2>1. CASE state[b][n] \in {"CONFIRMED", "SUCCEEDED"}
    BY <2>1, ConsentStays DEF TableInvariant, ConfirmedByConsent
  <2>2. CASE state[b][n] \notin {"CONFIRMED", "SUCCEEDED"}
    BY <2>2 DEF Touches, KeepsLifeCycle
  <2> QED BY <2>1, <2>2
<1>3. RowIffSucceeded'
  BY DEF TableInvariant, RowIffSucceeded, Touches, KeepsLifeCycle
<1>4. ExecutedAsConfirmed'
  <2> SUFFICES ASSUME NEW r \in business_rows
               PROVE  /\ Consented(r.action, r.revision)'
                      /\ r.draft = draft'[r.action][r.revision]
                      /\ r.key = business_request_key'[r.action]
                      /\ r.at < confirmed_expires_at'[r.action][r.revision]
    BY DEF ExecutedAsConfirmed, Touches
  <2> DEFINE b == r.action
             n == r.revision
  <2>1. /\ b \in ActionId
        /\ n \in RevisionNo
    BY DEF TableInvariant, StoreTypeOK, BusinessRow
  <2>2. state[b][n] = "SUCCEEDED"
    BY <2>1 DEF TableInvariant, RowIffSucceeded
  <2>3. /\ Consented(b, n)
        /\ r.draft = draft[b][n]
        /\ r.key = business_request_key[b]
        /\ r.at < confirmed_expires_at[b][n]
    BY DEF TableInvariant, ExecutedAsConfirmed
  <2>4. Consented(b, n)'
    BY <2>1, <2>2, <2>3, ConsentStays
  <2>5. Exists(b)
    BY <2>1, <2>2, LivesOnlyIfExists
  <2>6. /\ draft'[b][n] = draft[b][n]
        /\ business_request_key'[b] = business_request_key[b]
        /\ confirmed_expires_at'[b][n] = confirmed_expires_at[b][n]
    BY <2>1, <2>2, <2>5 DEF Touches, KeepsConsent, KeepsLifeCycle
  <2> QED BY <2>3, <2>4, <2>6
<1>5. OneRowPerRequest' /\ NoOverlappingLeave'
  BY DEF TableInvariant, OneRowPerRequest, NoOverlappingLeave, LeaveRows, Touches
<1> QED BY <1>1, <1>2, <1>3, <1>4, <1>5 DEF TableInvariant

(* A worker's transaction is not disturbed by a step that touches only an  *)
(* action whose rows it does not hold.                                     *)
LEMMA WorkersUndisturbed ==
  ASSUME WorkerInvariant, NEW a \in ActionId, Touches(a), RowsFree(a),
         UNCHANGED <<lockVars, workerVars>>
  PROVE  WorkerInvariant'
<1> USE DEF lockVars, workerVars
<1>1. WorkerTypeOK'
  BY DEF WorkerInvariant, WorkerTypeOK
<1>2. \A w \in Worker : phase[w] \in OpenPhases =>
        /\ job[w] \in ActionId
        /\ job[w] # a
        /\ state'[job[w]] = state[job[w]]
        /\ current_revision'[job[w]] = current_revision[job[w]]
        /\ business_request_key'[job[w]] = business_request_key[job[w]]
        /\ draft'[job[w]] = draft[job[w]]
        /\ confirmed_expires_at'[job[w]] = confirmed_expires_at[job[w]]
  BY NullAssumption DEF WorkerInvariant, LocksProtectJob, RowsFree, Touches
<1>3. \A w \in Worker : pending_row[w] # NoRow => phase[w] \in OpenPhases
  BY DEF WorkerInvariant, PendingWriteIsWhole, OpenPhases
<1>4. LocksProtectJob'
  BY <1>2, <1>3 DEF WorkerInvariant, LocksProtectJob, Exists, CurrentState, OwnerOf
<1>5. PendingWriteIsWhole'
  BY <1>2, <1>3 DEF WorkerInvariant, PendingWriteIsWhole
<1>6. RevalidationStaysTrue'
  <2>1. \A w \in Worker : phase[w] = "locked" \/ pending_row[w] # NoRow =>
          /\ business_request_key'[job[w]] = business_request_key[job[w]]
          /\ Foreign(job[w])' = Foreign(job[w])
    BY <1>2, <1>3 DEF Foreign, LeaveRows, OwnerOf, OpenPhases, Touches
  <2> QED BY <2>1 DEF WorkerInvariant, RevalidationStaysTrue
<1> QED BY <1>1, <1>4, <1>5, <1>6 DEF WorkerInvariant

(* Actions keep their request and never go back to an earlier revision.    *)
KeepsIdentity ==
  \A b \in ActionId : Exists(b) =>
    /\ current_revision'[b] >= current_revision[b]
    /\ business_request_key'[b] = business_request_key[b]

(* A PREPARE call in progress is not disturbed by what others do.          *)
LEMMA PrepareUndisturbed ==
  ASSUME PrepareInvariant, TableInvariant, StoreTypeOK', KeepsIdentity,
         UNCHANGED prepare
  PROVE  PrepareInvariant'
<1>1. PrepareTypeOK'
  BY DEF PrepareInvariant, PrepareTypeOK
<1>2. PrepareCarries'
  <2> SUFFICES ASSUME NEW p \in Preparer, prepare[p].stage = "lock"
               PROVE  LET a == prepare[p].action
                      IN  /\ a \in ActionId
                          /\ prepare[p].revision \in 1 .. current_revision'[a]
                          /\ business_request_key'[a] = prepare[p].key
    BY DEF PrepareInvariant, PrepareCarries
  <2> DEFINE a == prepare[p].action
  <2>1. /\ a \in ActionId
        /\ prepare[p].revision \in 1 .. current_revision[a]
        /\ business_request_key[a] = prepare[p].key
    BY DEF PrepareInvariant, PrepareCarries
  <2>2. /\ current_revision[a] \in 0 .. MaxRevision
        /\ current_revision'[a] \in 0 .. MaxRevision
    BY <2>1 DEF TableInvariant, StoreTypeOK
  <2>3. Exists(a)
    BY <2>1, <2>2, BoundAssumption DEF Exists
  <2> QED BY <2>1, <2>2, <2>3, BoundAssumption DEF KeepsIdentity
<1> QED BY <1>1, <1>2 DEF PrepareInvariant

(* A step that leaves the tables alone leaves what is said of them alone.  *)
LEMMA TablesUnchanged ==
  ASSUME TableInvariant, UNCHANGED tableVars, StoreTypeOK'
  PROVE  TableInvariant' /\ KeepsIdentity
<1> USE DEF tableVars
<1>1. OnlyCurrentRevisionLives' /\ OneOccupantPerRequest'
  BY DEF TableInvariant, OnlyCurrentRevisionLives, OneOccupantPerRequest
<1>2. ActiveChallengeIsCurrent'
  BY DEF TableInvariant, ActiveChallengeIsCurrent, AuthorisesCurrent, OwnerOf
<1>3. ConfirmedByConsent' /\ ExecutedAsConfirmed'
  BY DEF TableInvariant, ConfirmedByConsent, ExecutedAsConfirmed, Consented,
         OwnerOf
<1>4. RowIffSucceeded' /\ OneRowPerRequest' /\ NoOverlappingLeave'
  BY DEF TableInvariant, RowIffSucceeded, OneRowPerRequest,
         NoOverlappingLeave, LeaveRows
<1>5. KeepsIdentity
  BY BoundAssumption DEF KeepsIdentity, TableInvariant, StoreTypeOK, Exists
<1> QED BY <1>1, <1>2, <1>3, <1>4, <1>5 DEF TableInvariant

-----------------------------------------------------------------------------
(* What the writes of the handlers do, point by point.                     *)

(* A state write changes one revision of one action, and is audited.       *)
LEMMA EnterEffect ==
  ASSUME StoreTypeOK, NEW a \in ActionId, NEW n \in RevisionNo,
         NEW to \in WorkflowState, Enter(a, n, to)
  PROVE  /\ state' \in [ActionId -> [RevisionNo -> WorkflowState \cup {"NONE"}]]
         /\ audit' \subseteq AuditEvent
         /\ state'[a][n] = to
         /\ \A m \in RevisionNo : m # n => state'[a][m] = state[a][m]
         /\ \A b \in ActionId : b # a => state'[b] = state[b]
<1>1. state[a][n] \in WorkflowState \cup {"NONE"}
  BY DEF StoreTypeOK
<1>2. [action |-> a, revision |-> n, from |-> state[a][n], to |-> to]
        \in AuditEvent
  BY <1>1 DEF AuditEvent
<1>3. audit' \subseteq AuditEvent
  BY <1>2 DEF Enter, StoreTypeOK
<1> QED BY <1>3 DEF Enter, StoreTypeOK

(* Superseding a revision's challenge leaves it none that is active and    *)
(* changes nothing else.                                                   *)
LEMMA SupersedeEffect ==
  ASSUME StoreTypeOK, NEW a \in ActionId, NEW n \in RevisionNo
  PROVE  LET s == SupersedeActive(a, n)
         IN  /\ s \in [ChallengeId -> Challenge]
             /\ \A c \in ChallengeId :
                  /\ challenge[c].status # "ACTIVE" => s[c] = challenge[c]
                  /\ s[c].status = "CONSUMED" => s[c] = challenge[c]
                  /\ s[c].status = "ACTIVE" =>
                       /\ s[c] = challenge[c]
                       /\ challenge[c].action = a => challenge[c].revision # n
<1> DEFINE s == SupersedeActive(a, n)
<1>1. ASSUME NEW c \in ChallengeId
      PROVE  /\ s[c] \in Challenge
             /\ challenge[c].status # "ACTIVE" => s[c] = challenge[c]
             /\ s[c].status = "CONSUMED" => s[c] = challenge[c]
             /\ s[c].status = "ACTIVE" =>
                  /\ s[c] = challenge[c]
                  /\ challenge[c].action = a => challenge[c].revision # n
  <2>1. challenge[c] \in Challenge
    BY DEF StoreTypeOK
  <2> QED BY <2>1 DEF SupersedeActive, Challenge
<1>2. s \in [ChallengeId -> Challenge]
  BY <1>1 DEF SupersedeActive
<1> QED BY <1>1, <1>2

(* Expiring and cancelling: the current revision leaves the index and its  *)
(* challenge dies with it.                                                 *)
Decides(a, to) ==
  LET n == current_revision[a]
  IN  /\ Enter(a, n, to)
      /\ challenge' = IF state[a][n] = "AWAITING_CONFIRMATION"
                        THEN SupersedeActive(a, n)
                        ELSE challenge
      /\ UNCHANGED <<current_revision, business_request_key, draft,
                     action_expires_at, confirmed_expires_at, business_rows>>

(* The current revision of an action that exists is a revision number.     *)
LEMMA CurrentIsRevision ==
  ASSUME StoreTypeOK, NEW a \in ActionId, Exists(a)
  PROVE  current_revision[a] \in RevisionNo
BY BoundAssumption DEF StoreTypeOK, Exists, RevisionNo

(* The tables after the current revision expired or was cancelled.         *)
LEMMA DecidesTables ==
  ASSUME TableInvariant, NEW a \in ActionId, Exists(a),
         CurrentState(a) \in NonTerminalStates,
         NEW to \in {"EXPIRED", "CANCELLED"}, Decides(a, to),
         UNCHANGED <<lockVars, clockVars>>
  PROVE  TableInvariant' /\ Touches(a) /\ KeepsIdentity
<1> DEFINE n == current_revision[a]
<1>0. StoreTypeOK
  BY DEF TableInvariant
<1>1. n \in RevisionNo
  BY <1>0, CurrentIsRevision
<1>2. to \in WorkflowState
  BY DEF WorkflowState, TerminalStates
<1>3. /\ state' \in [ActionId -> [RevisionNo -> WorkflowState \cup {"NONE"}]]
      /\ audit' \subseteq AuditEvent
      /\ state'[a][n] = to
      /\ \A m \in RevisionNo : m # n => state'[a][m] = state[a][m]
      /\ \A b \in ActionId : b # a => state'[b] = state[b]
  <2>1. Enter(a, n, to)
    BY DEF Decides
  <2> HIDE DEF n
  <2> QED BY <1>0, <1>1, <1>2, <2>1, EnterEffect
<1>4. /\ challenge' \in [ChallengeId -> Challenge]
      /\ \A c \in ChallengeId :
           /\ challenge[c].status = "CONSUMED" => challenge'[c] = challenge[c]
           /\ challenge'[c].status = "ACTIVE" =>
                /\ challenge'[c] = challenge[c]
                /\ challenge[c].action = a => challenge[c].revision # n
  <2>1. CASE state[a][n] = "AWAITING_CONFIRMATION"
    BY <1>0, <1>1, <2>1, SupersedeEffect DEF Decides
  <2>2. CASE state[a][n] # "AWAITING_CONFIRMATION"
    BY <1>0, <2>2
    DEF Decides, StoreTypeOK, TableInvariant, ActiveChallengeIsCurrent,
        AuthorisesCurrent
  <2> QED BY <2>1, <2>2
<1>5. /\ UNCHANGED <<current_revision, business_request_key, draft,
                     action_expires_at, confirmed_expires_at, business_rows>>
      /\ state[a][n] \in NonTerminalStates
  BY DEF Decides, CurrentState
<1>6. Touches(a) /\ KeepsConsent(a)
  BY <1>3, <1>4, <1>5 DEF Touches, KeepsConsent
<1>7. KeepsLifeCycle(a)
  <2>1. \A m \in RevisionNo : state'[a][m] = state[a][m] \/ (m = n /\ state'[a][m] = to)
    BY <1>3
  <2>2. \A i, j \in RevisionNo :
          state[a][i] \in OccupyingStates /\ state[a][j] \in OccupyingStates
            => i = j
    BY DEF TableInvariant, OneOccupantPerRequest
  <2> QED BY <1>5, <1>3, <2>1, <2>2
       DEF KeepsLifeCycle, OccupyingStates, NonTerminalStates
<1>8. StoreTypeOK'
  BY <1>0, <1>3, <1>4, <1>5 DEF StoreTypeOK, lockVars, clockVars
<1>9. OnlyCurrentRevisionLives'
  <2>1. ASSUME NEW b \in ActionId, NEW m \in RevisionNo
        PROVE  /\ current_revision'[b] = current_revision[b]
               /\ draft'[b] = draft[b]
               /\ business_request_key'[b] = business_request_key[b]
               /\ state'[b][m] = IF b = a /\ m = n THEN to ELSE state[b][m]
    BY <1>3, <1>5
  <2>2. to \in WorkflowState \ {"SUPERSEDED"}
    BY DEF WorkflowState, TerminalStates
  <2> HIDE DEF n
  <2>3. n = current_revision[a] /\ n \in Nat
    BY <1>1 DEF n, RevisionNo
  <2> QED BY <2>1, <2>2, <2>3 DEF TableInvariant, OnlyCurrentRevisionLives, RevisionNo
<1>10. ActiveChallengeIsCurrent'
  <2>1. \A c \in ChallengeId :
          challenge[c].status = "ACTIVE" /\ challenge[c].action = a
            => challenge[c].revision = n
    BY DEF TableInvariant, ActiveChallengeIsCurrent, AuthorisesCurrent
  <2> QED BY <1>4, <1>6, <2>1, ChallengesSurvive
<1>11. KeepsIdentity
  BY <1>0, <1>5, BoundAssumption DEF KeepsIdentity, StoreTypeOK, Exists
<1> QED BY <1>6, <1>7, <1>8, <1>9, <1>10, <1>11, TablesSurvive

-----------------------------------------------------------------------------
(* The employee's handlers.                                                *)

(* The tables after a challenge was accepted and its action confirmed.     *)
LEMMA ConsumeTables ==
  ASSUME TableInvariant, NEW s \in Session, NEW a \in ActionId,
         NEW c \in ChallengeId, NEW token \in ChallengeId,
         LockOwnedRevision(s, a), Accepts(s, a, c, token), Consume(a, c),
         UNCHANGED <<lockVars, clockVars>>
  PROVE  TableInvariant' /\ Touches(a) /\ KeepsIdentity
<1> DEFINE n == current_revision[a]
<1>0. StoreTypeOK
  BY DEF TableInvariant
<1>1. n \in RevisionNo
  BY <1>0, CurrentIsRevision DEF LockOwnedRevision
<1>2. "CONFIRMED" \in WorkflowState
  BY DEF WorkflowState, NonTerminalStates
<1>3. /\ state' \in [ActionId -> [RevisionNo -> WorkflowState \cup {"NONE"}]]
      /\ audit' \subseteq AuditEvent
      /\ state'[a][n] = "CONFIRMED"
      /\ \A m \in RevisionNo : m # n => state'[a][m] = state[a][m]
      /\ \A b \in ActionId : b # a => state'[b] = state[b]
  <2>1. Enter(a, n, "CONFIRMED")
    BY DEF Consume
  <2> HIDE DEF n
  <2> QED BY <1>0, <1>1, <1>2, <2>1, EnterEffect
<1>4. /\ challenge[c].action = a
      /\ challenge[c].revision = n
      /\ challenge[c].status = "ACTIVE"
      /\ challenge[c].draft = draft[a][n]
      /\ state[a][n] = "AWAITING_CONFIRMATION"
      /\ challenge[c].session \in Session
      /\ SessionOwner[challenge[c].session] = OwnerOf(a)
  BY DEF Accepts, LockOwnedRevision
<1>5. /\ challenge' = [challenge EXCEPT ![c].status = "CONSUMED"]
      /\ UNCHANGED <<current_revision, business_request_key, draft,
                     action_expires_at, business_rows>>
      /\ confirmed_expires_at' =
           [confirmed_expires_at EXCEPT ![a][n] =
              Earliest(action_expires_at[a][n], now + ConfirmedTTL)]
  BY DEF Consume
<1>6. challenge' \in [ChallengeId -> Challenge]
  <2>1. challenge[c] \in Challenge
    BY <1>0 DEF StoreTypeOK
  <2>2. [challenge[c] EXCEPT !.status = "CONSUMED"] \in Challenge
    BY <2>1 DEF Challenge
  <2> QED BY <1>0, <1>5, <2>2 DEF StoreTypeOK
<1>7. /\ \A d \in ChallengeId : d # c => challenge'[d] = challenge[d]
      /\ challenge'[c].status = "CONSUMED"
      /\ challenge'[c].action = a
      /\ challenge'[c].revision = n
      /\ challenge'[c].draft = draft[a][n]
      /\ challenge'[c].session = challenge[c].session
  <2>1. challenge[c] \in Challenge
    BY <1>0 DEF StoreTypeOK
  <2> QED BY <1>0, <1>4, <1>5, <2>1 DEF StoreTypeOK, Challenge
<1>8. /\ confirmed_expires_at' \in [ActionId -> [RevisionNo -> Nat]]
      /\ \A b \in ActionId :
           b # a => confirmed_expires_at'[b] = confirmed_expires_at[b]
      /\ \A m \in RevisionNo :
           m # n => confirmed_expires_at'[a][m] = confirmed_expires_at[a][m]
  <2>1. Earliest(action_expires_at[a][n], now + ConfirmedTTL) \in Nat
    BY <1>0, <1>1, TTLAssumption, BoundAssumption DEF Earliest, StoreTypeOK
  <2> QED BY <1>0, <1>1, <1>5, <2>1 DEF StoreTypeOK
<1>9. Touches(a)
  BY <1>3, <1>5, <1>8 DEF Touches
<1>10. KeepsConsent(a)
  BY <1>4, <1>5, <1>7 DEF KeepsConsent
<1>11. KeepsLifeCycle(a)
  <2>1. ASSUME NEW m \in RevisionNo, m = n
        PROVE  Consented(a, m)'
    BY <1>4, <1>5, <1>7, <2>1 DEF Consented, OwnerOf
  <2>2. \A m \in RevisionNo :
          state'[a][m] = IF m = n THEN "CONFIRMED" ELSE state[a][m]
    BY <1>3
  <2>3. \A i, j \in RevisionNo :
          state[a][i] \in OccupyingStates /\ state[a][j] \in OccupyingStates
            => i = j
    BY DEF TableInvariant, OneOccupantPerRequest
  <2> HIDE DEF n
  <2>4. ASSUME NEW m \in RevisionNo
        PROVE  /\ state[a][m] = "SUCCEEDED" <=> state'[a][m] = "SUCCEEDED"
               /\ state[a][m] = "SUCCEEDED" =>
                    confirmed_expires_at'[a][m] = confirmed_expires_at[a][m]
               /\ state'[a][m] = "CONFIRMED" =>
                    state[a][m] = "CONFIRMED" \/ Consented(a, m)'
               /\ state'[a][m] \in OccupyingStates =>
                    state[a][m] \in OccupyingStates
    <3>1. CASE m = n
      BY <1>1, <1>4, <1>8, <2>1, <2>2, <3>1 DEF n, OccupyingStates
    <3>2. CASE m # n
      BY <1>1, <1>4, <1>8, <2>2, <3>2 DEF n
    <3> QED BY <3>1, <3>2
  <2> QED BY <2>3, <2>4 DEF KeepsLifeCycle
<1>12. StoreTypeOK'
  BY <1>0, <1>3, <1>5, <1>6, <1>8 DEF StoreTypeOK, lockVars, clockVars
<1>13. OnlyCurrentRevisionLives'
  <2>1. ASSUME NEW b \in ActionId, NEW m \in RevisionNo
        PROVE  /\ current_revision'[b] = current_revision[b]
               /\ draft'[b] = draft[b]
               /\ business_request_key'[b] = business_request_key[b]
               /\ state'[b][m] = IF b = a /\ m = n THEN "CONFIRMED"
                                                   ELSE state[b][m]
    BY <1>3, <1>5
  <2> HIDE DEF n
  <2>2. n = current_revision[a] /\ n \in Nat
    BY <1>1 DEF n, RevisionNo
  <2> QED BY <1>2, <2>1, <2>2
      DEF TableInvariant, OnlyCurrentRevisionLives, RevisionNo
<1>14. ActiveChallengeIsCurrent'
  <2>1. \A d \in ChallengeId :
          challenge'[d].status = "ACTIVE" =>
            challenge'[d] = challenge[d] /\ challenge[d].action # a
    BY <1>4, <1>7 DEF TableInvariant, ActiveChallengeIsCurrent
  <2> QED BY <1>9, <2>1, ChallengesSurvive
<1>15. KeepsIdentity
  BY <1>0, <1>5, BoundAssumption DEF KeepsIdentity, StoreTypeOK, Exists
<1> QED BY <1>9, <1>10, <1>11, <1>12, <1>13, <1>14, <1>15, TablesSurvive

(* The tables after a new challenge was issued.                            *)
LEMMA IssueTables ==
  ASSUME TableInvariant, NEW s \in Session, NEW a \in ActionId,
         NEW c \in ChallengeId, IssueChallenge(s, a, c)
  PROVE  TableInvariant' /\ Touches(a) /\ KeepsIdentity
<1> DEFINE n == current_revision[a]
           expires_at == Earliest(now + ChallengeTTL, action_expires_at[a][n])
           new == [status |-> "ACTIVE", action |-> a, revision |-> n,
                   session |-> s, draft |-> draft[a][n],
                   expires_at |-> expires_at]
<1>0. StoreTypeOK
  BY DEF TableInvariant
<1>1. n \in RevisionNo
  BY <1>0, CurrentIsRevision DEF IssueChallenge, LockOwnedRevision
<1>2. /\ state[a][n] = "AWAITING_CONFIRMATION"
      /\ challenge[c].status = "UNISSUED"
      /\ challenge' = [SupersedeActive(a, n) EXCEPT ![c] = new]
      /\ OwnerOf(a) = SessionOwner[s]
      /\ UNCHANGED <<current_revision, business_request_key, state, draft,
                     action_expires_at, confirmed_expires_at, business_rows,
                     audit, lockVars, clockVars>>
  BY DEF IssueChallenge, LockOwnedRevision
<1>3. new \in Challenge
  <2>1. expires_at \in Nat
    BY <1>0, <1>1, TTLAssumption, BoundAssumption DEF Earliest, StoreTypeOK
  <2>2. n \in 0 .. MaxRevision /\ draft[a][n] \in DraftPayload \cup {NoDraft}
    BY <1>0, <1>1, BoundAssumption DEF StoreTypeOK
  <2> HIDE DEF n, expires_at
  <2> QED BY <2>1, <2>2 DEF Challenge
<1> HIDE DEF new
<1>4. /\ challenge' \in [ChallengeId -> Challenge]
      /\ challenge'[c] = new
      /\ \A d \in ChallengeId : d # c =>
           /\ challenge[d].status = "CONSUMED" => challenge'[d] = challenge[d]
           /\ challenge'[d].status = "ACTIVE" =>
                /\ challenge'[d] = challenge[d]
                /\ challenge[d].action = a => challenge[d].revision # n
  BY <1>0, <1>1, <1>2, <1>3, SupersedeEffect
<1>5. Touches(a) /\ KeepsConsent(a)
  BY <1>2, <1>4 DEF Touches, KeepsConsent
<1>6. KeepsLifeCycle(a)
  BY <1>2 DEF KeepsLifeCycle, TableInvariant, OneOccupantPerRequest
<1>7. StoreTypeOK'
  BY <1>0, <1>2, <1>4 DEF StoreTypeOK, lockVars, clockVars
<1>8. OnlyCurrentRevisionLives'
  BY <1>2 DEF TableInvariant, OnlyCurrentRevisionLives
<1>9. ActiveChallengeIsCurrent'
  <2>1. AuthorisesCurrent(c)'
    BY <1>1, <1>2, <1>4, BoundAssumption
    DEF new, AuthorisesCurrent, OwnerOf, RevisionNo
  <2>2. \A d \in ChallengeId : d # c /\ challenge'[d].status = "ACTIVE" =>
          /\ challenge'[d] = challenge[d]
          /\ challenge[d].action # a
          /\ AuthorisesCurrent(d)
    BY <1>4 DEF TableInvariant, ActiveChallengeIsCurrent, AuthorisesCurrent
  <2>3. \A d \in ChallengeId : d # c /\ challenge'[d].status = "ACTIVE" =>
          AuthorisesCurrent(d)'
    BY <1>2, <2>2 DEF AuthorisesCurrent, OwnerOf
  <2>4. challenge'[c].action = a
    BY <1>4 DEF new
  <2> QED BY <2>1, <2>2, <2>3, <2>4 DEF TableInvariant, ActiveChallengeIsCurrent
<1>10. KeepsIdentity
  BY <1>0, <1>2, BoundAssumption DEF KeepsIdentity, StoreTypeOK, Exists
<1> QED BY <1>5, <1>6, <1>7, <1>8, <1>9, <1>10, TablesSurvive

(* What a handler computes for a request is a draft.                       *)
LEMMA LiveDraftType ==
  ASSUME StoreTypeOK, NEW k \in RequestKey, NEW content \in Content
  PROVE  LiveDraft(k, content) \in DraftPayload
BY DEF LiveDraft, DraftPayload, StoreTypeOK

(* The tables after a revision was superseded by the next one.             *)
LEMMA ReviseTables ==
  ASSUME TableInvariant, NEW a \in ActionId, NEW content \in Content,
         Exists(a), CurrentState(a) = "AWAITING_CONFIRMATION",
         Revise(a, content), UNCHANGED <<lockVars, clockVars>>
  PROVE  TableInvariant' /\ Touches(a) /\ KeepsIdentity
<1>0. StoreTypeOK
  BY DEF TableInvariant
<1>. PICK n \in RevisionNo : n = current_revision[a]
  BY <1>0, CurrentIsRevision
<1> DEFINE k == business_request_key[a]
<1>1. /\ n + 1 \in RevisionNo
      /\ n # n + 1
      /\ n < MaxRevision
      /\ n \in Nat
  BY BoundAssumption DEF Revise, RevisionNo
<1>2. /\ state[a][n] = "AWAITING_CONFIRMATION"
      /\ k \in RequestKey
      /\ state[a][n + 1] = "NONE"
  BY <1>1 DEF CurrentState, TableInvariant, OnlyCurrentRevisionLives
<1>3. /\ challenge' = SupersedeActive(a, n)
      /\ state' = [state EXCEPT ![a] = SupersedeRevision(a, n)]
      /\ draft' = [draft EXCEPT ![a][n + 1] = LiveDraft(k, content)]
      /\ action_expires_at' =
           [action_expires_at EXCEPT ![a][n + 1] = now + ActionTTL]
      /\ current_revision' = [current_revision EXCEPT ![a] = n + 1]
      /\ audit' = audit \cup
           {[action |-> a, revision |-> n,
             from |-> "AWAITING_CONFIRMATION", to |-> "SUPERSEDED"],
            [action |-> a, revision |-> n + 1,
             from |-> "NONE", to |-> "AWAITING_CONFIRMATION"]}
      /\ UNCHANGED <<business_request_key, confirmed_expires_at,
                     business_rows, lockVars, clockVars>>
  BY DEF Revise
<1>4. /\ state' \in [ActionId -> [RevisionNo -> WorkflowState \cup {"NONE"}]]
      /\ \A b \in ActionId : b # a => state'[b] = state[b]
      /\ state'[a][n] = "SUPERSEDED"
      /\ state'[a][n + 1] = "AWAITING_CONFIRMATION"
      /\ \A m \in RevisionNo :
           m # n /\ m # n + 1 => state'[a][m] = state[a][m]
  BY <1>0, <1>1, <1>3
  DEF StoreTypeOK, SupersedeRevision, WorkflowState, TerminalStates,
      NonTerminalStates
<1>5. LiveDraft(k, content) \in DraftPayload
  BY <1>0, <1>2, LiveDraftType
<1>6. /\ draft' \in [ActionId -> [RevisionNo -> DraftPayload \cup {NoDraft}]]
      /\ \A b \in ActionId : b # a => draft'[b] = draft[b]
      /\ draft'[a][n + 1] \in DraftPayload
      /\ \A m \in RevisionNo : m # n + 1 => draft'[a][m] = draft[a][m]
  BY <1>0, <1>1, <1>3, <1>5 DEF StoreTypeOK
<1>7. /\ current_revision' \in [ActionId -> 0 .. MaxRevision]
      /\ current_revision'[a] = n + 1
      /\ \A b \in ActionId : b # a => current_revision'[b] = current_revision[b]
  BY <1>0, <1>1, <1>3 DEF StoreTypeOK, RevisionNo
<1>8. audit' \subseteq AuditEvent
  BY <1>0, <1>1, <1>3
  DEF StoreTypeOK, AuditEvent, WorkflowState, TerminalStates, NonTerminalStates
<1>9. action_expires_at' \in [ActionId -> [RevisionNo -> Nat]]
  <2>1. now + ActionTTL \in Nat
    BY <1>0, TTLAssumption, BoundAssumption DEF StoreTypeOK
  <2> QED BY <1>0, <1>1, <1>3, <2>1 DEF StoreTypeOK
<1>10. /\ challenge' \in [ChallengeId -> Challenge]
       /\ \A c \in ChallengeId :
            /\ challenge[c].status = "CONSUMED" => challenge'[c] = challenge[c]
            /\ challenge'[c].status = "ACTIVE" =>
                 /\ challenge'[c] = challenge[c]
                 /\ challenge[c].action = a => challenge[c].revision # n
  BY <1>0, <1>3, SupersedeEffect
<1>11. Touches(a)
  BY <1>3, <1>4, <1>6, <1>7 DEF Touches
<1>12. KeepsConsent(a)
  BY <1>2, <1>3, <1>6, <1>10 DEF KeepsConsent
<1>13. KeepsLifeCycle(a)
  <2>1. \A m \in RevisionNo : state[a][m] \in OccupyingStates => m = n
    BY <1>2 DEF TableInvariant, OneOccupantPerRequest, OccupyingStates
  <2>2. state[a][n] \in OccupyingStates
    BY <1>2 DEF OccupyingStates
  <2>3. \A m \in RevisionNo : state'[a][m] \in OccupyingStates => m = n + 1
    BY <1>4, <2>1 DEF OccupyingStates
  <2>4. ASSUME NEW m \in RevisionNo
        PROVE  /\ state[a][m] # "SUCCEEDED"
               /\ state'[a][m] # "SUCCEEDED"
               /\ state'[a][m] # "CONFIRMED"
    BY <1>1, <1>2, <1>4, <2>1, <2>3 DEF OccupyingStates
  <2> QED BY <2>2, <2>3, <2>4 DEF KeepsLifeCycle
<1>14. StoreTypeOK'
  BY <1>0, <1>3, <1>4, <1>6, <1>7, <1>8, <1>9, <1>10
  DEF StoreTypeOK, lockVars, clockVars
<1>15. OnlyCurrentRevisionLives'
  <2> SUFFICES ASSUME NEW b \in ActionId, NEW m \in RevisionNo
               PROVE  /\ m < current_revision'[b] => state'[b][m] = "SUPERSEDED"
                      /\ m = current_revision'[b] =>
                           /\ state'[b][m] \in WorkflowState \ {"SUPERSEDED"}
                           /\ draft'[b][m] \in DraftPayload
                           /\ business_request_key'[b] \in RequestKey
                      /\ m > current_revision'[b] => state'[b][m] = "NONE"
    BY DEF OnlyCurrentRevisionLives
  <2>1. CASE b # a
    BY <1>3, <1>4, <1>6, <1>7, <2>1 DEF TableInvariant, OnlyCurrentRevisionLives
  <2>2. CASE b = a
    <3>1. /\ m < n => state[a][m] = "SUPERSEDED"
          /\ m > n => state[a][m] = "NONE"
      BY DEF TableInvariant, OnlyCurrentRevisionLives
    <3>2. "AWAITING_CONFIRMATION" \in WorkflowState \ {"SUPERSEDED"}
      BY DEF WorkflowState, NonTerminalStates
    <3> QED BY <1>1, <1>2, <1>3, <1>4, <1>6, <1>7, <2>2, <3>1, <3>2 DEF RevisionNo
  <2> QED BY <2>1, <2>2
<1>16. ActiveChallengeIsCurrent'
  <2>1. \A c \in ChallengeId :
          challenge[c].status = "ACTIVE" /\ challenge[c].action = a
            => challenge[c].revision = n
    BY DEF TableInvariant, ActiveChallengeIsCurrent, AuthorisesCurrent
  <2> QED BY <1>10, <1>11, <2>1, ChallengesSurvive
<1>17. KeepsIdentity
  <2> SUFFICES ASSUME NEW b \in ActionId
               PROVE  current_revision'[b] >= current_revision[b]
    BY <1>3 DEF KeepsIdentity
  <2>1. current_revision[b] \in 0 .. MaxRevision
    BY <1>0 DEF StoreTypeOK
  <2> QED BY <1>1, <1>7, <2>1, BoundAssumption
<1> QED BY <1>11, <1>12, <1>13, <1>14, <1>15, <1>16, <1>17, TablesSurvive

(* Normalising the expiry of an unlocked action.                           *)
LEMMA NormalizeTables ==
  ASSUME TableInvariant, NEW a \in ActionId, Exists(a), NormalizeExpiry(a),
         UNCHANGED <<lockVars, clockVars>>
  PROVE  TableInvariant' /\ Touches(a) /\ KeepsIdentity
<1>1. CASE Lapsed(a)
  <2>1. CurrentState(a) \in NonTerminalStates
    BY <1>1 DEF Lapsed, CurrentState, NonTerminalStates
  <2>2. Decides(a, "EXPIRED")
    BY <1>1 DEF NormalizeExpiry, Expire, Decides
  <2> QED BY <2>1, <2>2, DecidesTables
<1>2. CASE ~Lapsed(a)
  <2>1. UNCHANGED tableVars
    BY <1>2 DEF NormalizeExpiry
  <2>2. StoreTypeOK'
    BY <2>1 DEF TableInvariant, StoreTypeOK, tableVars, lockVars, clockVars
  <2>3. Touches(a)
    BY <2>1 DEF Touches, tableVars
  <2> QED BY <2>1, <2>2, <2>3, TablesUnchanged
<1> QED BY <1>1, <1>2

(* A handler of the employee's side keeps the whole invariant.             *)
LEMMA EmployeeStep ==
  ASSUME ControlInvariant, EmployeeFrame,
         NEW s \in Session, NEW a \in ActionId,
         \/ GetAction(s, a)
         \/ \E c \in ChallengeId : IssueChallenge(s, a, c)
         \/ \E c, token \in ChallengeId : Confirm(s, a, c, token)
         \/ Cancel(s, a)
         \/ \E expected \in RevisionNo, content \in Content :
              CreateRevision(s, a, expected, content)
  PROVE  ControlInvariant'
<1>0. TableInvariant /\ WorkerInvariant /\ PrepareInvariant
  BY InvariantParts
<1>1. LockOwnedRevision(s, a) /\ UNCHANGED <<lockVars, clockVars>>
  BY DEF GetAction, IssueChallenge, Confirm, Cancel, CreateRevision
<1>2. Exists(a) /\ RowsFree(a)
  BY <1>1 DEF LockOwnedRevision
<1>3. TableInvariant' /\ Touches(a) /\ KeepsIdentity
  <2>1. CASE GetAction(s, a)
    BY <1>0, <1>1, <1>2, <2>1, NormalizeTables DEF GetAction
  <2>2. CASE \E c \in ChallengeId : IssueChallenge(s, a, c)
    BY <1>0, <2>2, IssueTables
  <2>3. ASSUME NEW c \in ChallengeId, NEW token \in ChallengeId,
               Confirm(s, a, c, token)
        PROVE  TableInvariant' /\ Touches(a) /\ KeepsIdentity
    <3>1. CASE Accepts(s, a, c, token)
      BY <1>0, <1>1, <2>3, <3>1, ConsumeTables DEF Confirm
    <3>2. CASE ~Accepts(s, a, c, token)
      BY <1>0, <1>1, <1>2, <2>3, <3>2, NormalizeTables DEF Confirm
    <3> QED BY <3>1, <3>2
  <2>4. CASE Cancel(s, a)
    <3>1. CASE CurrentState(a) \in CancelableStates /\ ~Lapsed(a)
      <4>1. CurrentState(a) \in NonTerminalStates
        BY <3>1 DEF CancelableStates, NonTerminalStates
      <4>2. Decides(a, "CANCELLED")
        BY <2>4, <3>1 DEF Cancel, Withdraw, Decides
      <4> QED BY <1>0, <1>1, <1>2, <4>1, <4>2, DecidesTables
    <3>2. CASE ~(CurrentState(a) \in CancelableStates /\ ~Lapsed(a))
      <4>1. NormalizeExpiry(a)
        BY <2>4, <3>2 DEF Cancel
      <4> QED BY <1>0, <1>1, <1>2, <4>1, NormalizeTables
    <3> QED BY <3>1, <3>2
  <2>5. ASSUME NEW expected \in RevisionNo, NEW content \in Content,
               CreateRevision(s, a, expected, content)
        PROVE  TableInvariant' /\ Touches(a) /\ KeepsIdentity
    <3>1. CASE CurrentState(a) = "AWAITING_CONFIRMATION" /\ ~Lapsed(a)
      <4>1. Revise(a, content)
        BY <2>5, <3>1 DEF CreateRevision
      <4> QED BY <1>0, <1>1, <1>2, <3>1, <4>1, ReviseTables
    <3>2. CASE ~(CurrentState(a) = "AWAITING_CONFIRMATION" /\ ~Lapsed(a))
      <4>1. NormalizeExpiry(a)
        BY <2>5, <3>2 DEF CreateRevision
      <4> QED BY <1>0, <1>1, <1>2, <4>1, NormalizeTables
    <3> QED BY <3>1, <3>2
  <2> QED BY <2>1, <2>2, <2>3, <2>4, <2>5
<1>4. WorkerInvariant'
  BY <1>0, <1>1, <1>2, <1>3, WorkersUndisturbed DEF EmployeeFrame
<1>5. PrepareInvariant'
  BY <1>0, <1>3, PrepareUndisturbed DEF EmployeeFrame, TableInvariant
<1> QED BY <1>3, <1>4, <1>5, InvariantParts

-----------------------------------------------------------------------------
(* PREPARE.                                                                *)

(* The tables after PREPARE inserted a new action under a key nobody held. *)
LEMMA InsertTables ==
  ASSUME TableInvariant, NEW a \in ActionId, ~Exists(a),
         NEW k \in RequestKey, NEW d \in DraftPayload, Occupying(k) = {},
         current_revision' = [current_revision EXCEPT ![a] = 1],
         business_request_key' = [business_request_key EXCEPT ![a] = k],
         Enter(a, 1, "AWAITING_CONFIRMATION"),
         draft' = [draft EXCEPT ![a][1] = d],
         action_expires_at' = [action_expires_at EXCEPT ![a][1] = now + ActionTTL],
         UNCHANGED <<confirmed_expires_at, challenge, business_rows,
                     lockVars, clockVars>>
  PROVE  TableInvariant' /\ Touches(a) /\ KeepsIdentity
<1>0. StoreTypeOK
  BY DEF TableInvariant
<1>1. /\ 1 \in RevisionNo
      /\ current_revision[a] = 0
      /\ \A m \in RevisionNo : m > 0 /\ state[a][m] = "NONE"
  <2>1. 1 \in RevisionNo /\ \A m \in RevisionNo : m > 0
    BY BoundAssumption DEF RevisionNo
  <2>2. current_revision[a] = 0
    BY <1>0, BoundAssumption DEF StoreTypeOK, Exists
  <2> QED BY <2>1, <2>2 DEF TableInvariant, OnlyCurrentRevisionLives
<1>2. "AWAITING_CONFIRMATION" \in WorkflowState \ {"SUPERSEDED"}
  BY DEF WorkflowState, NonTerminalStates
<1>3. /\ state' \in [ActionId -> [RevisionNo -> WorkflowState \cup {"NONE"}]]
      /\ audit' \subseteq AuditEvent
      /\ state'[a][1] = "AWAITING_CONFIRMATION"
      /\ \A m \in RevisionNo : m # 1 => state'[a][m] = state[a][m]
      /\ \A b \in ActionId : b # a => state'[b] = state[b]
  BY <1>0, <1>1, <1>2, EnterEffect
<1>4. /\ current_revision' \in [ActionId -> 0 .. MaxRevision]
      /\ current_revision'[a] = 1
      /\ \A b \in ActionId : b # a => current_revision'[b] = current_revision[b]
  BY <1>0, <1>1, BoundAssumption DEF StoreTypeOK
<1>5. /\ business_request_key' \in [ActionId -> RequestKey \cup {NoKey}]
      /\ business_request_key'[a] = k
      /\ \A b \in ActionId :
           b # a => business_request_key'[b] = business_request_key[b]
  BY <1>0 DEF StoreTypeOK
<1>6. /\ draft' \in [ActionId -> [RevisionNo -> DraftPayload \cup {NoDraft}]]
      /\ draft'[a][1] = d
      /\ \A b \in ActionId : b # a => draft'[b] = draft[b]
  BY <1>0, <1>1 DEF StoreTypeOK
<1>7. action_expires_at' \in [ActionId -> [RevisionNo -> Nat]]
  <2>1. now + ActionTTL \in Nat
    BY <1>0, TTLAssumption, BoundAssumption DEF StoreTypeOK
  <2> QED BY <1>0, <1>1, <2>1 DEF StoreTypeOK
<1>8. Touches(a)
  BY <1>3, <1>4, <1>5, <1>6 DEF Touches
<1>9. KeepsConsent(a)
  BY <1>1 DEF KeepsConsent, Exists
<1>10. KeepsLifeCycle(a)
  <2>1. ASSUME NEW m \in RevisionNo
        PROVE  /\ state[a][m] # "SUCCEEDED"
               /\ state'[a][m] # "SUCCEEDED"
               /\ state'[a][m] # "CONFIRMED"
               /\ state'[a][m] \in OccupyingStates => m = 1
    BY <1>1, <1>3 DEF OccupyingStates
  <2> QED BY <1>5, <2>1 DEF KeepsLifeCycle
<1>11. StoreTypeOK'
  BY <1>0, <1>3, <1>4, <1>5, <1>6, <1>7 DEF StoreTypeOK, lockVars, clockVars
<1>12. OnlyCurrentRevisionLives'
  <2> SUFFICES ASSUME NEW b \in ActionId, NEW m \in RevisionNo
               PROVE  /\ m < current_revision'[b] => state'[b][m] = "SUPERSEDED"
                      /\ m = current_revision'[b] =>
                           /\ state'[b][m] \in WorkflowState \ {"SUPERSEDED"}
                           /\ draft'[b][m] \in DraftPayload
                           /\ business_request_key'[b] \in RequestKey
                      /\ m > current_revision'[b] => state'[b][m] = "NONE"
    BY DEF OnlyCurrentRevisionLives
  <2>1. CASE b # a
    BY <1>3, <1>4, <1>5, <1>6, <2>1 DEF TableInvariant, OnlyCurrentRevisionLives
  <2>2. CASE b = a
    BY <1>1, <1>2, <1>3, <1>4, <1>5, <1>6, <2>2, BoundAssumption DEF RevisionNo
  <2> QED BY <2>1, <2>2
<1>13. ActiveChallengeIsCurrent'
  <2>1. \A c \in ChallengeId :
          challenge[c].status = "ACTIVE" => challenge[c].action # a
    BY <1>1 DEF TableInvariant, ActiveChallengeIsCurrent, AuthorisesCurrent
  <2> QED BY <1>8, <2>1, ChallengesSurvive
<1>14. KeepsIdentity
  <2> SUFFICES ASSUME NEW b \in ActionId, Exists(b)
               PROVE  /\ current_revision'[b] >= current_revision[b]
                      /\ business_request_key'[b] = business_request_key[b]
    BY DEF KeepsIdentity
  <2>1. b # a /\ current_revision[b] \in 0 .. MaxRevision
    BY <1>0 DEF StoreTypeOK
  <2> QED BY <1>4, <1>5, <2>1, BoundAssumption
<1> QED BY <1>8, <1>9, <1>10, <1>11, <1>12, <1>13, <1>14, TablesSurvive

(* What is said of the calls follows from the call that moves, once the    *)
(* actions keep their identity.                                            *)
CallCarries(p) ==
  /\ prepare[p] \in PrepareCall
  /\ prepare[p].stage \in ActiveStages =>
       /\ prepare[p].key \in RequestKey
       /\ prepare[p].draft \in DraftPayload
       /\ prepare[p].attempt > 0
  /\ prepare[p].stage = "lock" =>
       LET a == prepare[p].action
       IN  /\ a \in ActionId
           /\ prepare[p].revision \in 1 .. current_revision[a]
           /\ business_request_key[a] = prepare[p].key

(* The calls after a step of one of them.                                  *)
LEMMA CallsCarry ==
  ASSUME PrepareInvariant, TableInvariant, StoreTypeOK', KeepsIdentity,
         NEW p \in Preparer,
         prepare' = [prepare EXCEPT ![p] = prepare'[p]], CallCarries(p)'
  PROVE  PrepareInvariant'
<1>1. \A q \in Preparer : q # p => prepare'[q] = prepare[q]
  BY DEF PrepareInvariant, PrepareTypeOK
<1>2. PrepareTypeOK'
  BY DEF PrepareInvariant, PrepareTypeOK, CallCarries
<1>3. PrepareCarries'
  <2> SUFFICES ASSUME NEW q \in Preparer
               PROVE  CallCarries(q)'
    BY DEF PrepareCarries, CallCarries
  <2>1. CASE q = p
    BY <2>1
  <2>2. CASE q # p
    <3>1. prepare'[q] = prepare[q] /\ CallCarries(q)
      BY <1>1, <2>2 DEF PrepareInvariant, PrepareTypeOK, PrepareCarries, CallCarries
    <3>2. CASE prepare[q].stage # "lock"
      BY <3>1, <3>2 DEF CallCarries
    <3>3. CASE prepare[q].stage = "lock"
      <4> DEFINE a == prepare[q].action
      <4>1. /\ a \in ActionId
            /\ prepare[q].revision \in 1 .. current_revision[a]
            /\ business_request_key[a] = prepare[q].key
        BY <3>1, <3>3 DEF CallCarries
      <4>2. /\ current_revision[a] \in 0 .. MaxRevision
            /\ current_revision'[a] \in 0 .. MaxRevision
        BY <4>1 DEF TableInvariant, StoreTypeOK
      <4>3. Exists(a)
        BY <4>1, <4>2, BoundAssumption DEF Exists
      <4>4. /\ prepare[q].revision \in 1 .. current_revision'[a]
            /\ business_request_key'[a] = prepare[q].key
        BY <4>1, <4>2, <4>3, BoundAssumption DEF KeepsIdentity
      <4> QED BY <3>1, <4>1, <4>4 DEF CallCarries
    <3> QED BY <3>2, <3>3
  <2> QED BY <2>1, <2>2
<1> QED BY <1>2, <1>3 DEF PrepareInvariant

(* The two ways a stage of a call may end.                                 *)
LEMMA NextAttemptCarries ==
  ASSUME PrepareInvariant, NEW p \in Preparer,
         prepare[p].stage \in ActiveStages, NextAttempt(p)
  PROVE  /\ prepare' = [prepare EXCEPT ![p] = prepare'[p]]
         /\ CallCarries(p)'
<1>1. /\ prepare \in [Preparer -> PrepareCall]
      /\ prepare[p] \in PrepareCall
      /\ prepare[p].key \in RequestKey
      /\ prepare[p].draft \in DraftPayload
      /\ prepare[p].attempt > 0
  BY DEF PrepareInvariant, PrepareTypeOK, PrepareCarries
<1>2. CASE prepare[p].attempt < PREPARE_CONTENTION_ATTEMPTS
  <2>1. prepare' = [prepare EXCEPT ![p].stage = "insert", ![p].attempt = @ + 1]
    BY <1>2 DEF NextAttempt
  <2>2. prepare'[p] = [prepare[p] EXCEPT !.stage = "insert",
                                         !.attempt = prepare[p].attempt + 1]
    BY <1>1, <2>1
  <2>3. prepare[p].attempt + 1 \in 0 .. PREPARE_CONTENTION_ATTEMPTS
    BY <1>1, <1>2 DEF PrepareCall, PREPARE_CONTENTION_ATTEMPTS
  <2>4. /\ prepare'[p] \in PrepareCall
        /\ prepare'[p].stage = "insert"
        /\ prepare'[p].key = prepare[p].key
        /\ prepare'[p].draft = prepare[p].draft
        /\ prepare'[p].attempt = prepare[p].attempt + 1
    BY <1>1, <2>2, <2>3 DEF PrepareCall, ActiveStages
  <2>5. prepare'[p].attempt > 0
    BY <1>1, <2>4 DEF PrepareCall, PREPARE_CONTENTION_ATTEMPTS
  <2> QED BY <1>1, <2>1, <2>2, <2>4, <2>5 DEF CallCarries
<1>3. CASE ~(prepare[p].attempt < PREPARE_CONTENTION_ATTEMPTS)
  <2>1. prepare' = [prepare EXCEPT ![p].stage = "RETRYABLE_CONFLICT"]
    BY <1>3 DEF NextAttempt
  <2>2. prepare'[p] = [prepare[p] EXCEPT !.stage = "RETRYABLE_CONFLICT"]
    BY <1>1, <2>1
  <2>3. /\ prepare'[p] \in PrepareCall
        /\ prepare'[p].stage = "RETRYABLE_CONFLICT"
    BY <1>1, <2>2 DEF PrepareCall, Dispositions
  <2> QED BY <1>1, <2>1, <2>2, <2>3 DEF CallCarries, ActiveStages
<1> QED BY <1>2, <1>3

(* A call that returns carries nothing any more.                           *)
LEMMA ReturnCarries ==
  ASSUME PrepareInvariant, NEW p \in Preparer,
         NEW disposition \in Dispositions, Return(p, disposition)
  PROVE  /\ prepare' = [prepare EXCEPT ![p] = prepare'[p]]
         /\ CallCarries(p)'
<1>1. prepare \in [Preparer -> PrepareCall]
  BY DEF PrepareInvariant, PrepareTypeOK
<1>2. prepare'[p] = [prepare[p] EXCEPT !.stage = disposition]
  BY <1>1 DEF Return
<1>3. /\ prepare'[p] \in PrepareCall
      /\ prepare'[p].stage = disposition
  BY <1>1, <1>2 DEF PrepareCall
<1>4. disposition \notin ActiveStages /\ disposition # "lock"
  BY DEF Dispositions, ActiveStages
<1> QED BY <1>1, <1>2, <1>3, <1>4 DEF CallCarries, Return

(* Nothing the worker's transactions are about has changed.                *)
LEMMA WorkersUnchanged ==
  ASSUME WorkerInvariant, UNCHANGED <<tableVars, lockVars, workerVars>>
  PROVE  WorkerInvariant'
<1> USE DEF tableVars, lockVars, workerVars
<1>1. WorkerTypeOK' /\ PendingWriteIsWhole'
  BY DEF WorkerInvariant, WorkerTypeOK, PendingWriteIsWhole
<1>2. LocksProtectJob'
  BY DEF WorkerInvariant, LocksProtectJob, Exists, CurrentState, OwnerOf
<1>3. RevalidationStaysTrue'
  BY DEF WorkerInvariant, RevalidationStaysTrue, Foreign, LeaveRows, OwnerOf
<1> QED BY <1>1, <1>2, <1>3 DEF WorkerInvariant

(* A step that only moves a call.                                          *)
LEMMA CallMoves ==
  ASSUME ControlInvariant, NEW p \in Preparer, UNCHANGED tableVars,
         PrepareFrame, prepare' = [prepare EXCEPT ![p] = prepare'[p]],
         CallCarries(p)'
  PROVE  ControlInvariant'
<1>1. TableInvariant /\ WorkerInvariant /\ PrepareInvariant
  BY InvariantParts
<1>2. StoreTypeOK'
  BY <1>1
  DEF TableInvariant, StoreTypeOK, PrepareFrame, tableVars, lockVars, clockVars
<1>3. TableInvariant' /\ KeepsIdentity
  BY <1>1, <1>2, TablesUnchanged
<1>4. PrepareInvariant'
  BY <1>1, <1>2, <1>3, CallsCarry
<1>5. WorkerInvariant'
  BY <1>1, WorkersUnchanged DEF PrepareFrame
<1> QED BY <1>3, <1>4, <1>5, InvariantParts

(* A step that moves a call and changes the action it found.               *)
LEMMA CallChanges ==
  ASSUME ControlInvariant, NEW p \in Preparer, NEW a \in ActionId, RowsFree(a),
         PrepareFrame, TableInvariant', Touches(a), KeepsIdentity,
         prepare' = [prepare EXCEPT ![p] = prepare'[p]], CallCarries(p)'
  PROVE  ControlInvariant'
<1>1. TableInvariant /\ WorkerInvariant /\ PrepareInvariant
  BY InvariantParts
<1>2. StoreTypeOK'
  BY DEF TableInvariant
<1>3. PrepareInvariant'
  BY <1>1, <1>2, CallsCarry
<1>4. WorkerInvariant'
  BY <1>1, WorkersUndisturbed DEF PrepareFrame
<1> QED BY <1>3, <1>4, InvariantParts

(* A PREPARE call starts.                                                  *)
LEMMA StartPrepareStep ==
  ASSUME ControlInvariant, PrepareFrame, NEW p \in Preparer,
         NEW k \in RequestKey, NEW content \in Content,
         StartPrepare(p, k, content)
  PROVE  ControlInvariant'
<1>1. prepare \in [Preparer -> PrepareCall] /\ StoreTypeOK
  BY DEF ControlInvariant, TypeOK, PrepareTypeOK
<1>2. LiveDraft(k, content) \in DraftPayload
  BY <1>1, LiveDraftType
<1>3. prepare'[p] = [stage |-> "insert", key |-> k,
                     draft |-> LiveDraft(k, content), attempt |-> 1,
                     action |-> NoAction, revision |-> 0]
  BY <1>1 DEF StartPrepare
<1>4. prepare'[p] \in PrepareCall
  BY <1>2, <1>3, BoundAssumption
  DEF PrepareCall, ActiveStages, PREPARE_CONTENTION_ATTEMPTS
<1>5. CallCarries(p)'
  BY <1>2, <1>3, <1>4 DEF CallCarries
<1>6. prepare' = [prepare EXCEPT ![p] = prepare'[p]] /\ UNCHANGED tableVars
  BY <1>1 DEF StartPrepare
<1> QED BY <1>5, <1>6, CallMoves

(* The insert succeeds or meets an occupant.                               *)
LEMMA AttemptInsertStep ==
  ASSUME ControlInvariant, PrepareFrame, NEW p \in Preparer, AttemptInsert(p)
  PROVE  ControlInvariant'
<1> DEFINE k == prepare[p].key
<1>1. /\ prepare \in [Preparer -> PrepareCall]
      /\ prepare[p] \in PrepareCall
      /\ k \in RequestKey
      /\ prepare[p].draft \in DraftPayload
      /\ prepare[p].attempt > 0
  BY DEF ControlInvariant, TypeOK, PrepareTypeOK, PrepareCarries,
         AttemptInsert, ActiveStages
<1>2. CASE Occupying(k) # {}
  <2>1. prepare' = [prepare EXCEPT ![p].stage = "resolve"] /\ UNCHANGED tableVars
    BY <1>2 DEF AttemptInsert
  <2>2. prepare'[p] = [prepare[p] EXCEPT !.stage = "resolve"]
    BY <1>1, <2>1
  <2>3. CallCarries(p)'
    BY <1>1, <2>2 DEF CallCarries, PrepareCall, ActiveStages
  <2>4. prepare' = [prepare EXCEPT ![p] = prepare'[p]]
    BY <1>1, <2>1, <2>2
  <2> QED BY <2>1, <2>3, <2>4, CallMoves
<1>3. CASE Occupying(k) = {}
  <2>1. PICK a \in UnusedIds :
          /\ current_revision' = [current_revision EXCEPT ![a] = 1]
          /\ business_request_key' = [business_request_key EXCEPT ![a] = k]
          /\ Enter(a, 1, "AWAITING_CONFIRMATION")
          /\ draft' = [draft EXCEPT ![a][1] = prepare[p].draft]
          /\ action_expires_at' =
               [action_expires_at EXCEPT ![a][1] = now + ActionTTL]
          /\ prepare' = [prepare EXCEPT ![p].stage = "CREATED",
               ![p].action = a, ![p].revision = 1]
          /\ UNCHANGED <<confirmed_expires_at, challenge, business_rows>>
    BY <1>3 DEF AttemptInsert
  <2>2. a \in ActionId /\ ~Exists(a)
    BY DEF UnusedIds
  <2>3. TableInvariant' /\ Touches(a) /\ KeepsIdentity
    <3>1. TableInvariant
      BY InvariantParts
    <3> QED BY <1>1, <1>3, <2>1, <2>2, <3>1, InsertTables DEF PrepareFrame
  <2>4. RowsFree(a)
    BY <2>2, NullAssumption
    DEF ControlInvariant, LocksProtectJob, RowsFree, TypeOK, StoreTypeOK
  <2>5. prepare'[p] = [prepare[p] EXCEPT !.stage = "CREATED", !.action = a,
                                         !.revision = 1]
    BY <1>1, <2>1
  <2>6. /\ prepare'[p] \in PrepareCall
        /\ prepare'[p].stage = "CREATED"
    <3>1. 1 \in 0 .. MaxRevision
      BY BoundAssumption
    <3>2. "CREATED" \in Dispositions
      BY DEF Dispositions
    <3> QED BY <1>1, <2>2, <2>5, <3>1, <3>2 DEF PrepareCall
  <2>7. CallCarries(p)'
    BY <2>6 DEF CallCarries, ActiveStages
  <2>8. prepare' = [prepare EXCEPT ![p] = prepare'[p]]
    BY <1>1, <2>1, <2>5
  <2> QED BY <2>2, <2>3, <2>4, <2>7, <2>8, CallChanges
<1> QED BY <1>2, <1>3

(* The occupant is looked up, or has gone.                                 *)
LEMMA FindOccupantStep ==
  ASSUME ControlInvariant, PrepareFrame, NEW p \in Preparer, FindOccupant(p)
  PROVE  ControlInvariant'
<1> DEFINE k == prepare[p].key
<1>1. /\ TableInvariant
      /\ PrepareInvariant
      /\ UNCHANGED tableVars
      /\ prepare[p].stage \in ActiveStages
  BY InvariantParts DEF FindOccupant, ActiveStages
<1>2. CASE NextAttempt(p)
  BY <1>1, <1>2, NextAttemptCarries, CallMoves
<1>3. ASSUME NEW a \in ActionId, NEW n \in RevisionNo,
             business_request_key[a] = k,
             state[a][n] \in OccupyingStates,
             prepare' = [prepare EXCEPT ![p].stage = "lock",
               ![p].action = a, ![p].revision = n]
      PROVE  ControlInvariant'
  <2>1. n \in 1 .. current_revision[a] /\ n \in 0 .. MaxRevision
    <3>1. n <= current_revision[a]
      BY <1>1, <1>3, LivesOnlyIfExists DEF OccupyingStates
    <3>2. current_revision[a] \in 0 .. MaxRevision
      BY <1>1 DEF TableInvariant, StoreTypeOK
    <3> QED BY <3>1, <3>2, BoundAssumption DEF RevisionNo
  <2>2. /\ prepare \in [Preparer -> PrepareCall]
        /\ prepare[p] \in PrepareCall
        /\ prepare[p].key \in RequestKey
        /\ prepare[p].draft \in DraftPayload
        /\ prepare[p].attempt > 0
    BY <1>1 DEF PrepareInvariant, PrepareTypeOK, PrepareCarries
  <2>3. prepare'[p] = [prepare[p] EXCEPT !.stage = "lock", !.action = a,
                                         !.revision = n]
    BY <1>3, <2>2
  <2>4. /\ prepare'[p] \in PrepareCall
        /\ prepare'[p].key = prepare[p].key
        /\ prepare'[p].draft = prepare[p].draft
        /\ prepare'[p].attempt = prepare[p].attempt
        /\ prepare'[p].action = a
        /\ prepare'[p].revision = n
    <3>1. "lock" \in ActiveStages
      BY DEF ActiveStages
    <3> QED BY <2>1, <2>2, <2>3, <3>1 DEF PrepareCall
  <2>5. CallCarries(p)'
    BY <1>1, <1>3, <2>1, <2>2, <2>4 DEF CallCarries, tableVars
  <2>6. prepare' = [prepare EXCEPT ![p] = prepare'[p]]
    BY <1>3, <2>2, <2>3
  <2> QED BY <1>1, <2>5, <2>6, CallMoves
<1>4. ASSUME NEW an \in Occupying(k),
             prepare' = [prepare EXCEPT ![p].stage = "lock",
               ![p].action = an[1], ![p].revision = an[2]]
      PROVE  ControlInvariant'
  <2>1. /\ an[1] \in ActionId
        /\ an[2] \in RevisionNo
        /\ business_request_key[an[1]] = k
        /\ state[an[1]][an[2]] \in OccupyingStates
    BY DEF Occupying
  <2> QED BY <1>3, <1>4, <2>1
<1> QED BY <1>2, <1>4 DEF FindOccupant

(* The occupant is locked and reused, returned, expired, or has gone.      *)
LEMMA ResolveOccupantStep ==
  ASSUME ControlInvariant, PrepareFrame, NEW p \in Preparer, ResolveOccupant(p)
  PROVE  ControlInvariant'
<1> DEFINE a == prepare[p].action
           n == prepare[p].revision
<1>1. /\ TableInvariant
      /\ PrepareInvariant
      /\ prepare[p].stage = "lock"
      /\ prepare[p].stage \in ActiveStages
      /\ RowsFree(a)
  BY InvariantParts DEF ResolveOccupant, ActiveStages
<1>2. a \in ActionId /\ n \in 1 .. current_revision[a]
  BY <1>1 DEF PrepareInvariant, PrepareCarries
<1>3. CASE UNCHANGED tableVars
  <2>1. CASE NextAttempt(p)
    BY <1>1, <1>3, <2>1, NextAttemptCarries, CallMoves
  <2>2. CASE \E disposition \in Dispositions : Return(p, disposition)
    BY <1>1, <1>3, <2>2, ReturnCarries, CallMoves
  <2> QED BY <2>1, <2>2 DEF ResolveOccupant, Dispositions
<1>4. CASE state[a][n] \in NonTerminalStates /\ Expire(a) /\ NextAttempt(p)
  <2>1. Exists(a) /\ n \in RevisionNo
    <3>1. current_revision[a] \in 0 .. MaxRevision
      BY <1>1, <1>2 DEF TableInvariant, StoreTypeOK
    <3> QED BY <1>2, <3>1, BoundAssumption DEF Exists, RevisionNo
  <2>2. n = current_revision[a]
    BY <1>1, <1>2, <1>4, <2>1, LivesOnlyIfExists DEF NonTerminalStates
  <2>3. CurrentState(a) \in NonTerminalStates
    BY <1>4, <2>2 DEF CurrentState
  <2>4. Decides(a, "EXPIRED")
    BY <1>4 DEF Expire, Decides
  <2>5. TableInvariant' /\ Touches(a) /\ KeepsIdentity
    BY <1>1, <1>2, <2>1, <2>3, <2>4, DecidesTables DEF PrepareFrame
  <2> HIDE DEF a
  <2>6. /\ prepare' = [prepare EXCEPT ![p] = prepare'[p]]
        /\ CallCarries(p)'
    BY <1>1, <1>4, NextAttemptCarries
  <2> QED BY <1>1, <1>2, <2>5, <2>6, CallChanges
<1> QED BY <1>3, <1>4 DEF ResolveOccupant

-----------------------------------------------------------------------------
(* The worker.                                                             *)

(* What is said of one worker, and of the locks.                           *)
WorkerHolds(w) ==
  LET a == job[w]
      r == pending_row[w]
      leave == /\ phase[w] = "locked" \/ r # NoRow
               /\ business_request_key[a] \in LeaveKey
  IN  /\ phase[w] \in OpenPhases =>
           /\ a \in ActionId
           /\ row_lock[a] = w
           /\ Exists(a)
           /\ CurrentState(a) = "CONFIRMED"
           /\ leave => employee_lock[OwnerOf(a)] = w
      /\ phase[w] = "observing" => a \in ActionId
      /\ phase[w] \in {"flushed", "in_doubt"} =>
           /\ uncommitted[a] \in TerminalStates \ {"SUPERSEDED", "CANCELLED"}
           /\ uncommitted[a] = "SUCCEEDED" <=> r # NoRow
      /\ phase[w] \in {"claimed", "waiting", "locked"} => uncommitted[a] = "NONE"
      /\ phase[w] \notin {"flushed", "in_doubt"} => r = NoRow
      /\ r # NoRow =>
           /\ r.action = a
           /\ r.revision = current_revision[a]
           /\ r.key = business_request_key[a]
           /\ r.draft = draft[a][current_revision[a]]
           /\ r.at < confirmed_expires_at[a][current_revision[a]]
      /\ leave => Foreign(a) = {}

LocksBelong ==
  /\ \A a \in ActionId : row_lock[a] # Nobody =>
       phase[row_lock[a]] \in OpenPhases /\ job[row_lock[a]] = a
  /\ \A a \in ActionId : uncommitted[a] # "NONE" => row_lock[a] # Nobody
  /\ \A e \in Owner : employee_lock[e] # Nobody =>
       phase[employee_lock[e]] \in {"locked", "flushed", "in_doubt"}

(* The worker's part of the invariant, worker by worker.                   *)
LEMMA WorkerParts ==
  /\ WorkerInvariant <=>
       WorkerTypeOK /\ (\A w \in Worker : WorkerHolds(w)) /\ LocksBelong
  /\ WorkerInvariant' <=>
       WorkerTypeOK' /\ (\A w \in Worker : WorkerHolds(w)') /\ LocksBelong'
<1>1. WorkerInvariant <=>
        WorkerTypeOK /\ (\A w \in Worker : WorkerHolds(w)) /\ LocksBelong
  BY DEF WorkerInvariant, LocksProtectJob, PendingWriteIsWhole,
         RevalidationStaysTrue, WorkerHolds, LocksBelong
<1>2. WorkerInvariant' <=>
        WorkerTypeOK' /\ (\A w \in Worker : WorkerHolds(w)') /\ LocksBelong'
  BY DEF WorkerInvariant, LocksProtectJob, PendingWriteIsWhole,
         RevalidationStaysTrue, WorkerHolds, LocksBelong
<1> QED BY <1>1, <1>2

(* An open transaction has its job to itself.                              *)
LEMMA JobHeld ==
  ASSUME TableInvariant, WorkerInvariant, NEW w \in Worker,
         phase[w] \in OpenPhases
  PROVE  LET a == job[w]
             n == current_revision[a]
         IN  /\ a \in ActionId
             /\ n \in RevisionNo
             /\ row_lock[a] = w
             /\ Exists(a)
             /\ state[a][n] = "CONFIRMED"
             /\ draft[a][n] \in DraftPayload
             /\ business_request_key[a] \in RequestKey
             /\ OwnerOf(a) \in Owner
             /\ \A v \in Worker : v # w /\ phase[v] \in OpenPhases => job[v] # a
<1> DEFINE a == job[w]
           n == current_revision[a]
<1>1. /\ a \in ActionId
      /\ row_lock[a] = w
      /\ Exists(a)
      /\ state[a][n] = "CONFIRMED"
      /\ \A v \in Worker : phase[v] \in OpenPhases => row_lock[job[v]] = v
  BY DEF WorkerInvariant, LocksProtectJob, CurrentState
<1>2. n \in RevisionNo
  BY <1>1, CurrentIsRevision DEF TableInvariant
<1>3. draft[a][n] \in DraftPayload /\ business_request_key[a] \in RequestKey
  BY <1>1, <1>2 DEF TableInvariant, OnlyCurrentRevisionLives
<1>4. OwnerOf(a) \in Owner
  BY <1>3, RequestAssumption DEF OwnerOf
<1> QED BY <1>1, <1>2, <1>3, <1>4

(* Nothing has been carried out for the request of a transaction's job.    *)
LEMMA NothingExists ==
  ASSUME TableInvariant, WorkerInvariant, NEW w \in Worker,
         phase[w] \in OpenPhases
  PROVE  /\ \A r \in business_rows :
              r.action # job[w] /\ r.key # business_request_key[job[w]]
         /\ Existing(job[w]) = {}
<1> DEFINE a == job[w]
           n == current_revision[a]
<1>1. a \in ActionId /\ n \in RevisionNo /\ state[a][n] = "CONFIRMED"
  BY JobHeld
<1>2. ASSUME NEW r \in business_rows
      PROVE  r.action # a /\ r.key # business_request_key[a]
  <2>1. /\ r.action \in ActionId
        /\ r.revision \in RevisionNo
        /\ state[r.action][r.revision] = "SUCCEEDED"
        /\ r.key = business_request_key[r.action]
    BY DEF TableInvariant, StoreTypeOK, BusinessRow, RowIffSucceeded,
           ExecutedAsConfirmed
  <2>2. ~(r.action = a /\ r.revision = n)
    BY <1>1, <2>1
  <2> QED BY <1>1, <2>1, <2>2
      DEF TableInvariant, OneOccupantPerRequest, OccupyingStates
<1> QED BY <1>2 DEF Existing

(* A transaction stays what it was when a step leaves alone its phase, its *)
(* job's rows, its locks, and the employee's other leave.                  *)
LEMMA OtherWorker ==
  ASSUME NEW w \in Worker, WorkerHolds(w),
         phase'[w] = phase[w], job'[w] = job[w], pending_row'[w] = pending_row[w],
         phase[w] \in OpenPhases =>
           /\ row_lock'[job[w]] = row_lock[job[w]]
           /\ uncommitted'[job[w]] = uncommitted[job[w]]
           /\ state'[job[w]] = state[job[w]]
           /\ employee_lock[OwnerOf(job[w])] = w =>
                employee_lock'[OwnerOf(job[w])] = w,
         UNCHANGED <<current_revision, business_request_key, draft,
                     confirmed_expires_at>>,
         /\ phase[w] = "locked" \/ pending_row[w] # NoRow
         /\ business_request_key[job[w]] \in LeaveKey
         => Foreign(job[w])' = {}
  PROVE  WorkerHolds(w)'
BY DEF WorkerHolds, Exists, CurrentState, OwnerOf, OpenPhases

(* A worker's step that leaves the tables alone.                           *)
LEMMA WorkerMoves ==
  ASSUME ControlInvariant, WorkerFrame, UNCHANGED <<tableVars, clockVars>>,
         row_lock' \in [ActionId -> Worker \cup {Nobody}],
         employee_lock' \in [Owner -> Worker \cup {Nobody}],
         uncommitted' \in [ActionId -> TerminalStates \cup {"NONE"}],
         WorkerInvariant'
  PROVE  ControlInvariant'
<1>1. TableInvariant /\ PrepareInvariant
  BY InvariantParts
<1>2. StoreTypeOK'
  BY <1>1 DEF TableInvariant, StoreTypeOK, tableVars, clockVars
<1>3. TableInvariant' /\ KeepsIdentity
  BY <1>1, <1>2, TablesUnchanged
<1>4. PrepareInvariant'
  BY <1>1, <1>2, <1>3, PrepareUndisturbed DEF WorkerFrame
<1> QED BY <1>3, <1>4, InvariantParts

(* A statement inside an open transaction: it may take the employee's      *)
(* lock, write the job's decision and go on to another open phase.         *)
LEMMA TransactionStep ==
  ASSUME ControlInvariant, WorkerFrame, NEW w \in Worker,
         phase[w] \in OpenPhases,
         UNCHANGED <<tableVars, clockVars, row_lock, job>>,
         phase' = [phase EXCEPT ![w] = phase'[w]],
         pending_row' = [pending_row EXCEPT ![w] = pending_row'[w]],
         uncommitted' = [uncommitted EXCEPT ![job[w]] = uncommitted'[job[w]]],
         \/ UNCHANGED employee_lock /\ phase[w] \notin {"locked", "flushed", "in_doubt"}
         \/ /\ UNCHANGED employee_lock
            /\ phase'[w] \in {"locked", "flushed", "in_doubt"}
         \/ /\ AcquireEmployeeLock(w, OwnerOf(job[w]))
            /\ phase'[w] \in {"locked", "flushed", "in_doubt"},
         faults' \in 0 .. MaxFaults,
         phase'[w] \in OpenPhases,
         pending_row'[w] \in BusinessRow \cup {NoRow},
         uncommitted'[job[w]] \in TerminalStates \cup {"NONE"},
         WorkerHolds(w)'
  PROVE  ControlInvariant'
<1> DEFINE a == job[w]
<1>1. /\ TableInvariant
      /\ StoreTypeOK
      /\ WorkerInvariant
      /\ WorkerTypeOK
      /\ LocksBelong
      /\ \A v \in Worker : WorkerHolds(v)
  BY InvariantParts, WorkerParts DEF TableInvariant
<1>2. /\ a \in ActionId
      /\ row_lock[a] = w
      /\ OwnerOf(a) \in Owner
      /\ \A v \in Worker : v # w /\ phase[v] \in OpenPhases => job[v] # a
  BY <1>1, JobHeld
<1>3. /\ phase' \in [Worker -> WorkerPhase]
      /\ \A v \in Worker : v # w =>
           phase'[v] = phase[v] /\ pending_row'[v] = pending_row[v]
      /\ pending_row' \in [Worker -> BusinessRow \cup {NoRow}]
      /\ uncommitted' \in [ActionId -> TerminalStates \cup {"NONE"}]
      /\ \A b \in ActionId : b # a => uncommitted'[b] = uncommitted[b]
  <2>1. phase'[w] \in WorkerPhase
    BY DEF OpenPhases, WorkerPhase
  <2>2. /\ phase' \in [Worker -> WorkerPhase]
        /\ \A v \in Worker : v # w => phase'[v] = phase[v]
    BY <1>1, <2>1 DEF WorkerTypeOK
  <2>3. /\ pending_row' \in [Worker -> BusinessRow \cup {NoRow}]
        /\ \A v \in Worker : v # w => pending_row'[v] = pending_row[v]
    BY <1>1 DEF WorkerTypeOK
  <2>4. /\ uncommitted' \in [ActionId -> TerminalStates \cup {"NONE"}]
        /\ \A b \in ActionId : b # a => uncommitted'[b] = uncommitted[b]
    BY <1>1, <1>2 DEF StoreTypeOK
  <2> QED BY <2>2, <2>3, <2>4
<1>4. /\ employee_lock' \in [Owner -> Worker \cup {Nobody}]
      /\ \A e \in Owner : employee_lock'[e] # employee_lock[e] =>
           /\ employee_lock[e] = Nobody
           /\ employee_lock'[e] = w
           /\ phase'[w] \in {"locked", "flushed", "in_doubt"}
      /\ \A e \in Owner : employee_lock[e] = w =>
           phase'[w] \in {"locked", "flushed", "in_doubt"}
  BY <1>1, <1>2, NullAssumption DEF StoreTypeOK, AcquireEmployeeLock, LocksBelong
<1>5. WorkerTypeOK'
  BY <1>1, <1>3 DEF WorkerTypeOK
<1>6. ASSUME NEW v \in Worker, v # w
      PROVE  WorkerHolds(v)'
  <2>1. phase[v] \in OpenPhases => job[v] \in ActionId /\ job[v] # a
    BY <1>1, <1>2, <1>6 DEF WorkerHolds
  <2>2. phase[v] \in OpenPhases => OwnerOf(job[v]) \in Owner
    BY <1>1, JobHeld
  <2>3. \A e : e \in Owner /\ employee_lock[e] = v => employee_lock'[e] = v
    BY <1>4, NullAssumption
  <2>4. Foreign(job[v])' = Foreign(job[v])
    BY DEF Foreign, LeaveRows, OwnerOf, tableVars
  <2>5. /\ phase[v] = "locked" \/ pending_row[v] # NoRow
        /\ business_request_key[job[v]] \in LeaveKey
        => Foreign(job[v])' = {}
    BY <1>1, <2>4 DEF WorkerHolds
  <2> QED BY <1>1, <1>3, <1>6, <2>1, <2>2, <2>3, <2>5, OtherWorker DEF tableVars
<1>7. LocksBelong'
  <2>1. ASSUME NEW b \in ActionId, row_lock'[b] # Nobody
        PROVE  phase'[row_lock'[b]] \in OpenPhases /\ job'[row_lock'[b]] = b
    <3>1. /\ row_lock[b] # Nobody
          /\ row_lock[b] \in Worker
          /\ phase[row_lock[b]] \in OpenPhases
          /\ job[row_lock[b]] = b
      BY <1>1, <2>1 DEF LocksBelong, StoreTypeOK
    <3> QED BY <1>3, <3>1
  <2>2. ASSUME NEW b \in ActionId, uncommitted'[b] # "NONE"
        PROVE  row_lock'[b] # Nobody
    BY <1>1, <1>2, <1>3, <2>2, NullAssumption DEF LocksBelong
  <2>3. ASSUME NEW e \in Owner, employee_lock'[e] # Nobody
        PROVE  phase'[employee_lock'[e]] \in {"locked", "flushed", "in_doubt"}
    <3>1. CASE employee_lock'[e] = w
      BY <1>4, <3>1
    <3>2. CASE employee_lock'[e] # w
      <4>1. /\ employee_lock'[e] = employee_lock[e]
            /\ employee_lock[e] \in Worker
        BY <1>1, <1>4, <2>3, <3>2 DEF StoreTypeOK
      <4> QED BY <1>1, <1>3, <2>3, <3>2, <4>1 DEF LocksBelong
    <3> QED BY <3>1, <3>2
  <2> QED BY <2>1, <2>2, <2>3 DEF LocksBelong
<1>8. WorkerInvariant'
  BY <1>5, <1>6, <1>7, WorkerParts
<1>9. row_lock' \in [ActionId -> Worker \cup {Nobody}]
  BY <1>1 DEF StoreTypeOK
<1> QED BY <1>3, <1>4, <1>8, <1>9, WorkerMoves

(* The decision and the row are written, not yet committed.                *)
LEMMA WriteStep ==
  ASSUME ControlInvariant, WorkerFrame, NEW w \in Worker,
         phase[w] \in {"claimed", "waiting", "locked"},
         UNCHANGED <<tableVars, clockVars, row_lock, job, faults>>,
         UNCHANGED employee_lock \/ AcquireEmployeeLock(w, OwnerOf(job[w])),
         NEW to, NEW row, Write(w, job[w], to, row),
         \/ to \in {"EXPIRED", "STALE", "EXECUTION_FAILED"} /\ row = NoRow
         \/ /\ to = "SUCCEEDED"
            /\ row = NewRow(job[w])
            /\ ~TtlExpired(job[w])
            /\ business_request_key[job[w]] \in LeaveKey =>
                 phase[w] = "locked" /\ UNCHANGED employee_lock
  PROVE  ControlInvariant'
<1> DEFINE a == job[w]
           n == current_revision[a]
<1>1. /\ TableInvariant
      /\ StoreTypeOK
      /\ WorkerInvariant
      /\ WorkerTypeOK
      /\ WorkerHolds(w)
      /\ phase[w] \in OpenPhases
  BY InvariantParts, WorkerParts DEF TableInvariant, OpenPhases
<1>2. /\ a \in ActionId
      /\ n \in RevisionNo
      /\ row_lock[a] = w
      /\ Exists(a)
      /\ state[a][n] = "CONFIRMED"
      /\ draft[a][n] \in DraftPayload
      /\ business_request_key[a] \in RequestKey
      /\ OwnerOf(a) \in Owner
  BY <1>1, JobHeld
<1>3. /\ phase'[w] = "flushed"
      /\ pending_row'[w] = row
      /\ uncommitted'[a] = to
      /\ phase' = [phase EXCEPT ![w] = phase'[w]]
      /\ pending_row' = [pending_row EXCEPT ![w] = pending_row'[w]]
      /\ uncommitted' = [uncommitted EXCEPT ![a] = uncommitted'[a]]
  BY <1>1, <1>2 DEF Write, WorkerTypeOK, StoreTypeOK
<1>4. to \in TerminalStates \ {"SUPERSEDED", "CANCELLED"}
  BY DEF TerminalStates
<1>5. /\ NewRow(a) \in BusinessRow
      /\ NewRow(a) # NoRow
      /\ NewRow(a).action = a
      /\ NewRow(a).revision = n
      /\ NewRow(a).key = business_request_key[a]
      /\ NewRow(a).draft = draft[a][n]
      /\ NewRow(a).at = now
  <2>1. now \in Nat
    BY <1>1, BoundAssumption DEF StoreTypeOK
  <2>2. NewRow(a) \in BusinessRow
    BY <1>2, <2>1 DEF NewRow, BusinessRow, DraftOf
  <2>3. NoRow \notin BusinessRow
    BY NullAssumption DEF BusinessRow, RevisionNo, DraftPayload
  <2> QED BY <2>2, <2>3 DEF NewRow, DraftOf
<1>6. row # NoRow =>
        /\ row.action = a
        /\ row.revision = n
        /\ row.key = business_request_key[a]
        /\ row.draft = draft[a][n]
        /\ row.at < confirmed_expires_at[a][n]
  <2>1. CASE row = NoRow
    BY <2>1
  <2>2. CASE row = NewRow(a) /\ ~TtlExpired(a)
    <3>1. /\ now \in Int
          /\ confirmed_expires_at[a][n] \in Int
          /\ ~(confirmed_expires_at[a][n] <= now)
      BY <1>1, <1>2, <2>2, BoundAssumption DEF StoreTypeOK, TtlExpired
    <3>2. now < confirmed_expires_at[a][n]
      BY <3>1
    <3> QED BY <1>5, <2>2, <3>2
  <2> QED BY <2>1, <2>2
<1>7. /\ row \in BusinessRow \cup {NoRow}
      /\ to = "SUCCEEDED" <=> row # NoRow
  BY <1>5
<1>8. row # NoRow /\ business_request_key[a] \in LeaveKey =>
        /\ employee_lock'[OwnerOf(a)] = w
        /\ Foreign(a) = {}
  BY <1>1, <1>2 DEF WorkerHolds
<1>9. Foreign(a)' = Foreign(a)
  BY DEF Foreign, LeaveRows, OwnerOf, tableVars
<1> HIDE DEF a, n
<1>10. WorkerHolds(w)'
  BY <1>2, <1>3, <1>4, <1>6, <1>7, <1>8, <1>9
  DEF a, n, WorkerHolds, Exists, CurrentState, OwnerOf, tableVars
<1>11. /\ faults' \in 0 .. MaxFaults
       /\ phase'[w] \in OpenPhases
       /\ phase'[w] \in {"locked", "flushed", "in_doubt"}
       /\ pending_row'[w] \in BusinessRow \cup {NoRow}
       /\ uncommitted'[a] \in TerminalStates \cup {"NONE"}
  BY <1>1, <1>3, <1>4, <1>7 DEF WorkerTypeOK, OpenPhases
<1> QED BY <1>1, <1>3, <1>10, <1>11, TransactionStep DEF a

(* The transaction goes on to its next statement, with nothing written.    *)
LEMMA ProceedStep ==
  ASSUME ControlInvariant, WorkerFrame, NEW w \in Worker,
         UNCHANGED <<tableVars, clockVars, row_lock, job, uncommitted,
                     pending_row, faults>>,
         NEW next, phase' = [phase EXCEPT ![w] = next],
         \/ phase[w] = "claimed" /\ next = "waiting" /\ UNCHANGED employee_lock
         \/ /\ phase[w] = "waiting"
            /\ next = "locked"
            /\ AcquireEmployeeLock(w, OwnerOf(job[w]))
            /\ Foreign(job[w]) = {}
  PROVE  ControlInvariant'
<1> DEFINE a == job[w]
<1>1. /\ TableInvariant
      /\ StoreTypeOK
      /\ WorkerInvariant
      /\ WorkerTypeOK
      /\ WorkerHolds(w)
      /\ phase[w] \in OpenPhases
      /\ next \in OpenPhases
  BY InvariantParts, WorkerParts DEF TableInvariant, OpenPhases
<1>2. a \in ActionId /\ OwnerOf(a) \in Owner
  BY <1>1, JobHeld
<1>3. /\ phase'[w] = next
      /\ phase' = [phase EXCEPT ![w] = phase'[w]]
      /\ pending_row' = [pending_row EXCEPT ![w] = pending_row'[w]]
      /\ uncommitted' = [uncommitted EXCEPT ![a] = uncommitted'[a]]
      /\ pending_row'[w] \in BusinessRow \cup {NoRow}
      /\ uncommitted'[a] \in TerminalStates \cup {"NONE"}
  BY <1>1, <1>2 DEF WorkerTypeOK, StoreTypeOK
<1>4. Foreign(a)' = Foreign(a)
  BY DEF Foreign, LeaveRows, OwnerOf, tableVars
<1>5. WorkerHolds(w)'
  <2>1. CASE next = "waiting"
    BY <1>1, <1>3, <1>4, <2>1
    DEF WorkerHolds, Exists, CurrentState, OwnerOf, OpenPhases, tableVars
  <2>2. CASE next = "locked"
    <3>1. employee_lock'[OwnerOf(a)] = w
      BY <1>1, <1>2, <2>2 DEF AcquireEmployeeLock, StoreTypeOK
    <3> QED BY <1>1, <1>3, <1>4, <2>2, <3>1
         DEF WorkerHolds, Exists, CurrentState, OwnerOf, OpenPhases, tableVars
  <2> QED BY <2>1, <2>2
<1>6. faults' \in 0 .. MaxFaults /\ phase'[w] \in OpenPhases
  BY <1>1, <1>3 DEF WorkerTypeOK
<1>7. \/ UNCHANGED employee_lock /\ phase[w] \notin {"locked", "flushed", "in_doubt"}
      \/ UNCHANGED employee_lock /\ phase'[w] \in {"locked", "flushed", "in_doubt"}
      \/ /\ AcquireEmployeeLock(w, OwnerOf(a))
         /\ phase'[w] \in {"locked", "flushed", "in_doubt"}
  BY <1>3
<1> QED BY <1>1, <1>3, <1>5, <1>6, <1>7, TransactionStep

(* The worker starts on its job.                                           *)
LEMMA BeginExecutionStep ==
  ASSUME ControlInvariant, WorkerFrame, NEW w \in Worker, BeginExecution(w)
  PROVE  ControlInvariant'
<1> DEFINE a == job[w]
<1>1. /\ phase[w] = "claimed"
      /\ UNCHANGED <<tableVars, clockVars, row_lock, employee_lock, job, faults>>
  BY DEF BeginExecution
<1>2. Existing(a) = {}
  <2>1. TableInvariant /\ WorkerInvariant /\ phase[w] \in OpenPhases
    BY <1>1, InvariantParts DEF OpenPhases
  <2> QED BY <2>1, NothingExists
<1>3. CASE \E to \in {"EXPIRED", "STALE", "EXECUTION_FAILED"} :
             Write(w, a, to, NoRow)
  BY <1>1, <1>3, WriteStep
<1>4. CASE /\ phase' = [phase EXCEPT ![w] = "waiting"]
           /\ UNCHANGED <<uncommitted, pending_row>>
  BY <1>1, <1>4, ProceedStep
<1>5. CASE /\ ~TtlExpired(a)
           /\ business_request_key[a] \notin LeaveKey
           /\ Succeed(w, a)
  <2>1. Write(w, a, "SUCCEEDED", NewRow(a))
    BY <1>2, <1>5 DEF Succeed
  <2> QED BY <1>1, <1>5, <2>1, WriteStep
<1> QED BY <1>3, <1>4, <1>5 DEF BeginExecution, TicketOutdated

(* The employee's lock is granted.                                         *)
LEMMA RevalidateStep ==
  ASSUME ControlInvariant, WorkerFrame, NEW w \in Worker, Revalidate(w)
  PROVE  ControlInvariant'
<1> DEFINE a == job[w]
<1>1. /\ phase[w] = "waiting"
      /\ AcquireEmployeeLock(w, OwnerOf(a))
      /\ UNCHANGED <<tableVars, clockVars, row_lock, job, faults>>
  BY DEF Revalidate
<1>2. CASE \E to \in {"EXPIRED", "STALE", "EXECUTION_FAILED"} :
             Write(w, a, to, NoRow)
  BY <1>1, <1>2, WriteStep
<1>3. CASE /\ Foreign(a) = {}
           /\ phase' = [phase EXCEPT ![w] = "locked"]
           /\ UNCHANGED <<uncommitted, pending_row>>
  BY <1>1, <1>3, ProceedStep
<1> QED BY <1>2, <1>3 DEF Revalidate

(* The leave is inserted.                                                  *)
LEMMA FinishLeaveStep ==
  ASSUME ControlInvariant, WorkerFrame, NEW w \in Worker, FinishLeave(w)
  PROVE  ControlInvariant'
<1> DEFINE a == job[w]
<1>1. /\ phase[w] = "locked"
      /\ UNCHANGED <<tableVars, clockVars, row_lock, employee_lock, job, faults>>
  BY DEF FinishLeave
<1>2. Existing(a) = {}
  <2>1. TableInvariant /\ WorkerInvariant /\ phase[w] \in OpenPhases
    BY <1>1, InvariantParts DEF OpenPhases
  <2> QED BY <2>1, NothingExists
<1>3. CASE \E to \in {"EXPIRED", "STALE", "EXECUTION_FAILED"} :
             Write(w, a, to, NoRow)
  BY <1>1, <1>3, WriteStep
<1>4. CASE ~TtlExpired(a) /\ Succeed(w, a)
  <2>1. Write(w, a, "SUCCEEDED", NewRow(a))
    BY <1>2, <1>4 DEF Succeed
  <2> QED BY <1>1, <1>4, <2>1, WriteStep
<1> QED BY <1>3, <1>4 DEF FinishLeave

(* The acknowledgement of the commit is lost.                              *)
LEMMA LoseAckStep ==
  ASSUME ControlInvariant, WorkerFrame, NEW w \in Worker, LoseAck(w)
  PROVE  ControlInvariant'
<1> DEFINE a == job[w]
<1>1. /\ phase[w] = "flushed"
      /\ phase' = [phase EXCEPT ![w] = "in_doubt"]
      /\ UNCHANGED <<tableVars, clockVars, row_lock, employee_lock, uncommitted,
                     job, pending_row>>
  BY DEF LoseAck, lockVars
<1>2. /\ StoreTypeOK
      /\ WorkerInvariant
      /\ WorkerTypeOK
      /\ WorkerHolds(w)
      /\ TableInvariant
      /\ phase[w] \in OpenPhases
  BY <1>1, InvariantParts, WorkerParts DEF TableInvariant, OpenPhases
<1>3. a \in ActionId
  BY <1>2, JobHeld
<1>4. /\ phase'[w] = "in_doubt"
      /\ phase' = [phase EXCEPT ![w] = phase'[w]]
      /\ pending_row' = [pending_row EXCEPT ![w] = pending_row'[w]]
      /\ uncommitted' = [uncommitted EXCEPT ![a] = uncommitted'[a]]
      /\ pending_row'[w] \in BusinessRow \cup {NoRow}
      /\ uncommitted'[a] \in TerminalStates \cup {"NONE"}
  BY <1>1, <1>2, <1>3 DEF WorkerTypeOK, StoreTypeOK
<1>5. Foreign(a)' = Foreign(a)
  BY <1>1 DEF Foreign, LeaveRows, OwnerOf, tableVars
<1>6. WorkerHolds(w)'
  BY <1>1, <1>2, <1>4, <1>5
  DEF WorkerHolds, Exists, CurrentState, OwnerOf, OpenPhases, tableVars
<1>7. faults' \in 0 .. MaxFaults
  BY <1>2, FaultAssumption DEF LoseAck, WorkerTypeOK
<1>8. /\ phase'[w] \in OpenPhases
      /\ phase'[w] \in {"locked", "flushed", "in_doubt"}
  BY <1>4 DEF OpenPhases
<1> QED BY <1>1, <1>2, <1>4, <1>6, <1>7, <1>8, TransactionStep

(* An action is claimed: its rows become the transaction's.                *)
LEMMA ClaimStep ==
  ASSUME ControlInvariant, WorkerFrame, NEW w \in Worker, NEW a \in ActionId,
         Claim(w, a)
  PROVE  ControlInvariant'
<1>1. /\ TableInvariant
      /\ StoreTypeOK
      /\ WorkerInvariant
      /\ WorkerTypeOK
      /\ LocksBelong
      /\ \A v \in Worker : WorkerHolds(v)
  BY InvariantParts, WorkerParts DEF TableInvariant
<1>2. /\ phase[w] = "idle"
      /\ Exists(a)
      /\ CurrentState(a) = "CONFIRMED"
      /\ row_lock[a] = Nobody
      /\ row_lock' = [row_lock EXCEPT ![a] = w]
      /\ phase' = [phase EXCEPT ![w] = "claimed"]
      /\ job' = [job EXCEPT ![w] = a]
      /\ UNCHANGED <<tableVars, clockVars, employee_lock, uncommitted,
                     pending_row, faults>>
  BY DEF Claim, RowsFree
<1>3. /\ row_lock' \in [ActionId -> Worker \cup {Nobody}]
      /\ row_lock'[a] = w
      /\ \A b \in ActionId : b # a => row_lock'[b] = row_lock[b]
  BY <1>1, <1>2 DEF StoreTypeOK
<1>4. /\ phase' \in [Worker -> WorkerPhase]
      /\ job' \in [Worker -> ActionId \cup {NoAction}]
      /\ phase'[w] = "claimed"
      /\ job'[w] = a
      /\ \A v \in Worker : v # w => phase'[v] = phase[v] /\ job'[v] = job[v]
  BY <1>1, <1>2 DEF WorkerTypeOK, WorkerPhase
<1>5. WorkerTypeOK'
  BY <1>1, <1>2, <1>4 DEF WorkerTypeOK
<1>6. \A v \in Worker : v # w => Foreign(job[v])' = Foreign(job[v])
  BY <1>2, <1>4 DEF Foreign, LeaveRows, OwnerOf, tableVars
<1>7. WorkerHolds(w)'
  <2>1. uncommitted[a] = "NONE" /\ pending_row[w] = NoRow
    BY <1>1, <1>2 DEF LocksBelong, WorkerHolds
  <2> QED BY <1>2, <1>3, <1>4, <2>1
       DEF WorkerHolds, Exists, CurrentState, tableVars
<1>8. ASSUME NEW v \in Worker, v # w
      PROVE  WorkerHolds(v)'
  <2>1. phase[v] \in OpenPhases => job[v] \in ActionId /\ job[v] # a
    BY <1>1, <1>2, NullAssumption DEF WorkerHolds
  <2>2. /\ phase[v] = "locked" \/ pending_row[v] # NoRow
        /\ business_request_key[job[v]] \in LeaveKey
        => Foreign(job[v])' = {}
    BY <1>1, <1>6, <1>8 DEF WorkerHolds
  <2> QED BY <1>1, <1>2, <1>3, <1>4, <1>8, <2>1, <2>2, OtherWorker DEF tableVars
<1>9. LocksBelong'
  <2>1. ASSUME NEW b \in ActionId, row_lock'[b] # Nobody
        PROVE  phase'[row_lock'[b]] \in OpenPhases /\ job'[row_lock'[b]] = b
    <3>1. CASE b = a
      BY <1>3, <1>4, <3>1 DEF OpenPhases
    <3>2. CASE b # a
      <4>1. /\ row_lock'[b] = row_lock[b]
            /\ row_lock[b] \in Worker
            /\ phase[row_lock[b]] \in OpenPhases
            /\ job[row_lock[b]] = b
        BY <1>1, <1>3, <2>1, <3>2 DEF LocksBelong, StoreTypeOK
      <4>2. row_lock[b] # w
        BY <1>2, <4>1 DEF OpenPhases
      <4> QED BY <1>4, <4>1, <4>2
    <3> QED BY <3>1, <3>2
  <2>2. ASSUME NEW b \in ActionId, uncommitted'[b] # "NONE"
        PROVE  row_lock'[b] # Nobody
    BY <1>1, <1>2, <1>3, <2>2, NullAssumption DEF LocksBelong
  <2>3. ASSUME NEW e \in Owner, employee_lock'[e] # Nobody
        PROVE  phase'[employee_lock'[e]] \in {"locked", "flushed", "in_doubt"}
    <3>1. /\ employee_lock[e] \in Worker
          /\ employee_lock'[e] = employee_lock[e]
          /\ phase[employee_lock[e]] \in {"locked", "flushed", "in_doubt"}
      BY <1>1, <1>2, <2>3 DEF LocksBelong, StoreTypeOK
    <3> QED BY <1>2, <1>4, <3>1
  <2> QED BY <2>1, <2>2, <2>3 DEF LocksBelong
<1>10. WorkerInvariant'
  BY <1>5, <1>7, <1>8, <1>9, WorkerParts
<1>11. /\ employee_lock' \in [Owner -> Worker \cup {Nobody}]
       /\ uncommitted' \in [ActionId -> TerminalStates \cup {"NONE"}]
  BY <1>1, <1>2 DEF StoreTypeOK
<1> QED BY <1>2, <1>3, <1>10, <1>11, WorkerMoves

(* The worker has observed the outcome and is idle again.                  *)
LEMMA ObserveStep ==
  ASSUME ControlInvariant, WorkerFrame, NEW w \in Worker, Observe(w)
  PROVE  ControlInvariant'
<1>1. /\ TableInvariant
      /\ StoreTypeOK
      /\ WorkerInvariant
      /\ WorkerTypeOK
      /\ LocksBelong
      /\ \A v \in Worker : WorkerHolds(v)
  BY InvariantParts, WorkerParts DEF TableInvariant
<1>2. /\ phase[w] = "observing"
      /\ phase' = [phase EXCEPT ![w] = "idle"]
      /\ job' = [job EXCEPT ![w] = NoAction]
      /\ UNCHANGED <<tableVars, clockVars, row_lock, employee_lock, uncommitted,
                     pending_row, faults>>
  BY DEF Observe, Leave, lockVars
<1>3. /\ phase' \in [Worker -> WorkerPhase]
      /\ job' \in [Worker -> ActionId \cup {NoAction}]
      /\ phase'[w] = "idle"
      /\ \A v \in Worker : v # w => phase'[v] = phase[v] /\ job'[v] = job[v]
  BY <1>1, <1>2 DEF WorkerTypeOK, WorkerPhase
<1>4. WorkerTypeOK'
  BY <1>1, <1>2, <1>3 DEF WorkerTypeOK
<1>5. \A v \in Worker : v # w => Foreign(job[v])' = Foreign(job[v])
  BY <1>2, <1>3 DEF Foreign, LeaveRows, OwnerOf, tableVars
<1>6. WorkerHolds(w)'
  <2>1. pending_row[w] = NoRow
    BY <1>1, <1>2 DEF WorkerHolds
  <2> QED BY <1>2, <1>3, <2>1 DEF WorkerHolds, OpenPhases
<1>7. ASSUME NEW v \in Worker, v # w
      PROVE  WorkerHolds(v)'
  <2>1. /\ phase[v] = "locked" \/ pending_row[v] # NoRow
        /\ business_request_key[job[v]] \in LeaveKey
        => Foreign(job[v])' = {}
    BY <1>1, <1>5, <1>7 DEF WorkerHolds
  <2> QED BY <1>1, <1>2, <1>3, <1>7, <2>1, OtherWorker DEF tableVars
<1>8. LocksBelong'
  <2>1. ASSUME NEW b \in ActionId, row_lock'[b] # Nobody
        PROVE  phase'[row_lock'[b]] \in OpenPhases /\ job'[row_lock'[b]] = b
    <3>1. /\ row_lock'[b] = row_lock[b]
          /\ row_lock[b] \in Worker
          /\ phase[row_lock[b]] \in OpenPhases
          /\ job[row_lock[b]] = b
      BY <1>1, <1>2, <2>1 DEF LocksBelong, StoreTypeOK
    <3>2. row_lock[b] # w
      BY <1>2, <3>1 DEF OpenPhases
    <3> QED BY <1>3, <3>1, <3>2
  <2>2. ASSUME NEW e \in Owner, employee_lock'[e] # Nobody
        PROVE  phase'[employee_lock'[e]] \in {"locked", "flushed", "in_doubt"}
    <3>1. /\ employee_lock[e] \in Worker
          /\ employee_lock'[e] = employee_lock[e]
          /\ phase[employee_lock[e]] \in {"locked", "flushed", "in_doubt"}
      BY <1>1, <1>2, <2>2 DEF LocksBelong, StoreTypeOK
    <3> QED BY <1>2, <1>3, <3>1
  <2>3. \A b \in ActionId : uncommitted'[b] # "NONE" => row_lock'[b] # Nobody
    BY <1>1, <1>2 DEF LocksBelong
  <2> QED BY <2>1, <2>2, <2>3 DEF LocksBelong
<1>9. WorkerInvariant'
  BY <1>4, <1>6, <1>7, <1>8, WorkerParts
<1>10. /\ row_lock' \in [ActionId -> Worker \cup {Nobody}]
       /\ employee_lock' \in [Owner -> Worker \cup {Nobody}]
       /\ uncommitted' \in [ActionId -> TerminalStates \cup {"NONE"}]
  BY <1>1, <1>2 DEF StoreTypeOK
<1> QED BY <1>2, <1>9, <1>10, WorkerMoves

(* A transaction ends: its locks go, and the others are where they were.   *)
LEMMA ReleaseStep ==
  ASSUME ControlInvariant, NEW w \in Worker, phase[w] \in OpenPhases,
         ReleaseLocks(w, job[w]), NEW next \in {"idle", "observing"},
         Leave(w, next), faults' \in 0 .. MaxFaults,
         \A b \in ActionId : b # job[w] => state'[b] = state[b],
         UNCHANGED <<current_revision, business_request_key, draft,
                     confirmed_expires_at>>,
         \/ UNCHANGED business_rows
         \/ /\ pending_row[w] # NoRow
            /\ business_rows' = business_rows \cup {pending_row[w]}
  PROVE  /\ WorkerInvariant'
         /\ row_lock' \in [ActionId -> Worker \cup {Nobody}]
         /\ employee_lock' \in [Owner -> Worker \cup {Nobody}]
         /\ uncommitted' \in [ActionId -> TerminalStates \cup {"NONE"}]
<1> DEFINE a == job[w]
<1>1. /\ TableInvariant
      /\ StoreTypeOK
      /\ WorkerInvariant
      /\ WorkerTypeOK
      /\ LocksBelong
      /\ \A v \in Worker : WorkerHolds(v)
  BY InvariantParts, WorkerParts DEF TableInvariant
<1>2. /\ a \in ActionId
      /\ row_lock[a] = w
      /\ business_request_key[a] \in RequestKey
      /\ \A v \in Worker : v # w /\ phase[v] \in OpenPhases => job[v] # a
  BY <1>1, JobHeld
<1>3. /\ phase' \in [Worker -> WorkerPhase]
      /\ job' \in [Worker -> ActionId \cup {NoAction}]
      /\ pending_row' \in [Worker -> BusinessRow \cup {NoRow}]
      /\ phase'[w] = next
      /\ next = "observing" => job'[w] \in ActionId
      /\ pending_row'[w] = NoRow
      /\ \A v \in Worker : v # w =>
           /\ phase'[v] = phase[v]
           /\ job'[v] = job[v]
           /\ pending_row'[v] = pending_row[v]
  <2>1. /\ phase' \in [Worker -> WorkerPhase]
        /\ phase'[w] = next
        /\ \A v \in Worker : v # w => phase'[v] = phase[v]
    BY <1>1 DEF Leave, WorkerTypeOK, WorkerPhase
  <2>2. /\ job' \in [Worker -> ActionId \cup {NoAction}]
        /\ next = "observing" => job'[w] \in ActionId
        /\ \A v \in Worker : v # w => job'[v] = job[v]
    BY <1>1, <1>2 DEF Leave, WorkerTypeOK
  <2>3. /\ pending_row' \in [Worker -> BusinessRow \cup {NoRow}]
        /\ pending_row'[w] = NoRow
        /\ \A v \in Worker : v # w => pending_row'[v] = pending_row[v]
    BY <1>1 DEF ReleaseLocks, WorkerTypeOK
  <2> QED BY <2>1, <2>2, <2>3
<1>4. /\ row_lock' \in [ActionId -> Worker \cup {Nobody}]
      /\ uncommitted' \in [ActionId -> TerminalStates \cup {"NONE"}]
      /\ row_lock'[a] = Nobody
      /\ uncommitted'[a] = "NONE"
      /\ \A b \in ActionId : b # a =>
           row_lock'[b] = row_lock[b] /\ uncommitted'[b] = uncommitted[b]
  BY <1>1, <1>2 DEF ReleaseLocks, StoreTypeOK
<1>5. /\ employee_lock' \in [Owner -> Worker \cup {Nobody}]
      /\ \A e \in Owner :
           employee_lock'[e] = IF employee_lock[e] = w THEN Nobody
                                                       ELSE employee_lock[e]
  BY <1>1 DEF ReleaseLocks, StoreTypeOK
<1>6. WorkerTypeOK'
  BY <1>3 DEF WorkerTypeOK
<1>7. WorkerHolds(w)'
  BY <1>3 DEF WorkerHolds, OpenPhases
<1>8. ASSUME NEW v \in Worker, v # w,
             phase[v] = "locked" \/ pending_row[v] # NoRow,
             business_request_key[job[v]] \in LeaveKey
      PROVE  Foreign(job[v])' = {}
  <2>1. /\ phase[v] \in OpenPhases
        /\ Foreign(job[v]) = {}
        /\ employee_lock[OwnerOf(job[v])] = v
    BY <1>1, <1>8 DEF WorkerHolds, OpenPhases
  <2>2. pending_row[w] # NoRow /\ pending_row[w].key \in LeaveKey =>
          KeyOwner[pending_row[w].key] # OwnerOf(job[v])
    <3>1. pending_row[w] # NoRow /\ pending_row[w].key \in LeaveKey =>
            /\ pending_row[w].key = business_request_key[a]
            /\ employee_lock[OwnerOf(a)] = w
      BY <1>1 DEF WorkerHolds
    <3> QED BY <1>8, <2>1, <3>1 DEF OwnerOf
  <2>3. LeaveRows(OwnerOf(job[v]))' = LeaveRows(OwnerOf(job[v]))
    <3>1. OwnerOf(job[v])' = OwnerOf(job[v])
      BY <1>3, <1>8 DEF OwnerOf
    <3>2. \A r \in business_rows' \ business_rows :
            ~(r.key \in LeaveKey /\ KeyOwner[r.key] = OwnerOf(job[v]))
      BY <2>2
    <3>3. business_rows \subseteq business_rows'
      OBVIOUS
    <3> QED BY <3>1, <3>2, <3>3 DEF LeaveRows
  <2> QED BY <1>3, <1>8, <2>1, <2>3 DEF Foreign
<1>9. ASSUME NEW v \in Worker, v # w
      PROVE  WorkerHolds(v)'
  <2>1. /\ phase[v] = "locked" \/ pending_row[v] # NoRow
        /\ business_request_key[job[v]] \in LeaveKey
        => Foreign(job[v])' = {}
    BY <1>8, <1>9
  <2>2. phase[v] \in OpenPhases =>
          /\ job[v] \in ActionId
          /\ job[v] # a
          /\ OwnerOf(job[v]) \in Owner
    BY <1>1, <1>2, <1>9, JobHeld
  <2> QED BY <1>1, <1>3, <1>4, <1>5, <1>9, <2>1, <2>2, OtherWorker
<1>10. LocksBelong'
  <2>1. ASSUME NEW b \in ActionId, row_lock'[b] # Nobody
        PROVE  phase'[row_lock'[b]] \in OpenPhases /\ job'[row_lock'[b]] = b
    <3>1. /\ b # a
          /\ row_lock'[b] = row_lock[b]
          /\ row_lock[b] \in Worker
          /\ phase[row_lock[b]] \in OpenPhases
          /\ job[row_lock[b]] = b
      BY <1>1, <1>2, <1>4, <2>1 DEF LocksBelong, StoreTypeOK
    <3> QED BY <1>3, <3>1
  <2>2. ASSUME NEW b \in ActionId, uncommitted'[b] # "NONE"
        PROVE  row_lock'[b] # Nobody
    BY <1>1, <1>4, <2>2 DEF LocksBelong
  <2>3. ASSUME NEW e \in Owner, employee_lock'[e] # Nobody
        PROVE  phase'[employee_lock'[e]] \in {"locked", "flushed", "in_doubt"}
    <3>1. /\ employee_lock[e] # w
          /\ employee_lock[e] \in Worker
          /\ employee_lock'[e] = employee_lock[e]
          /\ phase[employee_lock[e]] \in {"locked", "flushed", "in_doubt"}
      BY <1>1, <1>5, <2>3 DEF LocksBelong, StoreTypeOK
    <3> QED BY <1>3, <3>1
  <2> QED BY <2>1, <2>2, <2>3 DEF LocksBelong
<1>11. WorkerInvariant'
  BY <1>6, <1>7, <1>9, <1>10, WorkerParts
<1> QED BY <1>4, <1>5, <1>11

(* The server rolls the transaction back.                                  *)
LEMMA RollbackStep ==
  ASSUME ControlInvariant, WorkerFrame, NEW w \in Worker,
         phase[w] \in OpenPhases, ApplyRollback(w, job[w]),
         NEW next \in {"idle", "observing"}, Leave(w, next),
         faults' \in 0 .. MaxFaults, UNCHANGED clockVars
  PROVE  ControlInvariant'
<1>1. UNCHANGED tableVars /\ ReleaseLocks(w, job[w])
  BY DEF ApplyRollback
<1>2. /\ WorkerInvariant'
      /\ row_lock' \in [ActionId -> Worker \cup {Nobody}]
      /\ employee_lock' \in [Owner -> Worker \cup {Nobody}]
      /\ uncommitted' \in [ActionId -> TerminalStates \cup {"NONE"}]
  BY <1>1, ReleaseStep DEF tableVars
<1> QED BY <1>1, <1>2, WorkerMoves

(* The tables once a transaction's decision and row are visible.           *)
LEMMA CommitTables ==
  ASSUME TableInvariant, WorkerInvariant, NEW w \in Worker,
         phase[w] \in {"flushed", "in_doubt"}, ApplyCommit(w, job[w]),
         row_lock' \in [ActionId -> Worker \cup {Nobody}],
         employee_lock' \in [Owner -> Worker \cup {Nobody}],
         uncommitted' \in [ActionId -> TerminalStates \cup {"NONE"}],
         UNCHANGED clockVars
  PROVE  TableInvariant'
<1>1. phase[w] \in OpenPhases
  BY DEF OpenPhases
<1> DEFINE a == job[w]
           n == current_revision[a]
           to == uncommitted[a]
           row == pending_row[w]
<1>2. /\ a \in ActionId
      /\ n \in RevisionNo
      /\ state[a][n] = "CONFIRMED"
      /\ business_request_key[a] \in RequestKey
  BY <1>1, JobHeld
<1>3. /\ to \in TerminalStates \ {"SUPERSEDED", "CANCELLED"}
      /\ to = "SUCCEEDED" <=> row # NoRow
      /\ row # NoRow =>
           /\ row \in BusinessRow
           /\ row.action = a
           /\ row.revision = n
           /\ row.key = business_request_key[a]
           /\ row.draft = draft[a][n]
           /\ row.at < confirmed_expires_at[a][n]
           /\ business_request_key[a] \in LeaveKey => Foreign(a) = {}
  <2>1. WorkerHolds(w) /\ WorkerTypeOK
    BY WorkerParts
  <2> QED BY <2>1 DEF WorkerHolds, WorkerTypeOK
<1>4. \A r \in business_rows : r.action # a /\ r.key # business_request_key[a]
  BY <1>1, NothingExists
<1>5. /\ UNCHANGED <<current_revision, business_request_key, draft,
                     action_expires_at, confirmed_expires_at, challenge>>
      /\ business_rows' = IF row = NoRow THEN business_rows
                                         ELSE business_rows \cup {row}
      /\ Enter(a, n, to)
  BY DEF ApplyCommit
<1>6. to \in WorkflowState
  BY <1>3 DEF WorkflowState
<1> HIDE DEF a, n, to, row
<1>7. StoreTypeOK
  BY DEF TableInvariant
<1>8. /\ state' \in [ActionId -> [RevisionNo -> WorkflowState \cup {"NONE"}]]
      /\ audit' \subseteq AuditEvent
      /\ state'[a][n] = to
      /\ \A m \in RevisionNo : m # n => state'[a][m] = state[a][m]
      /\ \A b \in ActionId : b # a => state'[b] = state[b]
  BY <1>2, <1>5, <1>6, <1>7, EnterEffect
<1>9. \A b \in ActionId, m \in RevisionNo :
        state'[b][m] = IF b = a /\ m = n THEN to ELSE state[b][m]
  BY <1>8
<1>10. \A b \in ActionId, m \in RevisionNo :
         Consented(b, m)' <=> Consented(b, m)
  BY <1>5 DEF Consented, OwnerOf
<1>11. StoreTypeOK'
  BY <1>3, <1>5, <1>7, <1>8 DEF StoreTypeOK, clockVars
<1>12. OnlyCurrentRevisionLives'
  <2>1. n = current_revision[a] /\ n \in Int
    BY <1>2 DEF n, RevisionNo
  <2>2. to \in WorkflowState \ {"SUPERSEDED"}
    BY <1>3, <1>6
  <2> QED BY <1>5, <1>9, <2>1, <2>2
       DEF TableInvariant, OnlyCurrentRevisionLives, RevisionNo
<1>13. OneOccupantPerRequest'
  <2>1. \A b \in ActionId, m \in RevisionNo :
          state'[b][m] \in OccupyingStates => state[b][m] \in OccupyingStates
    BY <1>2, <1>9 DEF OccupyingStates
  <2> QED BY <1>5, <2>1 DEF TableInvariant, OneOccupantPerRequest
<1>14. ActiveChallengeIsCurrent'
  <2>1. ASSUME NEW c \in ChallengeId, challenge[c].status = "ACTIVE"
        PROVE  AuthorisesCurrent(c)'
    <3>1. AuthorisesCurrent(c)
      BY <2>1 DEF TableInvariant, ActiveChallengeIsCurrent
    <3>2. challenge[c].action # a
      BY <1>2, <3>1 DEF AuthorisesCurrent, n
    <3> QED BY <1>5, <1>8, <3>1, <3>2 DEF AuthorisesCurrent, OwnerOf
  <2> QED BY <1>5, <2>1 DEF TableInvariant, ActiveChallengeIsCurrent
<1>15. ConfirmedByConsent'
  BY <1>2, <1>9, <1>10 DEF TableInvariant, ConfirmedByConsent
<1>16. ExecutedAsConfirmed'
  <2> SUFFICES ASSUME NEW r \in business_rows'
               PROVE  /\ Consented(r.action, r.revision)'
                      /\ r.draft = draft[r.action][r.revision]
                      /\ r.key = business_request_key[r.action]
                      /\ r.at < confirmed_expires_at[r.action][r.revision]
    BY <1>5 DEF ExecutedAsConfirmed
  <2>1. CASE r \in business_rows
    <3>1. r.action \in ActionId /\ r.revision \in RevisionNo
      BY <1>7, <2>1 DEF StoreTypeOK, BusinessRow
    <3> QED BY <1>10, <2>1, <3>1 DEF TableInvariant, ExecutedAsConfirmed
  <2>2. CASE r = row /\ row # NoRow
    <3>1. Consented(a, n)
      BY <1>2 DEF TableInvariant, ConfirmedByConsent
    <3> QED BY <1>2, <1>3, <1>10, <2>2, <3>1
  <2> QED BY <1>5, <2>1, <2>2
<1>17. RowIffSucceeded'
  <2> SUFFICES ASSUME NEW b \in ActionId, NEW m \in RevisionNo
               PROVE  (state'[b][m] = "SUCCEEDED")
                        <=> (\E r \in business_rows' :
                               r.action = b /\ r.revision = m)
    BY DEF RowIffSucceeded
  <2>1. (state[b][m] = "SUCCEEDED")
          <=> (\E r \in business_rows : r.action = b /\ r.revision = m)
    BY DEF TableInvariant, RowIffSucceeded
  <2>2. CASE b = a /\ m = n
    <3>1. CASE row = NoRow
      BY <1>3, <1>4, <1>5, <1>9, <2>2, <3>1
    <3>2. CASE row # NoRow
      BY <1>3, <1>5, <1>9, <2>2, <3>2
    <3> QED BY <3>1, <3>2
  <2>3. CASE ~(b = a /\ m = n)
    BY <1>3, <1>5, <1>9, <2>1, <2>3
  <2> QED BY <2>2, <2>3
<1>18. OneRowPerRequest'
  BY <1>3, <1>4, <1>5 DEF TableInvariant, OneRowPerRequest
<1>19. NoOverlappingLeave'
  <2> SUFFICES ASSUME NEW e \in Owner,
                      NEW r1 \in LeaveRows(e)', NEW r2 \in LeaveRows(e)',
                      r1 # r2
               PROVE  Days[r1.key] \cap Days[r2.key] = {}
    BY DEF NoOverlappingLeave
  <2>1. ASSUME NEW r \in business_rows, row # NoRow,
               r.key \in LeaveKey, KeyOwner[r.key] = e,
               row.key \in LeaveKey, KeyOwner[row.key] = e
        PROVE  Days[r.key] \cap Days[row.key] = {}
    <3>1. /\ Foreign(a) = {}
          /\ row.key = business_request_key[a]
          /\ OwnerOf(a) = e
      BY <1>3, <2>1 DEF OwnerOf
    <3>2. r \in LeaveRows(OwnerOf(a))
      BY <2>1, <3>1 DEF LeaveRows
    <3>3. r.key # business_request_key[a] /\ r.action # a
      BY <1>4
    <3> QED BY <3>1, <3>2, <3>3 DEF Foreign
  <2>2. /\ r1 \in business_rows' /\ r1.key \in LeaveKey /\ KeyOwner[r1.key] = e
        /\ r2 \in business_rows' /\ r2.key \in LeaveKey /\ KeyOwner[r2.key] = e
    BY DEF LeaveRows
  <2>3. CASE r1 \in business_rows /\ r2 \in business_rows
    <3>1. r1 \in LeaveRows(e) /\ r2 \in LeaveRows(e)
      BY <2>2, <2>3 DEF LeaveRows
    <3> QED BY <3>1 DEF TableInvariant, NoOverlappingLeave
  <2>4. CASE r1 \in business_rows /\ r2 = row /\ row # NoRow
    BY <2>1, <2>2, <2>4
  <2>5. CASE r1 = row /\ row # NoRow /\ r2 \in business_rows
    <3>1. Days[r2.key] \cap Days[r1.key] = {}
      BY <2>1, <2>2, <2>5
    <3> QED BY <3>1
  <2> QED BY <1>5, <2>2, <2>3, <2>4, <2>5
<1> QED BY <1>11, <1>12, <1>13, <1>14, <1>15, <1>16, <1>17, <1>18, <1>19
     DEF TableInvariant

(* The server makes the transaction's writes visible.                      *)
LEMMA CommitStep ==
  ASSUME ControlInvariant, WorkerFrame, NEW w \in Worker,
         phase[w] \in {"flushed", "in_doubt"}, ApplyCommit(w, job[w]),
         NEW next \in {"idle", "observing"}, Leave(w, next),
         faults' \in 0 .. MaxFaults, UNCHANGED clockVars
  PROVE  ControlInvariant'
<1>1. /\ TableInvariant
      /\ StoreTypeOK
      /\ WorkerInvariant
      /\ PrepareInvariant
      /\ phase[w] \in OpenPhases
  BY InvariantParts DEF OpenPhases, TableInvariant
<1>2. /\ ReleaseLocks(w, job[w])
      /\ UNCHANGED <<current_revision, business_request_key, draft,
                     confirmed_expires_at>>
      /\ \/ UNCHANGED business_rows
         \/ /\ pending_row[w] # NoRow
            /\ business_rows' = business_rows \cup {pending_row[w]}
  BY DEF ApplyCommit
<1>3. \A b \in ActionId : b # job[w] => state'[b] = state[b]
  BY <1>1 DEF ApplyCommit, Enter, StoreTypeOK
<1>4. /\ WorkerInvariant'
      /\ row_lock' \in [ActionId -> Worker \cup {Nobody}]
      /\ employee_lock' \in [Owner -> Worker \cup {Nobody}]
      /\ uncommitted' \in [ActionId -> TerminalStates \cup {"NONE"}]
  BY <1>1, <1>2, <1>3, ReleaseStep
<1>5. TableInvariant'
  BY <1>1, <1>4, CommitTables
<1>6. KeepsIdentity
  BY <1>1, <1>2, BoundAssumption DEF KeepsIdentity, StoreTypeOK, Exists
<1>7. PrepareInvariant'
  BY <1>1, <1>5, <1>6, PrepareUndisturbed DEF WorkerFrame, TableInvariant
<1> QED BY <1>4, <1>5, <1>7, InvariantParts

(* The steps that end a worker's transaction.                              *)
LEMMA EndStep ==
  ASSUME ControlInvariant, WorkerFrame, NEW w \in Worker,
         Commit(w) \/ Abort(w) \/ SettleInDoubt(w)
  PROVE  ControlInvariant'
<1>1. faults \in 0 .. MaxFaults
  BY DEF ControlInvariant, TypeOK, WorkerTypeOK
<1>2. CASE Commit(w)
  BY <1>1, <1>2, CommitStep DEF Commit
<1>3. CASE Abort(w)
  <2>1. /\ phase[w] \in OpenPhases
        /\ faults' \in 0 .. MaxFaults
    BY <1>1, <1>3, FaultAssumption DEF Abort, OpenPhases
  <2> QED BY <1>3, <2>1, RollbackStep DEF Abort
<1>4. CASE SettleInDoubt(w)
  <2>1. /\ phase[w] \in {"flushed", "in_doubt"}
        /\ phase[w] \in OpenPhases
        /\ Leave(w, "observing")
        /\ UNCHANGED <<clockVars, faults>>
    BY <1>4 DEF SettleInDoubt, OpenPhases
  <2>2. CASE ApplyCommit(w, job[w])
    BY <1>1, <2>1, <2>2, CommitStep
  <2>3. CASE ApplyRollback(w, job[w])
    BY <1>1, <2>1, <2>3, RollbackStep
  <2> QED BY <1>4, <2>2, <2>3 DEF SettleInDoubt
<1> QED BY <1>2, <1>3, <1>4

-----------------------------------------------------------------------------
(* The environment and the theorems.                                       *)

(* The clock and the stable authorities move under everyone's feet.        *)
LEMMA EnvironmentStep ==
  ASSUME ControlInvariant,
         \/ Tick
         \/ \E k \in RequestKey : ChangeAuthority(k)
         \/ UNCHANGED vars
  PROVE  ControlInvariant'
<1>1. TableInvariant /\ WorkerInvariant /\ PrepareInvariant /\ StoreTypeOK
  BY InvariantParts DEF TableInvariant
<1>2. UNCHANGED <<tableVars, lockVars, prepare, workerVars>>
  BY DEF Tick, ChangeAuthority, vars
<1>3. now' \in 0 .. MaxTime /\ authority' \in [RequestKey -> 0 .. MaxAuthority]
  <2>1. CASE Tick
    BY <1>1, <2>1, BoundAssumption DEF Tick, StoreTypeOK
  <2>2. CASE \E k \in RequestKey : ChangeAuthority(k)
    BY <1>1, <2>2, BoundAssumption DEF ChangeAuthority, StoreTypeOK
  <2>3. CASE UNCHANGED vars
    BY <1>1, <2>3 DEF vars, clockVars, StoreTypeOK
  <2> QED BY <2>1, <2>2, <2>3
<1>4. StoreTypeOK'
  BY <1>1, <1>2, <1>3 DEF StoreTypeOK, tableVars, lockVars
<1>5. TableInvariant' /\ KeepsIdentity
  BY <1>1, <1>2, <1>4, TablesUnchanged
<1>6. WorkerInvariant'
  BY <1>1, <1>2, WorkersUnchanged
<1>7. PrepareInvariant'
  BY <1>1, <1>2, <1>4, <1>5, PrepareUndisturbed
<1> QED BY <1>5, <1>6, <1>7, InvariantParts

(* Every step of every client keeps the invariant.                         *)
LEMMA ControlInductive == ControlInvariant /\ [Next]_vars => ControlInvariant'
<1> SUFFICES ASSUME ControlInvariant, [Next]_vars PROVE ControlInvariant'
  OBVIOUS
<1>1. ASSUME NEW p \in Preparer, NEW k \in RequestKey, NEW content \in Content,
             StartPrepare(p, k, content) /\ PrepareFrame
      PROVE  ControlInvariant'
  BY <1>1, StartPrepareStep
<1>2. ASSUME NEW p \in Preparer, AttemptInsert(p) /\ PrepareFrame
      PROVE  ControlInvariant'
  BY <1>2, AttemptInsertStep
<1>3. ASSUME NEW p \in Preparer, FindOccupant(p) /\ PrepareFrame
      PROVE  ControlInvariant'
  BY <1>3, FindOccupantStep
<1>4. ASSUME NEW p \in Preparer, ResolveOccupant(p) /\ PrepareFrame
      PROVE  ControlInvariant'
  BY <1>4, ResolveOccupantStep
<1>5. ASSUME NEW s \in Session, NEW a \in ActionId, EmployeeFrame,
             \/ GetAction(s, a)
             \/ \E c \in ChallengeId : IssueChallenge(s, a, c)
             \/ \E c, token \in ChallengeId : Confirm(s, a, c, token)
             \/ Cancel(s, a)
             \/ \E expected \in RevisionNo, content \in Content :
                  CreateRevision(s, a, expected, content)
      PROVE  ControlInvariant'
  BY <1>5, EmployeeStep
<1>6. ASSUME NEW w \in Worker, NEW a \in ActionId, Claim(w, a) /\ WorkerFrame
      PROVE  ControlInvariant'
  BY <1>6, ClaimStep
<1>7. ASSUME NEW w \in Worker, BeginExecution(w) /\ WorkerFrame
      PROVE  ControlInvariant'
  BY <1>7, BeginExecutionStep
<1>8. ASSUME NEW w \in Worker, Revalidate(w) /\ WorkerFrame
      PROVE  ControlInvariant'
  BY <1>8, RevalidateStep
<1>9. ASSUME NEW w \in Worker, FinishLeave(w) /\ WorkerFrame
      PROVE  ControlInvariant'
  BY <1>9, FinishLeaveStep
<1>10. ASSUME NEW w \in Worker, WorkerFrame,
              Commit(w) \/ Abort(w) \/ SettleInDoubt(w)
       PROVE  ControlInvariant'
  BY <1>10, EndStep
<1>11. ASSUME NEW w \in Worker, LoseAck(w) /\ WorkerFrame
       PROVE  ControlInvariant'
  BY <1>11, LoseAckStep
<1>12. ASSUME NEW w \in Worker, Observe(w) /\ WorkerFrame
       PROVE  ControlInvariant'
  BY <1>12, ObserveStep
<1>13. CASE \/ Tick
            \/ \E k \in RequestKey : ChangeAuthority(k)
            \/ UNCHANGED vars
  BY <1>13, EnvironmentStep
<1> QED
  BY <1>1, <1>2, <1>3, <1>4, <1>5, <1>6, <1>7, <1>8, <1>9, <1>10, <1>11,
     <1>12, <1>13
  DEF Next

(* ControlInvariant is an invariant of the control plane: for any number   *)
(* of PREPARE calls, sessions and workers, however their transactions      *)
(* interleave, fail and are retried (action_creation.py, confirmation.py,  *)
(* it_revision.py, atomic_execution.py).                                   *)
THEOREM ControlSafety == Spec => []ControlInvariant
<1>1. Init => ControlInvariant
  BY InitTables, InitWorkers, InitPrepare, InvariantParts
<1> QED BY <1>1, ControlInductive, PTL DEF Spec

(* Every table, lock and call keeps its type.                              *)
THEOREM TypeCorrect == Spec => []TypeOK
<1>1. ControlInvariant => TypeOK
  BY DEF ControlInvariant
<1> QED BY <1>1, ControlSafety, PTL

(* A request never has two actions waiting, confirmed or succeeded at      *)
(* once: what the partial unique index on action_revisions is for.         *)
THEOREM RequestHasOneOccupant == Spec => []OneOccupantPerRequest
<1>1. ControlInvariant => OneOccupantPerRequest
  BY DEF ControlInvariant
<1> QED BY <1>1, ControlSafety, PTL

(* A challenge that confirm would still accept speaks of the current       *)
(* revision and its draft, to a session of the action's owner.             *)
THEOREM ChallengeIsNeverStale == Spec => []ActiveChallengeIsCurrent
<1>1. ControlInvariant => ActiveChallengeIsCurrent
  BY DEF ControlInvariant
<1> QED BY <1>1, ControlSafety, PTL

(* No revision is confirmed or executed without its owner's consumed       *)
(* challenge for that revision.                                            *)
THEOREM NothingWithoutConsent == Spec => []ConfirmedByConsent
<1>1. ControlInvariant => ConfirmedByConsent
  BY DEF ControlInvariant
<1> QED BY <1>1, ControlSafety, PTL

(* What _finish_claimed inserts is the confirmed draft, before its TTL.    *)
THEOREM ExecutionMatchesConsent == Spec => []ExecutedAsConfirmed
<1>1. ControlInvariant => ExecutedAsConfirmed
  BY DEF ControlInvariant
<1> QED BY <1>1, ControlSafety, PTL

(* The terminal state and the business row are one commit: SUCCEEDED if    *)
(* and only if the row is there, with any number of crashes and lost       *)
(* acknowledgements.                                                       *)
THEOREM AtomicOutcome == Spec => []RowIffSucceeded
<1>1. ControlInvariant => RowIffSucceeded
  BY DEF ControlInvariant
<1> QED BY <1>1, ControlSafety, PTL

(* A request has one business row at most, whichever actions asked for it  *)
(* and however often their execution was retried.                          *)
THEOREM CarriedOutOnce == Spec => []OneRowPerRequest
<1>1. ControlInvariant => OneRowPerRequest
  BY DEF ControlInvariant
<1> QED BY <1>1, ControlSafety, PTL

(* An edit replaces exactly the revision before it: what precedes the      *)
(* current revision is superseded, what follows does not exist.            *)
THEOREM RevisionsSucceed == Spec => []OnlyCurrentRevisionLives
<1>1. ControlInvariant => OnlyCurrentRevisionLives
  BY DEF ControlInvariant
<1> QED BY <1>1, ControlSafety, PTL

(* Workers that execute the same employee's leave concurrently never book  *)
(* a day twice.                                                            *)
THEOREM LeaveNeverOverlaps == Spec => []NoOverlappingLeave
<1>1. ControlInvariant => NoOverlappingLeave
  BY DEF ControlInvariant
<1> QED BY <1>1, ControlSafety, PTL

(* What a worker revalidated under the employee lock stays true until it   *)
(* commits, whatever the other workers commit meanwhile.                   *)
THEOREM RevalidationHolds == Spec => []RevalidationStaysTrue
<1>1. ControlInvariant => RevalidationStaysTrue
  BY DEF ControlInvariant
<1> QED BY <1>1, ControlSafety, PTL

(* An open transaction holds its job's rows, and past the revalidation the *)
(* employee's lock.                                                        *)
THEOREM TransactionProtected == Spec => []LocksProtectJob
<1>1. ControlInvariant => LocksProtectJob
  BY DEF ControlInvariant
<1> QED BY <1>1, ControlSafety, PTL

(* The decision and the row an open transaction has written belong to one  *)
(* another, so that any end of it leaves both or neither.                  *)
THEOREM WriteIsWhole == Spec => []PendingWriteIsWhole
<1>1. ControlInvariant => PendingWriteIsWhole
  BY DEF ControlInvariant
<1> QED BY <1>1, ControlSafety, PTL

-----------------------------------------------------------------------------
(* Decided actions stay decided.                                           *)

(* What a step may not do to a terminal revision, or to a draft.           *)
Finality ==
  \A a \in ActionId, n \in RevisionNo :
    /\ state[a][n] \in TerminalStates => state'[a][n] = state[a][n]
    /\ state[a][n] # "NONE" => draft'[a][n] = draft[a][n]

(* Only the current revision, not yet terminal, moves.                     *)
LEMMA CurrentMoves ==
  ASSUME StoreTypeOK, NEW a \in ActionId, NEW to,
         CurrentState(a) \notin TerminalStates,
         Enter(a, current_revision[a], to), UNCHANGED draft
  PROVE  Finality
<1> DEFINE m == current_revision[a]
<1>1. \A b \in ActionId, n \in RevisionNo :
        ~(b = a /\ n = m) => state'[b][n] = state[b][n]
  BY DEF Enter, StoreTypeOK
<1>2. state[a][m] \notin TerminalStates
  BY DEF CurrentState
<1> QED BY <1>1, <1>2 DEF Finality

(* Expiring a lapsed action moves nothing that is terminal.                *)
LEMMA NormalizeIsFinal ==
  ASSUME StoreTypeOK, NEW a \in ActionId, NormalizeExpiry(a)
  PROVE  Finality
<1>1. CASE Lapsed(a)
  <2>1. CurrentState(a) \notin TerminalStates
    BY <1>1 DEF Lapsed, CurrentState, TerminalStates
  <2>2. Enter(a, current_revision[a], "EXPIRED") /\ UNCHANGED draft
    BY <1>1 DEF NormalizeExpiry, Expire
  <2> QED BY <2>1, <2>2, CurrentMoves
<1>2. CASE ~Lapsed(a)
  BY <1>2 DEF NormalizeExpiry, tableVars, Finality
<1> QED BY <1>1, <1>2

(* No step of any client undoes a decision or rewrites a draft.            *)
LEMMA StepIsFinal == ControlInvariant /\ [Next]_vars => Finality
<1> SUFFICES ASSUME ControlInvariant, [Next]_vars PROVE Finality
  OBVIOUS
<1>0. /\ TableInvariant
      /\ StoreTypeOK
      /\ WorkerInvariant
      /\ PrepareInvariant
  BY InvariantParts DEF TableInvariant
<1>1. CASE UNCHANGED <<state, draft>>
  BY <1>1 DEF Finality
<1>2. ASSUME NEW p \in Preparer, AttemptInsert(p)
      PROVE  Finality
  <2>1. CASE UNCHANGED tableVars
    BY <1>1, <2>1 DEF tableVars
  <2>2. ASSUME NEW a \in UnusedIds, NEW d,
               Enter(a, 1, "AWAITING_CONFIRMATION"),
               draft' = [draft EXCEPT ![a][1] = d]
        PROVE  Finality
    <3>1. a \in ActionId /\ \A n \in RevisionNo : state[a][n] = "NONE"
      BY <1>0, BoundAssumption
      DEF UnusedIds, Exists, TableInvariant, StoreTypeOK,
          OnlyCurrentRevisionLives, RevisionNo
    <3>2. \A b \in ActionId : b # a => state'[b] = state[b] /\ draft'[b] = draft[b]
      BY <1>0, <2>2 DEF Enter, StoreTypeOK
    <3> QED BY <3>1, <3>2 DEF Finality, TerminalStates
  <2> QED BY <1>2, <2>1, <2>2 DEF AttemptInsert
<1>3. ASSUME NEW p \in Preparer, ResolveOccupant(p)
      PROVE  Finality
  <2> DEFINE a == prepare[p].action
  <2>1. CASE UNCHANGED tableVars
    BY <1>1, <2>1 DEF tableVars
  <2>2. CASE Lapsed(a) /\ Expire(a)
    <3>1. a \in ActionId
      BY <1>0, <1>3 DEF ResolveOccupant, PrepareInvariant, PrepareCarries
    <3>2. NormalizeExpiry(a)
      BY <2>2 DEF NormalizeExpiry
    <3> QED BY <1>0, <3>1, <3>2, NormalizeIsFinal
  <2> QED BY <1>3, <2>1, <2>2 DEF ResolveOccupant
<1>4. ASSUME NEW s \in Session, NEW a \in ActionId, GetAction(s, a)
      PROVE  Finality
  BY <1>0, <1>4, NormalizeIsFinal DEF GetAction
<1>5. ASSUME NEW s \in Session, NEW a \in ActionId, NEW c \in ChallengeId,
             NEW token \in ChallengeId, Confirm(s, a, c, token)
      PROVE  Finality
  <2>1. CASE Accepts(s, a, c, token) /\ Consume(a, c)
    <3>1. CurrentState(a) \notin TerminalStates
      BY <2>1 DEF Accepts, CurrentState, TerminalStates
    <3>2. Enter(a, current_revision[a], "CONFIRMED") /\ UNCHANGED draft
      BY <2>1 DEF Consume
    <3> QED BY <1>0, <3>1, <3>2, CurrentMoves
  <2> QED BY <1>0, <1>5, <2>1, NormalizeIsFinal DEF Confirm
<1>6. ASSUME NEW s \in Session, NEW a \in ActionId, Cancel(s, a)
      PROVE  Finality
  <2>1. CASE CurrentState(a) \in CancelableStates /\ Withdraw(a)
    <3>1. CurrentState(a) \notin TerminalStates
      BY <2>1 DEF CancelableStates, TerminalStates
    <3>2. Enter(a, current_revision[a], "CANCELLED") /\ UNCHANGED draft
      BY <2>1 DEF Withdraw
    <3> QED BY <1>0, <3>1, <3>2, CurrentMoves
  <2> QED BY <1>0, <1>6, <2>1, NormalizeIsFinal DEF Cancel
<1>7. ASSUME NEW s \in Session, NEW a \in ActionId, NEW expected \in RevisionNo,
             NEW content \in Content, CreateRevision(s, a, expected, content)
      PROVE  Finality
  <2>1. CASE CurrentState(a) = "AWAITING_CONFIRMATION" /\ Revise(a, content)
    <3>1. PICK n \in RevisionNo : n = current_revision[a]
      BY <1>0, <1>7, CurrentIsRevision DEF CreateRevision, LockOwnedRevision
    <3>2. /\ n + 1 \in RevisionNo
          /\ n + 1 > n
      BY <2>1, <3>1, BoundAssumption DEF Revise, RevisionNo
    <3>3. state[a][n] = "AWAITING_CONFIRMATION" /\ state[a][n + 1] = "NONE"
      BY <1>0, <2>1, <3>1, <3>2
      DEF CurrentState, TableInvariant, OnlyCurrentRevisionLives
    <3>4. /\ \A b \in ActionId : b # a =>
               state'[b] = state[b] /\ draft'[b] = draft[b]
          /\ \A m \in RevisionNo : m # n /\ m # n + 1 =>
               state'[a][m] = state[a][m]
          /\ \A m \in RevisionNo : m # n + 1 => draft'[a][m] = draft[a][m]
      BY <1>0, <2>1, <3>1 DEF Revise, SupersedeRevision, StoreTypeOK
    <3> QED BY <3>3, <3>4 DEF Finality, TerminalStates
  <2> QED BY <1>0, <1>7, <2>1, NormalizeIsFinal DEF CreateRevision
<1>8. ASSUME NEW w \in Worker, Commit(w) \/ Abort(w) \/ SettleInDoubt(w)
      PROVE  Finality
  <2>1. CASE UNCHANGED tableVars
    BY <1>1, <2>1 DEF tableVars
  <2>2. CASE phase[w] \in OpenPhases /\ ApplyCommit(w, job[w])
    <3>1. job[w] \in ActionId /\ CurrentState(job[w]) \notin TerminalStates
      BY <1>0, <2>2, JobHeld DEF CurrentState, TerminalStates
    <3>2. /\ Enter(job[w], current_revision[job[w]], uncommitted[job[w]])
          /\ UNCHANGED draft
      BY <2>2 DEF ApplyCommit
    <3> QED BY <1>0, <3>1, <3>2, CurrentMoves
  <2> QED BY <1>8, <2>1, <2>2
       DEF Commit, Abort, SettleInDoubt, ApplyRollback, OpenPhases
<1>9. ASSUME NEW w \in Worker,
             \/ \E a \in ActionId : Claim(w, a)
             \/ BeginExecution(w) \/ Revalidate(w) \/ FinishLeave(w)
             \/ LoseAck(w) \/ Observe(w)
      PROVE  Finality
  <2>1. UNCHANGED tableVars
    BY <1>9 DEF Claim, BeginExecution, Revalidate, FinishLeave, LoseAck, Observe
  <2> QED BY <1>1, <2>1 DEF tableVars
<1>10. ASSUME \/ \E p \in Preparer, k \in RequestKey, content \in Content :
                   StartPrepare(p, k, content)
              \/ \E p \in Preparer : FindOccupant(p)
              \/ \E s \in Session, a \in ActionId, c \in ChallengeId :
                   IssueChallenge(s, a, c)
              \/ Tick
              \/ \E k \in RequestKey : ChangeAuthority(k)
              \/ UNCHANGED vars
       PROVE  Finality
  <2>1. UNCHANGED <<state, draft>>
    BY <1>10
    DEF StartPrepare, FindOccupant, IssueChallenge, Tick, ChangeAuthority,
        tableVars, vars
  <2> QED BY <1>1, <2>1
<1> QED BY <1>2, <1>3, <1>4, <1>5, <1>6, <1>7, <1>8, <1>9, <1>10 DEF Next

(* A terminal revision never moves again and an existing draft never       *)
(* changes: not by a replayed challenge, a late cancel, an edit, a retry   *)
(* of PREPARE or a worker that comes back after a lost acknowledgement.    *)
THEOREM DecisionsAreFinal == Spec => TerminalIsFinal
<1>1. ControlInvariant /\ [Next]_vars => Finality
  BY StepIsFinal
<1> QED BY <1>1, ControlSafety, PTL DEF Spec, TerminalIsFinal, Finality

-----------------------------------------------------------------------------
(* What PREPARE hands back.                                                *)

(* The step by which a call answers REUSED_EXISTING.                       *)
Reuses(p) ==
  LET a == prepare[p].action
      n == prepare[p].revision
  IN  /\ prepare[p].stage = "lock"
      /\ state[a][n] \in NonTerminalStates
      /\ prepare[p].key \in LeaveKey => ~Lapsed(a)
      /\ prepare'[p].action = a
      /\ prepare'[p].revision = n

(* A call that enters a stage by a step of its own.                        *)
LEMMA StageEntered ==
  ASSUME PrepareTypeOK, NEW p \in Preparer, NEW q \in Preparer, NEW disposition,
         Return(q, disposition),
         prepare'[p].stage # prepare[p].stage
  PROVE  /\ p = q
         /\ prepare'[p].stage = disposition
         /\ prepare'[p].action = prepare[p].action
         /\ prepare'[p].revision = prepare[p].revision
  BY DEF Return, PrepareTypeOK, PrepareCall

(* An attempt that goes round again, or gives up, reuses nothing.          *)
LEMMA NextAttemptReusesNothing ==
  ASSUME PrepareTypeOK, NEW p \in Preparer, NEW q \in Preparer, NextAttempt(q),
         prepare[p].stage # "REUSED_EXISTING"
  PROVE  prepare'[p].stage # "REUSED_EXISTING"
  BY DEF NextAttempt, PrepareTypeOK, PrepareCall

(* Only a call that has locked its occupant reuses it.                     *)
LEMMA OnlyResolveReuses ==
  ASSUME PrepareTypeOK, [Next]_vars, NEW p \in Preparer,
         prepare[p].stage # "REUSED_EXISTING",
         prepare'[p].stage = "REUSED_EXISTING"
  PROVE  Reuses(p)
<1>1. CASE UNCHANGED prepare
  BY <1>1
<1>2. ASSUME NEW q \in Preparer, NEW k \in RequestKey, NEW content \in Content,
             StartPrepare(q, k, content)
      PROVE  FALSE
  BY <1>2 DEF StartPrepare, PrepareTypeOK, PrepareCall
<1>3. ASSUME NEW q \in Preparer, AttemptInsert(q)
      PROVE  FALSE
  BY <1>3 DEF AttemptInsert, PrepareTypeOK, PrepareCall
<1>4. ASSUME NEW q \in Preparer, FindOccupant(q)
      PROVE  FALSE
  <2>1. CASE NextAttempt(q)
    BY <2>1, NextAttemptReusesNothing
  <2> QED BY <1>4, <2>1 DEF FindOccupant, PrepareTypeOK, PrepareCall
<1>5. ASSUME NEW q \in Preparer, ResolveOccupant(q)
      PROVE  Reuses(p)
  <2>1. CASE NextAttempt(q)
    BY <2>1, NextAttemptReusesNothing
  <2>2. CASE Return(q, "RETURNED_SUCCEEDED")
    BY <2>2, StageEntered
  <2>3. ASSUME state[prepare[q].action][prepare[q].revision] \in NonTerminalStates,
               ExpiresOccupant(prepare[q].key) => ~Lapsed(prepare[q].action),
               Return(q, "REUSED_EXISTING")
        PROVE  Reuses(p)
    <3>1. /\ p = q
          /\ prepare'[p].action = prepare[p].action
          /\ prepare'[p].revision = prepare[p].revision
      BY <2>3, StageEntered
    <3>2. prepare[p].stage = "lock"
      BY <1>5, <3>1 DEF ResolveOccupant
    <3> QED BY <2>3, <3>1, <3>2 DEF Reuses, ExpiresOccupant
  <2> QED BY <1>5, <2>1, <2>2, <2>3 DEF ResolveOccupant
<1> QED
  BY <1>1, <1>2, <1>3, <1>4, <1>5
  DEF Next, vars, EmployeeFrame, WorkerFrame, Tick, ChangeAuthority

(* The occupant a call reuses is the current revision of an action of its  *)
(* request, and the only one.                                              *)
LEMMA ReusedOccupant ==
  ASSUME ControlInvariant, NEW p \in Preparer, Reuses(p)
  PROVE  LET a == prepare[p].action
             n == prepare[p].revision
         IN  /\ a \in ActionId /\ n \in RevisionNo
             /\ business_request_key[a] = prepare[p].key
             /\ CurrentState(a) \in NonTerminalStates
             /\ Occupying(prepare[p].key) = {<<a, n>>}
<1> DEFINE a == prepare[p].action
           n == prepare[p].revision
<1>1. /\ a \in ActionId /\ n \in 1 .. current_revision[a]
      /\ business_request_key[a] = prepare[p].key
  BY DEF Reuses, ControlInvariant, PrepareCarries
<1>2. current_revision[a] \in 0 .. MaxRevision
  BY <1>1 DEF ControlInvariant, TypeOK, StoreTypeOK
<1>3. n \in RevisionNo
  BY <1>1, <1>2, BoundAssumption DEF RevisionNo
<1>4. n = current_revision[a]
  <2>1. state[a][n] # "SUPERSEDED"
    BY DEF Reuses, NonTerminalStates
  <2>2. ~(n < current_revision[a])
    BY <1>1, <1>3, <2>1 DEF ControlInvariant, OnlyCurrentRevisionLives
  <2> QED BY <1>1, <1>2, <2>2
<1>5. state[a][n] \in OccupyingStates
  BY DEF Reuses, NonTerminalStates, OccupyingStates
<1>6. ASSUME NEW an \in Occupying(prepare[p].key)
      PROVE  an = <<a, n>>
  <2>1. an \in ActionId \X RevisionNo
    BY <1>6 DEF Occupying
  <2>2. /\ business_request_key[an[1]] = business_request_key[a]
        /\ state[an[1]][an[2]] \in OccupyingStates
    BY <1>1, <1>6 DEF Occupying
  <2>3. an[1] = a /\ an[2] = n
    BY <1>1, <1>3, <1>5, <2>1, <2>2 DEF ControlInvariant, OneOccupantPerRequest
  <2> QED BY <2>1, <2>3
<1>7. <<a, n>> \in Occupying(prepare[p].key)
  BY <1>1, <1>3, <1>5 DEF Occupying
<1>8. CurrentState(a) \in NonTerminalStates
  BY <1>4 DEF Reuses, CurrentState
<1> QED BY <1>1, <1>3, <1>6, <1>7, <1>8

(* What PREPARE for leave says it reuses can still be confirmed or is      *)
(* about to be executed, however long the call waited for its rows.        *)
THEOREM ReusedLeaveLives == Spec => ReusedLeaveIsLive
<1> DEFINE Live ==
      \A p \in Preparer :
        /\ prepare[p].stage # "REUSED_EXISTING"
        /\ prepare'[p].stage = "REUSED_EXISTING"
        /\ prepare[p].key \in LeaveKey
        => LET a == prepare'[p].action
           IN  /\ business_request_key[a] = prepare[p].key
               /\ CurrentState(a) \in NonTerminalStates
               /\ ~Lapsed(a)
<1>1. ControlInvariant /\ [Next]_vars => Live
  <2> SUFFICES ASSUME ControlInvariant, [Next]_vars, NEW p \in Preparer,
                      prepare[p].stage # "REUSED_EXISTING",
                      prepare'[p].stage = "REUSED_EXISTING",
                      prepare[p].key \in LeaveKey
               PROVE  /\ business_request_key[prepare'[p].action] = prepare[p].key
                      /\ CurrentState(prepare'[p].action) \in NonTerminalStates
                      /\ ~Lapsed(prepare'[p].action)
    OBVIOUS
  <2>1. Reuses(p)
    BY OnlyResolveReuses DEF ControlInvariant, TypeOK
  <2>2. /\ prepare'[p].action = prepare[p].action
        /\ ~Lapsed(prepare[p].action)
    BY <2>1 DEF Reuses
  <2> QED BY <2>1, <2>2, ReusedOccupant
<1> QED BY <1>1, ControlSafety, PTL DEF Spec, ReusedLeaveIsLive

(* PREPARE for a ticket reuses the one occupant of its request, never a    *)
(* revision that was replaced or decided while the call waited.            *)
THEOREM ReusedTicketOccupies == Spec => ReusedTicketIsCurrent
<1> DEFINE Current ==
      \A p \in Preparer :
        /\ prepare[p].stage # "REUSED_EXISTING"
        /\ prepare'[p].stage = "REUSED_EXISTING"
        /\ prepare[p].key \notin LeaveKey
        => LET a == prepare'[p].action
           IN  /\ CurrentState(a) \in NonTerminalStates
               /\ Occupying(prepare[p].key) = {<<a, prepare'[p].revision>>}
<1>1. ControlInvariant /\ [Next]_vars => Current
  <2> SUFFICES ASSUME ControlInvariant, [Next]_vars, NEW p \in Preparer,
                      prepare[p].stage # "REUSED_EXISTING",
                      prepare'[p].stage = "REUSED_EXISTING"
               PROVE  /\ CurrentState(prepare'[p].action) \in NonTerminalStates
                      /\ Occupying(prepare[p].key)
                           = {<<prepare'[p].action, prepare'[p].revision>>}
    OBVIOUS
  <2>1. Reuses(p)
    BY OnlyResolveReuses DEF ControlInvariant, TypeOK
  <2>2. /\ prepare'[p].action = prepare[p].action
        /\ prepare'[p].revision = prepare[p].revision
    BY <2>1 DEF Reuses
  <2> QED BY <2>1, <2>2, ReusedOccupant
<1> QED BY <1>1, ControlSafety, PTL DEF Spec, ReusedTicketIsCurrent

-----------------------------------------------------------------------------
(* What a step commits.  Few shapes exist (StepCommits): nothing, a new    *)
(* action, a move of an unlocked action's current revision, an edit, or    *)
(* the worker's decision.                                                  *)

(* The columns the theorems below speak of.                                *)
ledgerVars == <<current_revision, business_request_key, state, draft,
                business_rows, audit>>

(* PREPARE inserts a new action for a request nobody occupies.             *)
Creates(a, k, d) ==
  /\ ~Exists(a)
  /\ Occupying(k) = {}
  /\ current_revision' = [current_revision EXCEPT ![a] = 1]
  /\ business_request_key' = [business_request_key EXCEPT ![a] = k]
  /\ Enter(a, 1, "AWAITING_CONFIRMATION")
  /\ draft' = [draft EXCEPT ![a][1] = d]
  /\ UNCHANGED business_rows

(* The current revision of an unlocked action moves: a lapsed one expires, *)
(* a live one is confirmed or cancelled.                                   *)
Advances(a, to) ==
  /\ Exists(a)
  /\ RowsFree(a)
  /\ CurrentState(a) \in NonTerminalStates
  /\ \/ to = "EXPIRED" /\ Lapsed(a)
     \/ to = "CANCELLED" /\ ~Lapsed(a)
     \/ /\ to = "CONFIRMED"
        /\ ~Lapsed(a)
        /\ CurrentState(a) = "AWAITING_CONFIRMATION"
  /\ Enter(a, current_revision[a], to)
  /\ UNCHANGED <<current_revision, business_request_key, draft, business_rows>>

(* The employee edits a live action that waits.                            *)
Edits(a, content) ==
  /\ Exists(a)
  /\ RowsFree(a)
  /\ CurrentState(a) = "AWAITING_CONFIRMATION"
  /\ ~Lapsed(a)
  /\ Revise(a, content)

(* A worker's transaction becomes visible.                                 *)
Settles(w) ==
  /\ phase[w] \in {"flushed", "in_doubt"}
  /\ ApplyCommit(w, job[w])

StepCommits ==
  \/ UNCHANGED ledgerVars
  \/ \E a \in ActionId, k \in RequestKey, d \in DraftPayload : Creates(a, k, d)
  \/ \E a \in ActionId : \E to \in {"EXPIRED", "CANCELLED", "CONFIRMED"} :
       Advances(a, to)
  \/ \E a \in ActionId, content \in Content : Edits(a, content)
  \/ \E w \in Worker : Settles(w)

(* Normalising the expiry commits nothing or an expiry.                    *)
LEMMA NormalizeCommits ==
  ASSUME NEW a \in ActionId, Exists(a), RowsFree(a), NormalizeExpiry(a)
  PROVE  UNCHANGED ledgerVars \/ Advances(a, "EXPIRED")
<1>1. CASE Lapsed(a)
  <2>1. CurrentState(a) \in NonTerminalStates
    BY <1>1 DEF Lapsed, CurrentState, NonTerminalStates
  <2> QED
    BY <1>1, <2>1 DEF NormalizeExpiry, Expire, Advances
<1>2. CASE ~Lapsed(a)
  BY <1>2 DEF NormalizeExpiry, tableVars, ledgerVars
<1> QED
  BY <1>1, <1>2

(* Every step has one of the shapes.                                       *)
LEMMA EveryStepCommits == ControlInvariant /\ [Next]_vars => StepCommits
<1> SUFFICES ASSUME ControlInvariant, [Next]_vars PROVE StepCommits
  OBVIOUS
<1>0. TableInvariant /\ WorkerInvariant /\ PrepareInvariant
  BY InvariantParts
<1>1. CASE UNCHANGED ledgerVars
  BY <1>1 DEF StepCommits
<1>2. CASE UNCHANGED tableVars
  BY <1>1, <1>2 DEF tableVars, ledgerVars
<1>3. ASSUME NEW a \in ActionId, Exists(a), RowsFree(a), NormalizeExpiry(a)
      PROVE  StepCommits
  BY <1>3, NormalizeCommits DEF StepCommits
<1>4. ASSUME NEW p \in Preparer, AttemptInsert(p)
      PROVE  StepCommits
  <2>1. prepare[p].key \in RequestKey /\ prepare[p].draft \in DraftPayload
    BY <1>0, <1>4
    DEF PrepareInvariant, PrepareCarries, AttemptInsert, ActiveStages
  <2>2. \A a \in UnusedIds : a \in ActionId /\ ~Exists(a)
    BY DEF UnusedIds
  <2> QED
    BY <1>2, <1>4, <2>1, <2>2 DEF AttemptInsert, Creates, StepCommits
<1>5. ASSUME NEW p \in Preparer, ResolveOccupant(p)
      PROVE  StepCommits
  <2> DEFINE a == prepare[p].action
  <2>1. CASE Lapsed(a) /\ Expire(a)
    <3>1. /\ a \in ActionId
          /\ prepare[p].revision \in 1 .. current_revision[a]
          /\ RowsFree(a)
      BY <1>0, <1>5 DEF ResolveOccupant, PrepareInvariant, PrepareCarries
    <3>2. current_revision[a] \in 0 .. MaxRevision
      BY <1>0, <3>1 DEF TableInvariant, StoreTypeOK
    <3>3. Exists(a)
      BY <3>1, <3>2, BoundAssumption DEF Exists
    <3>4. NormalizeExpiry(a)
      BY <2>1 DEF NormalizeExpiry
    <3> QED
      BY <1>3, <3>1, <3>3, <3>4
  <2> QED
    BY <1>2, <1>5, <2>1 DEF ResolveOccupant
<1>6. ASSUME NEW s \in Session, NEW a \in ActionId, GetAction(s, a)
      PROVE  StepCommits
  BY <1>3, <1>6 DEF GetAction, LockOwnedRevision
<1>7. ASSUME NEW s \in Session, NEW a \in ActionId, NEW c \in ChallengeId,
             NEW token \in ChallengeId, Confirm(s, a, c, token)
      PROVE  StepCommits
  <2>1. Exists(a) /\ RowsFree(a)
    BY <1>7 DEF Confirm, LockOwnedRevision
  <2>2. CASE Accepts(s, a, c, token) /\ Consume(a, c)
    <3>1. CurrentState(a) = "AWAITING_CONFIRMATION" /\ ~Lapsed(a)
      BY <2>2 DEF Accepts, CurrentState
    <3>2. Advances(a, "CONFIRMED")
      BY <2>1, <2>2, <3>1 DEF Consume, Advances, NonTerminalStates
    <3> QED
      BY <3>2 DEF StepCommits
  <2> QED
    BY <1>3, <1>7, <2>1, <2>2 DEF Confirm
<1>8. ASSUME NEW s \in Session, NEW a \in ActionId, Cancel(s, a)
      PROVE  StepCommits
  <2>1. Exists(a) /\ RowsFree(a)
    BY <1>8 DEF Cancel, LockOwnedRevision
  <2>2. CASE CurrentState(a) \in CancelableStates /\ ~Lapsed(a) /\ Withdraw(a)
    <3>1. Advances(a, "CANCELLED")
      BY <2>1, <2>2
      DEF Withdraw, Advances, CancelableStates, NonTerminalStates
    <3> QED
      BY <3>1 DEF StepCommits
  <2> QED
    BY <1>3, <1>8, <2>1, <2>2 DEF Cancel
<1>9. ASSUME NEW s \in Session, NEW a \in ActionId, NEW expected \in RevisionNo,
             NEW content \in Content, CreateRevision(s, a, expected, content)
      PROVE  StepCommits
  <2>1. Exists(a) /\ RowsFree(a)
    BY <1>9 DEF CreateRevision, LockOwnedRevision
  <2>2. CASE /\ CurrentState(a) = "AWAITING_CONFIRMATION"
             /\ ~Lapsed(a)
             /\ Revise(a, content)
    BY <2>1, <2>2 DEF Edits, StepCommits
  <2> QED
    BY <1>3, <1>9, <2>1, <2>2 DEF CreateRevision
<1>10. ASSUME NEW w \in Worker, Commit(w) \/ Abort(w) \/ SettleInDoubt(w)
       PROVE  StepCommits
  <2>1. CASE phase[w] \in {"flushed", "in_doubt"} /\ ApplyCommit(w, job[w])
    BY <2>1 DEF Settles, StepCommits
  <2> QED
    BY <1>2, <1>10, <2>1 DEF Commit, Abort, SettleInDoubt, ApplyRollback
<1>11. CASE \/ \E p \in Preparer, k \in RequestKey, content \in Content :
                 StartPrepare(p, k, content)
            \/ \E p \in Preparer : FindOccupant(p)
            \/ \E w \in Worker, a \in ActionId : Claim(w, a)
            \/ \E w \in Worker :
                 \/ BeginExecution(w) \/ Revalidate(w) \/ FinishLeave(w)
                 \/ LoseAck(w) \/ Observe(w)
            \/ Tick
            \/ \E k \in RequestKey : ChangeAuthority(k)
            \/ UNCHANGED vars
  <2>1. UNCHANGED tableVars
    BY <1>11
    DEF StartPrepare, FindOccupant, Claim, BeginExecution, Revalidate,
        FinishLeave, LoseAck, Observe, Tick, ChangeAuthority, vars
  <2> QED
    BY <1>2, <2>1
<1>12. ASSUME NEW s \in Session, NEW a \in ActionId, NEW c \in ChallengeId,
              IssueChallenge(s, a, c)
       PROVE  StepCommits
  BY <1>1, <1>12 DEF IssueChallenge, ledgerVars
<1> QED
  BY <1>4, <1>5, <1>6, <1>7, <1>8, <1>9, <1>10, <1>11, <1>12 DEF Next

-----------------------------------------------------------------------------
(* A lapsed action.                                                        *)

(* What a step may do to a lapsed action.                                  *)
OnlyExpires(a) ==
  Exists(a) /\ Lapsed(a) =>
    \/ state'[a] = state[a]
    \/ state'[a] = [state[a] EXCEPT ![current_revision[a]] = "EXPIRED"]
    \/ uncommitted[a] # "NONE"

(* A challenge that becomes active is for an action that has not lapsed.   *)
IssuedInTime(c) ==
  challenge'[c].status = "ACTIVE" =>
    challenge'[c] = challenge[c] \/ ~Lapsed(challenge'[c].action)

(* Only issue_challenge activates one, of an action it found alive.        *)
LEMMA ChallengesIssuedInTime ==
  ASSUME StoreTypeOK, [Next]_vars, NEW c \in ChallengeId
  PROVE  IssuedInTime(c)
<1>0. challenge \in [ChallengeId -> Challenge]
  BY DEF StoreTypeOK
<1>1. CASE UNCHANGED challenge
  BY <1>1 DEF IssuedInTime
<1>2. ASSUME NEW a, NEW n, challenge' = SupersedeActive(a, n)
      PROVE  IssuedInTime(c)
  BY <1>0, <1>2 DEF SupersedeActive, IssuedInTime, Challenge
<1>3. ASSUME NEW a, NormalizeExpiry(a)
      PROVE  IssuedInTime(c)
  BY <1>1, <1>2, <1>3 DEF NormalizeExpiry, Expire, tableVars
<1>4. ASSUME NEW s \in Session, NEW a \in ActionId, NEW d \in ChallengeId,
             IssueChallenge(s, a, d)
      PROVE  IssuedInTime(c)
  BY <1>0, <1>4 DEF IssueChallenge, SupersedeActive, IssuedInTime, Challenge
<1>5. ASSUME NEW s \in Session, NEW a \in ActionId, NEW d \in ChallengeId,
             NEW token \in ChallengeId, Confirm(s, a, d, token)
      PROVE  IssuedInTime(c)
  <2>1. CASE challenge' = [challenge EXCEPT ![d].status = "CONSUMED"]
    BY <1>0, <2>1 DEF IssuedInTime, Challenge
  <2> QED
    BY <1>3, <1>5, <2>1 DEF Confirm, Consume
<1>6. ASSUME NEW s \in Session, NEW a \in ActionId, Cancel(s, a)
      PROVE  IssuedInTime(c)
  BY <1>1, <1>2, <1>3, <1>6 DEF Cancel, Withdraw
<1>7. ASSUME NEW s \in Session, NEW a \in ActionId, NEW expected \in RevisionNo,
             NEW content \in Content, CreateRevision(s, a, expected, content)
      PROVE  IssuedInTime(c)
  BY <1>1, <1>2, <1>3, <1>7 DEF CreateRevision, Revise, tableVars
<1>8. ASSUME NEW s \in Session, NEW a \in ActionId, GetAction(s, a)
      PROVE  IssuedInTime(c)
  BY <1>3, <1>8 DEF GetAction
<1>9. ASSUME NEW p \in Preparer, AttemptInsert(p) \/ ResolveOccupant(p)
      PROVE  IssuedInTime(c)
  BY <1>1, <1>2, <1>9 DEF AttemptInsert, ResolveOccupant, Expire, tableVars
<1>10. ASSUME NEW w \in Worker, Commit(w) \/ SettleInDoubt(w) \/ Abort(w)
       PROVE  IssuedInTime(c)
  BY <1>1, <1>10
  DEF Commit, SettleInDoubt, Abort, ApplyCommit, ApplyRollback, tableVars
<1>11. CASE \/ \E p \in Preparer, k \in RequestKey, content \in Content :
                 StartPrepare(p, k, content)
            \/ \E p \in Preparer : FindOccupant(p)
            \/ \E w \in Worker, a \in ActionId : Claim(w, a)
            \/ \E w \in Worker :
                 \/ BeginExecution(w) \/ Revalidate(w) \/ FinishLeave(w)
                 \/ LoseAck(w) \/ Observe(w)
            \/ Tick
            \/ \E k \in RequestKey : ChangeAuthority(k)
            \/ UNCHANGED vars
  <2>1. UNCHANGED tableVars
    BY <1>11
    DEF StartPrepare, FindOccupant, Claim, BeginExecution, Revalidate,
        FinishLeave, LoseAck, Observe, Tick, ChangeAuthority, vars
  <2> QED
    BY <1>1, <2>1 DEF tableVars
<1> QED
  BY <1>4, <1>5, <1>6, <1>7, <1>8, <1>9, <1>10, <1>11 DEF Next

(* Nobody confirms, cancels, edits or executes a lapsed action: it expires *)
(* (_normalize_expiry of confirmation.py, the TTL checks of the executor), *)
(* unless the worker had decided it under lock before the TTL ran out.     *)
THEOREM LapsedActionsExpire == Spec => LapsedOnlyExpires
<1>1. ASSUME ControlInvariant, [Next]_vars, NEW a \in ActionId
      PROVE  OnlyExpires(a)
  <2>0. /\ StepCommits
        /\ TableInvariant
        /\ WorkerInvariant
        /\ StoreTypeOK
    BY <1>1, EveryStepCommits, InvariantParts DEF TableInvariant
  <2>1. CASE UNCHANGED ledgerVars
    BY <2>1 DEF ledgerVars, OnlyExpires
  <2>2. ASSUME NEW b \in ActionId, NEW k, NEW d, Creates(b, k, d)
        PROVE  OnlyExpires(a)
    BY <2>0, <2>2 DEF Creates, Enter, OnlyExpires, StoreTypeOK
  <2>3. ASSUME NEW b \in ActionId, NEW to, Advances(b, to)
        PROVE  OnlyExpires(a)
    BY <2>0, <2>3 DEF Advances, Enter, OnlyExpires, StoreTypeOK
  <2>4. ASSUME NEW b \in ActionId, NEW content, Edits(b, content)
        PROVE  OnlyExpires(a)
    BY <2>0, <2>4 DEF Edits, Revise, OnlyExpires, StoreTypeOK
  <2>5. ASSUME NEW w \in Worker, Settles(w)
        PROVE  OnlyExpires(a)
    <3>1. job[w] \in ActionId /\ uncommitted[job[w]] # "NONE"
      BY <2>0, <2>5
      DEF Settles, WorkerInvariant, LocksProtectJob, PendingWriteIsWhole,
          OpenPhases, TerminalStates
    <3>2. a # job[w] => state'[a] = state[a]
      BY <2>0, <2>5, <3>1 DEF Settles, ApplyCommit, Enter, StoreTypeOK
    <3> QED
      BY <3>1, <3>2 DEF OnlyExpires
  <2> QED
    BY <2>0, <2>1, <2>2, <2>3, <2>4, <2>5 DEF StepCommits
<1>2. ControlInvariant /\ [Next]_vars =>
        \A a \in ActionId : /\ OnlyExpires(a)
                            /\ \A c \in ChallengeId : IssuedInTime(c)
  BY <1>1, InvariantParts, ChallengesIssuedInTime DEF TableInvariant
<1>3. (\A a \in ActionId : /\ OnlyExpires(a)
                           /\ \A c \in ChallengeId : IssuedInTime(c))
      => \A a \in ActionId : Exists(a) /\ Lapsed(a) =>
           /\ \/ state'[a] = state[a]
              \/ state'[a] = [state[a] EXCEPT ![current_revision[a]] = "EXPIRED"]
              \/ uncommitted[a] # "NONE"
           /\ \A c \in ChallengeId :
                challenge'[c].action = a /\ challenge'[c].status = "ACTIVE" =>
                  challenge'[c] = challenge[c]
  BY DEF OnlyExpires, IssuedInTime
<1> QED
  BY <1>2, <1>3, ControlSafety, PTL DEF Spec, LapsedOnlyExpires

-----------------------------------------------------------------------------
(* The audit trail.                                                        *)

Trail(a, n) == {x \in audit : x.action = a /\ x.revision = n}

(* The trail of one revision is a path to the state it is in.              *)
Explained(a, n) ==
  IF state[a][n] = "NONE"
    THEN Trail(a, n) = {}
    ELSE /\ \E x \in Trail(a, n) : x.to = state[a][n]
         /\ \A x \in Trail(a, n) : x.from # state[a][n]
         /\ \A x \in Trail(a, n) : x.from # "NONE" =>
              \E y \in Trail(a, n) : y.to = x.from
         /\ \A x, y \in Trail(a, n) : x.to = y.to \/ x.from = y.from => x = y

(* The audit property revision by revision: what one step can disturb is   *)
(* one revision's transitions.                                             *)
LEMMA AuditByRevision ==
  /\ AuditExplainsState <=>
       \A a \in ActionId, n \in RevisionNo : Explained(a, n)
  /\ AuditExplainsState' <=>
       \A a \in ActionId, n \in RevisionNo : Explained(a, n)'
BY DEF AuditExplainsState, Explained, Trail

(* A revision that did not move and got no event stays explained.          *)
LEMMA ExplainedStays ==
  ASSUME NEW a, NEW n, Explained(a, n),
         state'[a][n] = state[a][n], Trail(a, n)' = Trail(a, n)
  PROVE  Explained(a, n)'
BY DEF Explained

(* A move of the life cycle enters a state the revision has not been in.   *)
LEMMA MoveIsFresh ==
  ASSUME AuditFollowsLifeCycle, NEW a, NEW n, Explained(a, n),
         NEW to, <<state[a][n], to>> \in LifeCycle, NEW x \in Trail(a, n)
  PROVE  x.to # to /\ x.from # to
<1> DEFINE T == Trail(a, n)
<1>1. \A y \in T : <<y.from, y.to>> \in LifeCycle
  BY DEF Trail, AuditFollowsLifeCycle
<1>2. T # {}
  OBVIOUS
<1>3. CASE state[a][n] = "AWAITING_CONFIRMATION"
  <2>1. /\ \A y \in T : y.from # "AWAITING_CONFIRMATION"
        /\ \A y \in T : y.from # "NONE" => \E z \in T : z.to = y.from
    BY <1>3 DEF Explained
  <2>2. \A y \in T : y.to # "CONFIRMED"
    BY <1>1, <2>1 DEF LifeCycle, NonTerminalStates
  <2>3. \A y \in T : y.from = "NONE" /\ y.to = "AWAITING_CONFIRMATION"
    BY <1>1, <2>1, <2>2 DEF LifeCycle, NonTerminalStates
  <2> QED
    BY <1>3, <2>3 DEF LifeCycle, NonTerminalStates
<1>4. CASE state[a][n] = "CONFIRMED"
  <2>1. /\ \A y \in T : y.from # "CONFIRMED"
        /\ \A y, z \in T : y.from = z.from => y = z
    BY <1>4 DEF Explained
  <2>2. PICK y \in T : y.to = "CONFIRMED"
    BY <1>4 DEF Explained
  <2>3. y.from = "AWAITING_CONFIRMATION"
    BY <1>1, <2>2 DEF LifeCycle, NonTerminalStates
  <2>4. \A z \in T : z.from = "AWAITING_CONFIRMATION" => z = y
    BY <2>1, <2>3
  <2>5. \A z \in T : \/ z.from = "NONE" /\ z.to = "AWAITING_CONFIRMATION"
                     \/ z.from = "AWAITING_CONFIRMATION" /\ z.to = "CONFIRMED"
    BY <1>1, <2>1, <2>2, <2>4 DEF LifeCycle, NonTerminalStates
  <2> QED
    BY <1>4, <2>5 DEF LifeCycle, NonTerminalStates
<1>5. CASE state[a][n] = "NONE"
  BY <1>2, <1>5 DEF Explained
<1> QED
  BY <1>3, <1>4, <1>5 DEF LifeCycle, NonTerminalStates

(* A state write with its event extends the path.                          *)
LEMMA MoveExplained ==
  ASSUME AuditFollowsLifeCycle, NEW a, NEW n, Explained(a, n),
         NEW to, <<state[a][n], to>> \in LifeCycle, state'[a][n] = to,
         NEW e, e.from = state[a][n], e.to = to,
         Trail(a, n)' = Trail(a, n) \cup {e}
  PROVE  Explained(a, n)'
<1> DEFINE T == Trail(a, n)
           s == state[a][n]
<1>1. \A x \in T : x.to # to /\ x.from # to
  BY MoveIsFresh
<1>2. to # "NONE" /\ s # to
  BY DEF LifeCycle, NonTerminalStates
<1>3. \A x \in T : x.from # s
  BY DEF Explained
<1>4. s # "NONE" => \E y \in T : y.to = s
  BY DEF Explained
<1>5. \A x \in T : x.from # "NONE" => \E y \in T : y.to = x.from
  BY DEF Explained
<1>6. \A x, y \in T : x.to = y.to \/ x.from = y.from => x = y
  BY DEF Explained
<1>7. e \in T \cup {e} /\ \A x \in T \cup {e} : x \in T \/ x = e
  OBVIOUS
<1> DEFINE U == T \cup {e}
<1>8. /\ \E x \in U : x.to = to
      /\ \A x \in U : x.from # to
      /\ \A x \in U : x.from # "NONE" => \E y \in U : y.to = x.from
      /\ \A x, y \in U : x.to = y.to \/ x.from = y.from => x = y
  BY <1>1, <1>2, <1>3, <1>4, <1>5, <1>6, <1>7
<1> HIDE DEF U
<1>9. Trail(a, n)' = U
  BY DEF U
<1> QED
  BY <1>2, <1>8, <1>9 DEF Explained

(* What Enter does to the audit trail.                                     *)
LEMMA EnterExplained ==
  ASSUME StoreTypeOK, AuditFollowsLifeCycle, AuditExplainsState,
         NEW a \in ActionId, NEW n \in RevisionNo, NEW to, Enter(a, n, to),
         <<state[a][n], to>> \in LifeCycle
  PROVE  AuditFollowsLifeCycle' /\ AuditExplainsState'
<1> DEFINE e == [action |-> a, revision |-> n, from |-> state[a][n], to |-> to]
<1>1. audit' = audit \cup {e}
  BY DEF Enter
<1>2. AuditFollowsLifeCycle'
  <2>1. <<e.from, e.to>> \in LifeCycle
    OBVIOUS
  <2> HIDE DEF e
  <2>2. \A x \in audit' : <<x.from, x.to>> \in LifeCycle
    BY <1>1, <2>1 DEF AuditFollowsLifeCycle
  <2>3. LifeCycle' = LifeCycle
    BY DEF LifeCycle, NonTerminalStates
  <2> QED
    BY <2>2, <2>3 DEF AuditFollowsLifeCycle
<1>3. ASSUME NEW b \in ActionId, NEW m \in RevisionNo
      PROVE  Explained(b, m)'
  <2>1. Explained(b, m)
    BY AuditByRevision
  <2>2. CASE b = a /\ m = n
    <3>1. Trail(b, m)' = Trail(b, m) \cup {e}
      BY <1>1, <2>2 DEF Trail
    <3>2. state'[b][m] = to
      BY <2>2 DEF Enter, StoreTypeOK
    <3>3. e.from = state[b][m] /\ e.to = to
      BY <2>2
    <3> HIDE DEF e
    <3> QED
      BY <2>1, <2>2, <3>1, <3>2, <3>3, MoveExplained
  <2>3. CASE ~(b = a /\ m = n)
    <3>1. Trail(b, m)' = Trail(b, m)
      BY <1>1, <2>3 DEF Trail
    <3>2. state'[b][m] = state[b][m]
      BY <2>3 DEF Enter, StoreTypeOK
    <3> QED
      BY <2>1, <3>1, <3>2, ExplainedStays
  <2> QED
    BY <2>2, <2>3
<1> QED
  BY <1>2, <1>3, AuditByRevision

(* An edit is two moves at once, of two revisions.                         *)
LEMMA EditExplained ==
  ASSUME TableInvariant, AuditFollowsLifeCycle, AuditExplainsState,
         NEW a \in ActionId, NEW content, Edits(a, content)
  PROVE  AuditFollowsLifeCycle' /\ AuditExplainsState'
<1> DEFINE n == current_revision[a]
           old == [action |-> a, revision |-> n,
                   from |-> "AWAITING_CONFIRMATION", to |-> "SUPERSEDED"]
           new == [action |-> a, revision |-> n + 1,
                   from |-> "NONE", to |-> "AWAITING_CONFIRMATION"]
<1>1. /\ n \in RevisionNo
      /\ n + 1 \in RevisionNo
      /\ n + 1 # n
      /\ state[a][n] = "AWAITING_CONFIRMATION"
      /\ state[a][n + 1] = "NONE"
  <2>1. n \in 0 .. MaxRevision /\ n > 0 /\ n < MaxRevision
    BY DEF Edits, Revise, Exists, TableInvariant, StoreTypeOK
  <2>2. n \in RevisionNo /\ n + 1 \in RevisionNo /\ n + 1 # n /\ n + 1 > n
    BY <2>1, BoundAssumption DEF RevisionNo
  <2> QED
    BY <2>2 DEF Edits, CurrentState, TableInvariant, OnlyCurrentRevisionLives
<1>2. audit' = audit \cup {old, new}
  BY DEF Edits, Revise
<1>3. /\ state'[a][n] = "SUPERSEDED"
      /\ state'[a][n + 1] = "AWAITING_CONFIRMATION"
      /\ \A m \in RevisionNo : m # n /\ m # n + 1 => state'[a][m] = state[a][m]
      /\ \A b \in ActionId : b # a => state'[b] = state[b]
  BY <1>1 DEF Edits, Revise, SupersedeRevision, TableInvariant, StoreTypeOK
<1>4. AuditFollowsLifeCycle'
  <2>1. <<old.from, old.to>> \in LifeCycle /\ <<new.from, new.to>> \in LifeCycle
    BY DEF LifeCycle
  <2> HIDE DEF old, new
  <2>2. \A x \in audit' : <<x.from, x.to>> \in LifeCycle
    BY <1>2, <2>1 DEF AuditFollowsLifeCycle
  <2>3. LifeCycle' = LifeCycle
    BY DEF LifeCycle, NonTerminalStates
  <2> QED
    BY <2>2, <2>3 DEF AuditFollowsLifeCycle
<1>5. ASSUME NEW b \in ActionId, NEW m \in RevisionNo
      PROVE  Explained(b, m)'
  <2>1. Explained(b, m)
    BY AuditByRevision
  <2>2. CASE b = a /\ m = n
    <3>1. Trail(b, m)' = Trail(b, m) \cup {old}
      BY <1>1, <1>2, <2>2 DEF Trail
    <3>2. old.from = state[b][m] /\ old.to = "SUPERSEDED" /\ state'[b][m] = "SUPERSEDED"
      BY <1>1, <1>3, <2>2
    <3>3. <<state[b][m], "SUPERSEDED">> \in LifeCycle
      BY <1>1, <2>2 DEF LifeCycle
    <3> HIDE DEF old, n
    <3> QED
      BY <2>1, <3>1, <3>2, <3>3, MoveExplained
  <2>3. CASE b = a /\ m = n + 1
    <3>1. Trail(b, m)' = Trail(b, m) \cup {new}
      BY <1>1, <1>2, <2>3 DEF Trail
    <3>2. /\ new.from = state[b][m] /\ new.to = "AWAITING_CONFIRMATION"
          /\ state'[b][m] = "AWAITING_CONFIRMATION"
      BY <1>1, <1>3, <2>3
    <3>3. <<state[b][m], "AWAITING_CONFIRMATION">> \in LifeCycle
      BY <1>1, <2>3 DEF LifeCycle
    <3> HIDE DEF new, n
    <3> QED
      BY <2>1, <3>1, <3>2, <3>3, MoveExplained
  <2>4. CASE ~(b = a /\ (m = n \/ m = n + 1))
    <3>1. Trail(b, m)' = Trail(b, m)
      BY <1>2, <2>4 DEF Trail
    <3>2. state'[b][m] = state[b][m]
      BY <1>3, <2>4
    <3> QED
      BY <2>1, <3>1, <3>2, ExplainedStays
  <2> QED
    BY <2>2, <2>3, <2>4
<1> QED
  BY <1>4, <1>5, AuditByRevision

(* Every commit keeps the trail a path.                                    *)
LEMMA AuditInductive ==
  ControlInvariant /\ AuditFollowsLifeCycle /\ AuditExplainsState /\ [Next]_vars
    => AuditFollowsLifeCycle' /\ AuditExplainsState'
<1> SUFFICES ASSUME ControlInvariant, AuditFollowsLifeCycle, AuditExplainsState,
                    [Next]_vars
             PROVE  AuditFollowsLifeCycle' /\ AuditExplainsState'
  OBVIOUS
<1>0. StepCommits /\ TableInvariant /\ WorkerInvariant /\ StoreTypeOK
  BY EveryStepCommits, InvariantParts DEF TableInvariant
<1>1. CASE UNCHANGED ledgerVars
  BY <1>1 DEF ledgerVars, AuditFollowsLifeCycle, AuditExplainsState
<1>2. ASSUME NEW a \in ActionId, NEW k, NEW d, Creates(a, k, d)
      PROVE  AuditFollowsLifeCycle' /\ AuditExplainsState'
  <2>1. 1 \in RevisionNo
    BY BoundAssumption DEF RevisionNo
  <2>2. state[a][1] = "NONE"
    BY <1>0, <1>2, <2>1, LivesOnlyIfExists DEF Creates
  <2>3. <<state[a][1], "AWAITING_CONFIRMATION">> \in LifeCycle
    BY <2>2 DEF LifeCycle
  <2> QED
    BY <1>0, <1>2, <2>1, <2>3, EnterExplained DEF Creates
<1>3. ASSUME NEW a \in ActionId, NEW to, Advances(a, to)
      PROVE  AuditFollowsLifeCycle' /\ AuditExplainsState'
  <2> DEFINE n == current_revision[a]
  <2>1. n \in RevisionNo
    BY <1>0, <1>3, CurrentIsRevision DEF Advances
  <2>2. <<state[a][n], to>> \in LifeCycle
    BY <1>3 DEF Advances, CurrentState, LifeCycle
  <2> QED
    BY <1>0, <1>3, <2>1, <2>2, EnterExplained DEF Advances
<1>4. ASSUME NEW a \in ActionId, NEW content, Edits(a, content)
      PROVE  AuditFollowsLifeCycle' /\ AuditExplainsState'
  BY <1>0, <1>4, EditExplained
<1>5. ASSUME NEW w \in Worker, Settles(w)
      PROVE  AuditFollowsLifeCycle' /\ AuditExplainsState'
  <2> DEFINE a == job[w]
             n == current_revision[a]
  <2>1. phase[w] \in OpenPhases
    BY <1>5 DEF Settles, OpenPhases
  <2>2. a \in ActionId /\ n \in RevisionNo /\ state[a][n] = "CONFIRMED"
    BY <1>0, <2>1, JobHeld
  <2>3. uncommitted[a] \in TerminalStates \ {"SUPERSEDED", "CANCELLED"}
    BY <1>0, <1>5 DEF Settles, WorkerInvariant, PendingWriteIsWhole
  <2>4. <<state[a][n], uncommitted[a]>> \in LifeCycle
    BY <2>2, <2>3 DEF LifeCycle, TerminalStates, NonTerminalStates
  <2> QED
    BY <1>0, <1>5, <2>2, <2>4, EnterExplained DEF Settles, ApplyCommit
<1> QED
  BY <1>0, <1>1, <1>2, <1>3, <1>4, <1>5 DEF StepCommits

-----------------------------------------------------------------------------
(* The leave ledger.                                                       *)

(* The worker has revalidated its job and not yet committed.               *)
Revalidated(w) == phase[w] = "locked" \/ pending_row[w] # NoRow

(* What the job of such a worker takes is still there.                     *)
Covered(w) ==
  Hours[business_request_key[job[w]]][DraftOf(job[w]).authority]
    <= Available(OwnerOf(job[w]))

(* A submitted leave request takes a natural number of hours.              *)
LEMMA RowHoursType ==
  ASSUME NEW r \in BusinessRow, r.key \in LeaveKey
  PROVE  RowHours(r) \in Nat
<1>1. r.draft.authority \in 0 .. MaxAuthority
  BY DEF BusinessRow, DraftPayload
<1> QED
  BY <1>1, RequestAssumption DEF RowHours

(* The hours an employee has submitted are a natural number.               *)
LEMMA SubmittedType ==
  ASSUME StoreTypeOK, IsFiniteSet(business_rows), NEW e
  PROVE  /\ IsFiniteSet(LeaveRows(e))
         /\ SubmittedHours(e) \in Int
<1>1. IsFiniteSet(LeaveRows(e))
  BY FS_Subset DEF LeaveRows
<1> DEFINE f == [r \in LeaveRows(e) |-> RowHours(r)]
<1>2. \A r \in LeaveRows(e) : f[r] \in Int
  BY RowHoursType DEF LeaveRows, StoreTypeOK
<1>3. SubmittedHours(e) = SumFunctionOnSet(f, LeaveRows(e))
  BY DEF SubmittedHours, SumFunction
<1> HIDE DEF f
<1>4. SumFunctionOnSet(f, LeaveRows(e)) \in Int
  BY <1>1, <1>2, SumInt
<1> QED
  BY <1>1, <1>3, <1>4

(* What the ledger adds up to depends on the employee's rows only.         *)
LEMMA SubmittedStays ==
  ASSUME NEW e, LeaveRows(e)' = LeaveRows(e)
  PROVE  SubmittedHours(e)' = SubmittedHours(e) /\ Available(e)' = Available(e)
BY DEF SubmittedHours, Available, RowHours

(* A new row of the employee's adds its hours.                             *)
LEMMA SubmittedGrows ==
  ASSUME StoreTypeOK, IsFiniteSet(business_rows), NEW e,
         NEW row \in BusinessRow, row \notin business_rows,
         row.key \in LeaveKey, KeyOwner[row.key] = e,
         business_rows' = business_rows \cup {row}
  PROVE  SubmittedHours(e)' = SubmittedHours(e) + RowHours(row)
<1> DEFINE S == LeaveRows(e)
           f == [r \in S |-> RowHours(r)]
           g == [r \in S \cup {row} |-> RowHours(r)]
<1>1. LeaveRows(e)' = S \cup {row} /\ row \notin S
  BY DEF LeaveRows
<1>2. IsFiniteSet(S)
  BY SubmittedType
<1>3. \A r \in S : f[r] \in Int /\ g[r] = f[r]
  BY RowHoursType DEF LeaveRows, StoreTypeOK
<1>4. g[row] = RowHours(row) /\ RowHours(row) \in Int
  BY RowHoursType
<1>5. SubmittedHours(e) = SumFunctionOnSet(f, S)
  BY DEF SubmittedHours, SumFunction
<1>6. SubmittedHours(e)' = SumFunctionOnSet(g, S \cup {row})
  BY <1>1 DEF SubmittedHours, SumFunction, RowHours
<1> HIDE DEF f, g, S
<1>7. SumFunctionOnSet(g, S \cup {row}) = SumFunctionOnSet(f, S) + g[row]
  <2>1. row \notin S /\ g[row] \in Int
    BY <1>1, <1>4
  <2> QED
    BY <1>2, <1>3, <2>1, SumAdd
<1> QED
  BY <1>4, <1>5, <1>6, <1>7

(* The action a transaction has locked keeps its request and its draft.    *)
LEMMA JobStays ==
  ASSUME ControlInvariant, [Next]_vars, NEW v \in Worker, phase[v] \in OpenPhases
  PROVE  /\ current_revision'[job[v]] = current_revision[job[v]]
         /\ business_request_key'[job[v]] = business_request_key[job[v]]
         /\ draft'[job[v]] = draft[job[v]]
<1>0. StepCommits /\ TableInvariant /\ WorkerInvariant /\ StoreTypeOK
  BY EveryStepCommits, InvariantParts DEF TableInvariant
<1>1. job[v] \in ActionId /\ Exists(job[v]) /\ CurrentState(job[v]) = "CONFIRMED"
  BY <1>0, JobHeld DEF CurrentState
<1>2. ASSUME NEW a \in ActionId, NEW k, NEW d, Creates(a, k, d)
      PROVE  /\ current_revision'[job[v]] = current_revision[job[v]]
             /\ business_request_key'[job[v]] = business_request_key[job[v]]
             /\ draft'[job[v]] = draft[job[v]]
  BY <1>0, <1>1, <1>2 DEF Creates, StoreTypeOK
<1>3. ASSUME NEW a \in ActionId, NEW content, Edits(a, content)
      PROVE  /\ current_revision'[job[v]] = current_revision[job[v]]
             /\ business_request_key'[job[v]] = business_request_key[job[v]]
             /\ draft'[job[v]] = draft[job[v]]
  BY <1>0, <1>1, <1>3 DEF Edits, Revise, StoreTypeOK
<1> QED
  BY <1>0, <1>2, <1>3
  DEF StepCommits, ledgerVars, Advances, Settles, ApplyCommit

(* A worker is past its revalidation because it was before the step, or    *)
(* because the step is the revalidation.                                   *)
RevalidatedBefore(v) ==
  /\ Revalidated(v)
  /\ job'[v] = job[v]
  /\ phase'[v] = "locked" => phase[v] = "locked"

RevalidatesNow(v) ==
  /\ phase[v] = "waiting"
  /\ UNCHANGED <<tableVars, job>>
  /\ ~AuthorityChanged(job[v])
  /\ ~InsufficientBalance(job[v])

(* A revalidated leave execution was revalidated before, with the same     *)
(* decision, or is in this very step: no other handler gives a worker a    *)
(* fresh decision.                                                         *)
LEMMA RevalidatedHow ==
  ASSUME ControlInvariant, [Next]_vars, NEW v \in Worker,
         Revalidated(v)', business_request_key'[job'[v]] \in LeaveKey
  PROVE  RevalidatedBefore(v) \/ RevalidatesNow(v)
<1>0. WorkerTypeOK /\ WorkerInvariant /\ TableInvariant
  BY InvariantParts DEF WorkerInvariant
<1>1. CASE phase'[v] = phase[v] /\ job'[v] = job[v] /\ pending_row'[v] = pending_row[v]
  BY <1>1 DEF Revalidated, RevalidatedBefore
<1>2. phase[v] \notin {"flushed", "in_doubt"} => pending_row[v] = NoRow
  BY <1>0 DEF WorkerInvariant, PendingWriteIsWhole
<1>3. ASSUME NEW w \in Worker,
             \/ \E a \in ActionId : Claim(w, a)
             \/ Commit(w) \/ Abort(w) \/ SettleInDoubt(w) \/ Observe(w)
      PROVE  RevalidatedBefore(v) \/ RevalidatesNow(v)
  <2>1. /\ w = v => phase'[v] # "locked" /\ pending_row'[v] = NoRow
        /\ w # v => /\ phase'[v] = phase[v]
                    /\ job'[v] = job[v]
                    /\ pending_row'[v] = pending_row[v]
    BY <1>0, <1>2, <1>3
    DEF Claim, Commit, Abort, SettleInDoubt, Observe, ApplyCommit,
        ApplyRollback, ReleaseLocks, Leave, WorkerTypeOK
  <2> QED
    BY <1>1, <2>1 DEF Revalidated
<1>4. ASSUME NEW w \in Worker, BeginExecution(w)
      PROVE  RevalidatedBefore(v) \/ RevalidatesNow(v)
  <2>1. w # v => /\ phase'[v] = phase[v]
                 /\ job'[v] = job[v]
                 /\ pending_row'[v] = pending_row[v]
    BY <1>0, <1>4 DEF BeginExecution, Write, Succeed, WorkerTypeOK
  <2>2. CASE w = v
    <3>1. business_request_key[job[v]] \in LeaveKey
      BY <1>4, <2>2 DEF BeginExecution, tableVars
    <3>2. phase'[v] # "locked" /\ pending_row'[v] = NoRow
      BY <1>0, <1>2, <1>4, <2>2, <3>1 DEF BeginExecution, Write, WorkerTypeOK
    <3> QED
      BY <3>2 DEF Revalidated
  <2> QED
    BY <1>1, <2>1, <2>2
<1>5. ASSUME NEW w \in Worker, Revalidate(w)
      PROVE  RevalidatedBefore(v) \/ RevalidatesNow(v)
  <2>1. w # v => /\ phase'[v] = phase[v]
                 /\ job'[v] = job[v]
                 /\ pending_row'[v] = pending_row[v]
    BY <1>0, <1>5 DEF Revalidate, Write, WorkerTypeOK
  <2>2. CASE w = v
    <3>1. ASSUME NEW to, Write(v, job[v], to, NoRow) PROVE FALSE
      BY <1>0, <3>1 DEF Write, Revalidated, WorkerTypeOK
    <3> QED
      BY <1>5, <2>2, <3>1 DEF Revalidate, RevalidatesNow
  <2> QED
    BY <1>1, <2>1, <2>2
<1>6. ASSUME NEW w \in Worker, FinishLeave(w) \/ LoseAck(w)
      PROVE  RevalidatedBefore(v) \/ RevalidatesNow(v)
  <2>1. w # v => /\ phase'[v] = phase[v]
                 /\ job'[v] = job[v]
                 /\ pending_row'[v] = pending_row[v]
    BY <1>0, <1>6 DEF FinishLeave, LoseAck, Write, Succeed, WorkerTypeOK
  <2>2. CASE w = v /\ FinishLeave(v)
    <3>1. phase[v] = "locked" /\ job'[v] = job[v]
      BY <2>2 DEF FinishLeave
    <3> QED
      BY <3>1 DEF Revalidated, RevalidatedBefore
  <2>3. CASE w = v /\ LoseAck(v)
    <3>1. /\ phase'[v] # "locked"
          /\ job'[v] = job[v]
          /\ pending_row'[v] = pending_row[v]
      BY <1>0, <2>3 DEF LoseAck, WorkerTypeOK
    <3> QED
      BY <3>1 DEF Revalidated, RevalidatedBefore
  <2> QED
    BY <1>1, <1>6, <2>1, <2>2, <2>3
<1>7. CASE UNCHANGED workerVars
  BY <1>1, <1>7 DEF workerVars
<1> QED
  BY <1>3, <1>4, <1>5, <1>6, <1>7
  DEF Next, PrepareFrame, EmployeeFrame, Tick, ChangeAuthority, vars

(* The commit of another worker adds nothing to the leave of an employee   *)
(* whose lock this worker holds.                                           *)
LEMMA LedgerHeld ==
  ASSUME ControlInvariant, [Next]_vars, NEW v \in Worker, RevalidatedBefore(v),
         Revalidated(v)', business_request_key[job[v]] \in LeaveKey
  PROVE  Available(OwnerOf(job[v]))' = Available(OwnerOf(job[v]))
<1> DEFINE e == OwnerOf(job[v])
<1>0. StepCommits /\ TableInvariant /\ WorkerInvariant
  BY EveryStepCommits, InvariantParts
<1>1. phase[v] \in OpenPhases /\ employee_lock[e] = v
  BY <1>0
  DEF RevalidatedBefore, Revalidated, WorkerInvariant, LocksProtectJob,
      PendingWriteIsWhole, OpenPhases
<1>2. e' = e
  BY <1>1, JobStays DEF RevalidatedBefore, OwnerOf
<1>3. CASE UNCHANGED business_rows
  BY <1>2, <1>3, SubmittedStays DEF LeaveRows
<1>4. ASSUME NEW w \in Worker, Settles(w)
      PROVE  Available(e)' = Available(e)
  <2>1. w # v
    <3>1. w = v => phase'[v] # "locked" /\ pending_row'[v] = NoRow
      BY <1>0, <1>4
      DEF Settles, ApplyCommit, ReleaseLocks, RevalidatedBefore,
          WorkerInvariant, WorkerTypeOK
    <3> QED
      BY <3>1 DEF Revalidated
  <2>2. CASE pending_row[w] # NoRow
    <3>1. /\ pending_row[w].key = business_request_key[job[w]]
          /\ pending_row[w].key \in LeaveKey =>
               employee_lock[KeyOwner[pending_row[w].key]] = w
      BY <1>0, <1>4, <2>2
      DEF Settles, WorkerInvariant, PendingWriteIsWhole, LocksProtectJob,
          OpenPhases, OwnerOf
    <3>2. ~(pending_row[w].key \in LeaveKey /\ KeyOwner[pending_row[w].key] = e)
      BY <1>1, <2>1, <3>1
    <3>3. business_rows' = business_rows \cup {pending_row[w]}
      BY <1>4, <2>2 DEF Settles, ApplyCommit
    <3>4. LeaveRows(e)' = LeaveRows(e)
      BY <1>2, <3>2, <3>3 DEF LeaveRows
    <3> QED
      BY <1>2, <3>4, SubmittedStays
  <2> QED
    BY <1>3, <1>4, <2>2 DEF Settles, ApplyCommit
<1> QED
  BY <1>0, <1>3, <1>4
  DEF StepCommits, ledgerVars, Creates, Advances, Edits, Revise

(* A commit finds the row it adds covered by what is left.                 *)
LEMMA CommitCovered ==
  ASSUME FullInvariant, NEW w \in Worker, Settles(w), NEW e \in Owner
  PROVE  SubmittedHours(e)' <= Balance[e]
<1> DEFINE row == pending_row[w]
           a == job[w]
<1>0. /\ TableInvariant
      /\ WorkerInvariant
      /\ StoreTypeOK
      /\ WorkerTypeOK
      /\ IsFiniteSet(business_rows)
      /\ SubmittedHours(e) <= Balance[e]
  BY InvariantParts
  DEF FullInvariant, LedgerInvariant, BalanceNeverOverdrawn, TableInvariant,
      WorkerInvariant
<1>1. CASE row = NoRow
  <2>1. business_rows' = business_rows
    BY <1>1 DEF Settles, ApplyCommit
  <2>2. LeaveRows(e)' = LeaveRows(e)
    BY <2>1 DEF LeaveRows
  <2> QED
    BY <1>0, <2>2, SubmittedStays
<1>2. CASE row # NoRow
  <2>1. business_rows' = business_rows \cup {row} /\ row \in BusinessRow
    BY <1>0, <1>2 DEF Settles, ApplyCommit, WorkerTypeOK
  <2>2. /\ row.action = a
        /\ row.key = business_request_key[a]
        /\ row.draft = DraftOf(a)
    BY <1>0, <1>2 DEF WorkerInvariant, PendingWriteIsWhole, DraftOf
  <2>3. phase[w] \in OpenPhases
    BY DEF Settles, OpenPhases
  <2>4. row \notin business_rows
    BY <1>0, <2>2, <2>3, NothingExists
  <2>5. CASE row.key \in LeaveKey /\ KeyOwner[row.key] = e
    <3>1. RowHours(row) <= Available(e)
      BY <1>2, <2>2, <2>5
      DEF FullInvariant, LedgerInvariant, RevalidationStaysCovered, OwnerOf,
          RowHours
    <3>2. SubmittedHours(e)' = SubmittedHours(e) + RowHours(row)
      BY <1>0, <2>1, <2>4, <2>5, SubmittedGrows
    <3>3. SubmittedHours(e) \in Int /\ RowHours(row) \in Nat /\ Balance[e] \in Nat
      BY <1>0, <2>1, <2>5, SubmittedType, RowHoursType, RequestAssumption
    <3>4. RowHours(row) <= Balance[e] - SubmittedHours(e)
      BY <3>1 DEF Available
    <3>5. SubmittedHours(e) + RowHours(row) <= Balance[e]
      BY <3>3, <3>4
    <3> QED
      BY <3>2, <3>5
  <2>6. CASE ~(row.key \in LeaveKey /\ KeyOwner[row.key] = e)
    <3>1. LeaveRows(e)' = LeaveRows(e)
      BY <2>1, <2>6 DEF LeaveRows
    <3> QED
      BY <1>0, <3>1, SubmittedStays
  <2> QED
    BY <2>5, <2>6
<1> QED
  BY <1>1, <1>2

(* Every step leaves the ledger finite and the balances covered.           *)
LEMMA LedgerInductive ==
  FullInvariant /\ [Next]_vars => LedgerInvariant'
<1> SUFFICES ASSUME FullInvariant, [Next]_vars PROVE LedgerInvariant'
  OBVIOUS
<1>0. /\ ControlInvariant
      /\ LedgerInvariant
      /\ StepCommits
      /\ WorkerInvariant
  BY EveryStepCommits, InvariantParts DEF FullInvariant
<1>1. AuditFollowsLifeCycle' /\ AuditExplainsState'
  BY <1>0, AuditInductive DEF LedgerInvariant
<1>2. IsFiniteSet(business_rows)'
  <2>1. CASE UNCHANGED business_rows
    BY <1>0, <2>1 DEF LedgerInvariant
  <2>2. ASSUME NEW w \in Worker, Settles(w)
        PROVE  IsFiniteSet(business_rows)'
    <3>1. \/ business_rows' = business_rows
          \/ business_rows' = business_rows \cup {pending_row[w]}
      BY <2>2 DEF Settles, ApplyCommit
    <3> QED
      BY <1>0, <3>1, FS_AddElement DEF LedgerInvariant
  <2> QED
    BY <1>0, <2>1, <2>2
    DEF StepCommits, ledgerVars, Creates, Advances, Edits, Revise
<1>3. BalanceNeverOverdrawn'
  <2>1. CASE UNCHANGED business_rows
    <3>1. \A e \in Owner : SubmittedHours(e)' = SubmittedHours(e)
      BY <2>1, SubmittedStays DEF LeaveRows
    <3> QED
      BY <1>0, <3>1 DEF LedgerInvariant, BalanceNeverOverdrawn
  <2>2. ASSUME NEW w \in Worker, Settles(w)
        PROVE  BalanceNeverOverdrawn'
    BY <2>2, CommitCovered DEF BalanceNeverOverdrawn
  <2> QED
    BY <1>0, <2>1, <2>2
    DEF StepCommits, ledgerVars, Creates, Advances, Edits, Revise
<1>4. RevalidationStaysCovered'
  <2> SUFFICES ASSUME NEW v \in Worker, Revalidated(v)',
                      business_request_key'[job'[v]] \in LeaveKey
               PROVE  Covered(v)'
    BY DEF RevalidationStaysCovered, Revalidated, Covered
  <2>1. CASE RevalidatedBefore(v)
    <3>1. phase[v] \in OpenPhases /\ job'[v] = job[v]
      BY <1>0, <2>1
      DEF RevalidatedBefore, Revalidated, WorkerInvariant, PendingWriteIsWhole,
          OpenPhases
    <3>2. /\ business_request_key'[job'[v]] = business_request_key[job[v]]
          /\ DraftOf(job[v])' = DraftOf(job[v])
          /\ OwnerOf(job[v])' = OwnerOf(job[v])
      BY <1>0, <3>1, JobStays DEF DraftOf, OwnerOf
    <3>3. Covered(v)
      BY <1>0, <2>1, <3>2
      DEF RevalidatedBefore, Revalidated, LedgerInvariant,
          RevalidationStaysCovered, Covered
    <3>4. Available(OwnerOf(job[v]))' = Available(OwnerOf(job[v]))
      BY <1>0, <2>1, <3>2, LedgerHeld
    <3> QED
      BY <3>1, <3>2, <3>3, <3>4 DEF Covered
  <2>2. CASE RevalidatesNow(v)
    <3>1. /\ UNCHANGED <<business_request_key, draft, current_revision,
                         business_rows, job>>
          /\ DraftOf(job[v]).authority = authority[business_request_key[job[v]]]
          /\ ~(Hours[business_request_key[job[v]]][authority[business_request_key[job[v]]]]
                 > Available(OwnerOf(job[v])))
      BY <2>2 DEF RevalidatesNow, AuthorityChanged, InsufficientBalance, tableVars
    <3>2. Covered(v)
      <4> DEFINE k == business_request_key[job[v]]
      <4>1. k \in LeaveKey /\ k \in RequestKey
        BY <3>1, RequestAssumption
      <4>2. authority[k] \in 0 .. MaxAuthority
        BY <1>0, <4>1 DEF ControlInvariant, TypeOK, StoreTypeOK
      <4>3. Hours[k][authority[k]] \in Nat
        BY <4>1, <4>2, RequestAssumption
      <4>4. KeyOwner[k] \in Owner /\ Balance[KeyOwner[k]] \in Nat
        BY <4>1, RequestAssumption
      <4>5. Available(OwnerOf(job[v])) \in Int
        BY <1>0, <4>4, SubmittedType
        DEF ControlInvariant, TypeOK, LedgerInvariant, Available, OwnerOf
      <4> HIDE DEF k
      <4>6. Hours[k][authority[k]] <= Available(OwnerOf(job[v]))
        BY <3>1, <4>3, <4>5 DEF k
      <4> QED
        BY <3>1, <4>6 DEF Covered, k
    <3>3. LeaveRows(OwnerOf(job[v]))' = LeaveRows(OwnerOf(job[v]))
      BY <3>1 DEF LeaveRows, OwnerOf
    <3>4. OwnerOf(job[v])' = OwnerOf(job[v])
      BY <3>1 DEF OwnerOf
    <3>5. Available(OwnerOf(job[v]))' = Available(OwnerOf(job[v]))
      BY <3>3, <3>4, SubmittedStays
    <3> QED
      BY <3>1, <3>2, <3>4, <3>5 DEF Covered, DraftOf
  <2> QED
    BY <1>0, <2>1, <2>2, RevalidatedHow
<1> QED
  BY <1>1, <1>2, <1>3, <1>4 DEF LedgerInvariant

(* No action, no row and no event to begin with.                           *)
LEMMA FullInit == Init => FullInvariant
<1> SUFFICES ASSUME Init PROVE FullInvariant
  OBVIOUS
<1>1. ControlInvariant
  BY InitTables, InitWorkers, InitPrepare, InvariantParts
<1>2. business_rows = {} /\ audit = {}
  BY DEF Init, StoreInit
<1>3. IsFiniteSet(business_rows)
  BY <1>2, FS_EmptySet
<1>4. BalanceNeverOverdrawn
  <2> SUFFICES ASSUME NEW e \in Owner PROVE SubmittedHours(e) <= Balance[e]
    BY DEF BalanceNeverOverdrawn
  <2> DEFINE f == [r \in {} |-> RowHours(r)]
  <2>1. LeaveRows(e) = {}
    BY <1>2 DEF LeaveRows
  <2>2. SubmittedHours(e) = SumFunctionOnSet(f, {})
    BY <2>1 DEF SubmittedHours, SumFunction
  <2> HIDE DEF f
  <2>3. SumFunctionOnSet(f, {}) = 0
    BY SumFirst, FS_EmptySet
  <2> QED
    BY <2>2, <2>3, RequestAssumption
<1>5. RevalidationStaysCovered
  BY DEF Init, WorkerInit, RevalidationStaysCovered
<1>6. AuditFollowsLifeCycle /\ AuditExplainsState
  BY <1>2 DEF AuditFollowsLifeCycle, AuditExplainsState, Init, StoreInit
<1> QED
  BY <1>1, <1>3, <1>4, <1>5, <1>6 DEF FullInvariant, LedgerInvariant

(* The ledgers of the control plane, for any number of workers, requests   *)
(* and employees: the full invariant is inductive.                         *)
THEOREM LedgersHold == Spec => []FullInvariant
<1>1. Init => FullInvariant
  BY FullInit
<1>2. FullInvariant /\ [Next]_vars => FullInvariant'
  BY ControlInductive, LedgerInductive DEF FullInvariant
<1> QED
  BY <1>1, <1>2, PTL DEF Spec

(* Leave that was eligible when it was prepared and again when it was      *)
(* executed never adds up to more than the balance, however many workers   *)
(* execute an employee's requests at a time: the advisory lock in          *)
(* atomic_execution.py orders them.                                        *)
THEOREM BalanceIsNeverOverdrawn == Spec => []BalanceNeverOverdrawn
<1>1. FullInvariant => BalanceNeverOverdrawn
  BY DEF FullInvariant, LedgerInvariant
<1> QED
  BY <1>1, LedgersHold, PTL

(* The audit events of a revision are exactly the path to its state:       *)
(* every handler and the executor write state and event together.          *)
THEOREM AuditIsComplete == Spec => []AuditExplainsState
<1>1. FullInvariant => AuditExplainsState
  BY DEF FullInvariant, LedgerInvariant
<1> QED
  BY <1>1, LedgersHold, PTL

-----------------------------------------------------------------------------
(* The promise.                                                            *)

Standing == [a \in ActionId |-> [n \in RevisionNo |-> StandingOf(state[a][n])]]

EffectOf(r) == [action |-> r.action, offer |-> r.revision, request |-> r.key,
                terms |-> r.draft]

Effects == {EffectOf(r) : r \in business_rows}

(* A state write, seen from the promise.                                   *)
LEMMA StandingMoves ==
  ASSUME StoreTypeOK, NEW a \in ActionId, NEW n \in RevisionNo, NEW to,
         Enter(a, n, to)
  PROVE  Standing' = [Standing EXCEPT ![a][n] = StandingOf(to)]
<1>1. /\ state'[a][n] = to
      /\ \A m \in RevisionNo : m # n => state'[a][m] = state[a][m]
      /\ \A b \in ActionId : b # a => state'[b] = state[b]
  BY DEF Enter, StoreTypeOK
<1> DEFINE row == [Standing[a] EXCEPT ![n] = StandingOf(to)]
           row1 == [m \in RevisionNo |-> StandingOf(state'[a][m])]
<1>2. row1 = row
  BY <1>1 DEF Standing
<1>3. Standing' = [b \in ActionId |-> IF b = a THEN row1 ELSE Standing[b]]
  BY <1>1 DEF Standing
<1>4. Standing = [b \in ActionId |-> Standing[b]]
  BY DEF Standing
<1>5. [Standing EXCEPT ![a] = row]
        = [b \in ActionId |-> IF b = a THEN row ELSE Standing[b]]
  BY <1>4
<1> QED
  BY <1>2, <1>3, <1>5

(* A first revision, by any of the ways to create an action, is the        *)
(* promise's Propose: nothing live occupies its request.                   *)
LEMMA CreationIsProposed ==
  ASSUME ControlInvariant, NEW a \in ActionId, NEW k \in RequestKey,
         NEW d \in DraftPayload, Creates(a, k, d)
  PROVE  Promise!Propose(a, k, d)
<1>0. StoreTypeOK /\ 1 \in RevisionNo
  BY BoundAssumption DEF ControlInvariant, TypeOK, RevisionNo
<1>1. current_revision[a] = 0
  BY <1>0, BoundAssumption DEF Creates, Exists, StoreTypeOK
<1>2. ASSUME NEW b \in ActionId, NEW n \in RevisionNo, business_request_key[b] = k
      PROVE  StandingOf(state[b][n]) \notin {"offered", "consented", "done"}
  <2>1. <<b, n>> \notin Occupying(k)
    BY DEF Creates
  <2>2. state[b][n] \notin OccupyingStates
    BY <1>2, <2>1 DEF Occupying
  <2> QED
    BY <2>2 DEF OccupyingStates, StandingOf
<1>3. Standing' = [Standing EXCEPT ![a][1] = "offered"]
  BY <1>0, StandingMoves DEF Creates, StandingOf
<1> QED
  BY <1>1, <1>2, <1>3
  DEF Creates, Promise!Propose, Promise!Engaged, Promise!Offer, Standing, RevisionNo

(* Whatever enters a state of the current revision is, in the promise, a   *)
(* drop or the employee's consent.                                         *)
LEMMA AdvanceIsAllowed ==
  ASSUME ControlInvariant, NEW a \in ActionId, NEW to, Advances(a, to)
  PROVE  Promise!Drop(a) \/ Promise!Consent(a)
<1> DEFINE n == current_revision[a]
<1>0. StoreTypeOK /\ n \in RevisionNo /\ n # 0
  BY CurrentIsRevision, InvariantParts, BoundAssumption
  DEF Advances, TableInvariant, RevisionNo
<1>1. Standing[a][n] = StandingOf(CurrentState(a))
  BY <1>0 DEF Standing, CurrentState
<1>2. Standing' = [Standing EXCEPT ![a][n] = StandingOf(to)]
  BY <1>0, StandingMoves DEF Advances
<1>3. CASE to = "CONFIRMED"
  BY <1>0, <1>1, <1>2, <1>3
  DEF Advances, Promise!Consent, Standing, StandingOf
<1>4. CASE to \in {"CANCELLED", "EXPIRED"}
  <2>1. StandingOf(to) = "dropped"
    BY <1>4 DEF StandingOf
  <2>2. StandingOf(CurrentState(a)) \in {"offered", "consented"}
    BY DEF Advances, NonTerminalStates, StandingOf
  <2> QED
    BY <1>0, <1>1, <1>2, <2>1, <2>2 DEF Advances, Promise!Drop, Standing
<1> QED
  BY <1>3, <1>4 DEF Advances

(* A revision of an open action is the promise's Amend.                    *)
LEMMA EditIsAmendment ==
  ASSUME ControlInvariant, NEW a \in ActionId, NEW content \in Content,
         Edits(a, content)
  PROVE  \E t \in DraftPayload : Promise!Amend(a, t)
<1> DEFINE n == current_revision[a]
           k == business_request_key[a]
           t == LiveDraft(k, content)
<1>0. StoreTypeOK /\ TableInvariant
  BY InvariantParts DEF TableInvariant
<1>1. n \in 1 .. MaxRevision - 1 /\ n \in RevisionNo /\ n + 1 \in RevisionNo /\ n # n + 1
  <2>1. n \in 0 .. MaxRevision /\ n > 0 /\ n < MaxRevision
    BY <1>0 DEF Edits, Revise, Exists, StoreTypeOK
  <2> QED
    BY <2>1, BoundAssumption DEF RevisionNo
<1>2. k \in RequestKey /\ t \in DraftPayload
  <2>1. k \in RequestKey
    BY <1>0, <1>1 DEF TableInvariant, OnlyCurrentRevisionLives
  <2>2. authority[k] \in 0 .. MaxAuthority
    BY <1>0, <2>1 DEF StoreTypeOK
  <2> QED
    BY <2>1, <2>2 DEF LiveDraft, DraftPayload
<1>3. Standing[a][n] = "offered"
  BY <1>1 DEF Edits, CurrentState, Standing, StandingOf
<1>4. Standing' = [Standing EXCEPT ![a] =
                     [@ EXCEPT ![n] = "dropped", ![n + 1] = "offered"]]
  <2>1. /\ \A m \in RevisionNo :
             state'[a][m] = IF m = n + 1 THEN "AWAITING_CONFIRMATION"
                            ELSE IF m = n THEN "SUPERSEDED" ELSE state[a][m]
        /\ \A b \in ActionId : b # a => state'[b] = state[b]
    BY <1>0, <1>1 DEF Edits, Revise, SupersedeRevision, StoreTypeOK
  <2> DEFINE row == [Standing[a] EXCEPT ![n] = "dropped", ![n + 1] = "offered"]
             row1 == [m \in RevisionNo |-> StandingOf(state'[a][m])]
  <2>2. row1 = row
    <3>1. StandingOf("AWAITING_CONFIRMATION") = "offered"
      BY DEF StandingOf
    <3>2. StandingOf("SUPERSEDED") = "dropped"
      BY DEF StandingOf
    <3>3. \A m \in RevisionNo :
            row1[m] = IF m = n + 1 THEN "offered"
                      ELSE IF m = n THEN "dropped" ELSE Standing[a][m]
      BY <2>1, <3>1, <3>2 DEF Standing
    <3>4. Standing[a] = [m \in RevisionNo |-> Standing[a][m]]
      BY DEF Standing
    <3> HIDE DEF n
    <3> QED
      BY <1>1, <3>3, <3>4
  <2>3. Standing' = [b \in ActionId |-> IF b = a THEN row1 ELSE Standing[b]]
    BY <2>1 DEF Standing
  <2>4. Standing = [b \in ActionId |-> Standing[b]]
    BY DEF Standing
  <2>5. [Standing EXCEPT ![a] = row]
          = [b \in ActionId |-> IF b = a THEN row ELSE Standing[b]]
    BY <2>4
  <2> QED
    BY <2>2, <2>3, <2>5
<1>5. Promise!Amend(a, t)
  BY <1>1, <1>3, <1>4 DEF Edits, Revise, Promise!Amend, Standing
<1> QED
  BY <1>2, <1>5

(* What the executor writes is, in the promise, a drop or the carrying out *)
(* of what was consented to.                                               *)
LEMMA SettlementIsAllowed ==
  ASSUME ControlInvariant, NEW w \in Worker, Settles(w), NEW a, a = job[w]
  PROVE  Promise!Drop(a) \/ Promise!CarryOut(a)
<1> DEFINE n == current_revision[a]
           to == uncommitted[a]
           row == pending_row[w]
<1>0. /\ StoreTypeOK
      /\ TableInvariant
      /\ WorkerInvariant
      /\ phase[w] \in OpenPhases
  BY InvariantParts DEF TableInvariant, Settles, OpenPhases
<1>1. /\ a \in ActionId
      /\ n \in RevisionNo
      /\ n # 0
      /\ state[a][n] = "CONFIRMED"
  BY <1>0, JobHeld, BoundAssumption DEF RevisionNo
<1>2. Standing[a][n] = "consented"
  BY <1>1 DEF Standing, StandingOf
<1>3. Standing' = [Standing EXCEPT ![a][n] = StandingOf(to)]
  BY <1>0, <1>1, StandingMoves DEF Settles, ApplyCommit
<1>4. UNCHANGED <<business_request_key, current_revision, draft>>
  BY DEF Settles, ApplyCommit
<1>5. CASE to = "SUCCEEDED"
  <2>1. /\ row # NoRow
        /\ EffectOf(row) = [action |-> a, offer |-> n,
                           request |-> business_request_key[a],
                           terms |-> draft[a][n]]
    BY <1>0, <1>5
    DEF Settles, WorkerInvariant, PendingWriteIsWhole, EffectOf
  <2>2. business_rows' = business_rows \cup {row}
    BY <2>1 DEF Settles, ApplyCommit
  <2>3. Effects' = Effects \cup {EffectOf(row)}
    BY <2>2 DEF Effects, EffectOf
  <2>4. StandingOf(to) = "done"
    BY <1>5 DEF StandingOf
  <2> QED
    BY <1>1, <1>2, <1>3, <1>4, <2>1, <2>3, <2>4
    DEF Promise!CarryOut, Standing, Effects, EffectOf
<1>6. CASE to # "SUCCEEDED"
  <2>1. to \in TerminalStates /\ row = NoRow
    BY <1>0, <1>6 DEF Settles, WorkerInvariant, PendingWriteIsWhole
  <2>2. UNCHANGED business_rows
    BY <2>1 DEF Settles, ApplyCommit
  <2>3. StandingOf(to) = "dropped"
    BY <1>6, <2>1 DEF StandingOf, TerminalStates
  <2> QED
    BY <1>1, <1>2, <1>3, <1>4, <2>2, <2>3
    DEF Promise!Drop, Standing
<1> QED
  BY <1>5, <1>6

(* The control plane implements the promise: nothing is carried out        *)
(* without consent to the very terms, nothing twice, and every step of any *)
(* client is one of the promise's or none.  This is the refinement the     *)
(* whole confirmation protocol exists for.                                 *)
THEOREM PromiseIsKept == Spec => KeepsPromise
<1>1. Init => Promise!AbstractInit
  <2> SUFFICES ASSUME StoreInit PROVE Promise!AbstractInit
    BY DEF Init
  <2>1. Standing = [a \in ActionId |-> [n \in RevisionNo |-> "none"]]
    BY DEF StoreInit, Standing, StandingOf
  <2> QED
    BY <2>1 DEF StoreInit, Promise!AbstractInit, Promise!Offer, Standing, RevisionNo
<1>2. ControlInvariant /\ [Next]_vars => [Promise!AbstractNext]_(Promise!absVars)
  <2> SUFFICES ASSUME ControlInvariant, [Next]_vars
               PROVE  Promise!AbstractNext \/ UNCHANGED Promise!absVars
    OBVIOUS
  <2>0. StepCommits
    BY EveryStepCommits
  <2>1. CASE UNCHANGED ledgerVars
    BY <2>1 DEF ledgerVars, Promise!absVars
  <2>2. ASSUME NEW a \in ActionId, NEW k \in RequestKey, NEW d \in DraftPayload,
               Creates(a, k, d)
        PROVE  Promise!AbstractNext
    BY <2>2, CreationIsProposed DEF Promise!AbstractNext
  <2>3. ASSUME NEW a \in ActionId, NEW to, Advances(a, to)
        PROVE  Promise!AbstractNext
    BY <2>3, AdvanceIsAllowed DEF Promise!AbstractNext
  <2>4. ASSUME NEW a \in ActionId, NEW content \in Content, Edits(a, content)
        PROVE  Promise!AbstractNext
    BY <2>4, EditIsAmendment DEF Promise!AbstractNext
  <2>5. ASSUME NEW w \in Worker, Settles(w)
        PROVE  Promise!AbstractNext
    <3>1. PICK a \in ActionId : a = job[w]
      BY <2>5, JobHeld, InvariantParts DEF Settles, OpenPhases
    <3>2. Promise!Drop(a) \/ Promise!CarryOut(a)
      BY <2>5, <3>1, SettlementIsAllowed
    <3> QED
      BY <3>2 DEF Promise!AbstractNext
  <2> QED
    BY <2>0, <2>1, <2>2, <2>3, <2>4, <2>5 DEF StepCommits
<1> QED
  BY <1>1, <1>2, ControlSafety, PTL DEF Spec, KeepsPromise, Promise!AbstractSpec

-----------------------------------------------------------------------------
(* Pages.  What a page has read is history: the action is still there,     *)
(* with that wording of that revision, the event that entered the state is *)
(* in the trail, and a state that was final is still the state.            *)

ItemFields == {"action", "key", "revision", "state", "draft", "live_until", "result"}
PageFields == {"stage", "session", "action", "since", "items", "trail", "total"}
Stages ==
  {"idle", "opened", "revision", "trail", "detail", "counted", "listed", "leave_read", "list"}

(* An item stands for what its action once was.                            *)
ItemHolds(i) ==
  /\ DOMAIN i = ItemFields
  /\ i.action \in ActionId /\ i.key = business_request_key[i.action]
  /\ i.revision \in 1 .. current_revision[i.action]
  /\ i.state \in WorkflowState \ {"SUPERSEDED"}
  /\ i.draft = draft[i.action][i.revision]
  /\ i.state \in TerminalStates => state[i.action][i.revision] = i.state
  /\ \E x \in audit : x.action = i.action /\ x.revision = i.revision /\ x.to = i.state

ResultRead(i) ==
  /\ i.state = "SUCCEEDED" =>
       i.result # NoRow /\ i.result.revision = i.revision /\ i.result.draft = i.draft
  /\ i.state \in TerminalStates \ {"SUCCEEDED"} => i.result = NoRow
  /\ i.result # NoRow =>
       i.result \in business_rows /\ i.result.action = i.action /\ i.result.revision >= i.revision

LiveUntil(a) ==
  IF CurrentState(a) = "AWAITING_CONFIRMATION"
  THEN action_expires_at[a][current_revision[a]]
  ELSE confirmed_expires_at[a][current_revision[a]]

(* What is shown as open was open after the moment t.                      *)
OpenAfter(a, t) == CurrentState(a) \in NonTerminalStates => LiveUntil(a) > t
ShownOpenAfter(i, t) == i.state \in NonTerminalStates => i.live_until > t

Distinct(items) == \A i, j \in items : i.action = j.action => i = j
Own(e) == {a \in ActionId : Exists(a) /\ OwnerOf(a) = e}
Full(total) == IF total < ListLimit THEN total ELSE ListLimit

(* What holds of a page p, whichever stage it has reached.                 *)
PageTypeOK(p) ==
  /\ DOMAIN p = PageFields
  /\ p.stage \in Stages
  /\ p.since \in Nat /\ p.since <= now
  /\ p.total \in Nat
  /\ p.stage \in {"idle", "opened", "counted"} => p.items = {}

ItemsHold(p) == \A i \in p.items : ItemHolds(i) /\ KeyOwner[i.key] = SessionOwner[p.session]

DetailHolds(p) ==
  /\ p.stage = "opened" => p.action \in ActionId /\ Exists(p.action) /\ OpenAfter(p.action, p.since)
  /\ p.stage \in {"revision", "trail", "detail"} =>
       \A i \in p.items : i.action = p.action /\ ShownOpenAfter(i, p.since)
  /\ p.stage \in {"trail", "detail"} =>
       \A i \in p.items : \E x \in p.trail : x.revision = i.revision /\ x.to = i.state

ListHolds(p) ==
  /\ p.stage = "counted" => p.total <= Cardinality(Own(SessionOwner[p.session]))
  /\ p.stage \in {"listed", "leave_read", "list"} =>
       /\ Distinct(p.items) /\ IsFiniteSet(p.items)
       /\ Cardinality(p.items) >= Full(p.total)

ResultsRead(p) ==
  \A i \in p.items :
    \/ p.stage \in {"detail", "list"}
    \/ p.stage = "leave_read" /\ i.key \in LeaveKey
    => ResultRead(i)

PageHolds(p) ==
  PageTypeOK(p) /\ ItemsHold(p) /\ DetailHolds(p) /\ ListHolds(p) /\ ResultsRead(p)

PageInvariant ==
  /\ FullInvariant
  /\ IsFiniteSet({a \in ActionId : Exists(a)})
  /\ PageHolds(page)

-----------------------------------------------------------------------------
(* The world of the pages.                                                 *)

(* Actions, revisions, audit events and rows only ever come to be.         *)
Grows ==
  /\ \A a \in ActionId : Exists(a) =>
       /\ current_revision'[a] >= current_revision[a]
       /\ business_request_key'[a] = business_request_key[a]
  /\ audit \subseteq audit'
  /\ business_rows \subseteq business_rows'
  /\ \E b : \A a \in ActionId : current_revision'[a] > 0 => Exists(a) \/ a = b

(* No handler deletes a row or rewrites one: actions, transitions and      *)
(* outcome rows are only added, deadlines and request keys are fixed.      *)
LEMMA TablesGrow == ControlInvariant /\ [Next]_vars => Grows
<1> SUFFICES ASSUME ControlInvariant, [Next]_vars PROVE Grows
  OBVIOUS
<1>1. StepCommits
  BY EveryStepCommits
<1>2. /\ current_revision \in [ActionId -> 0 .. MaxRevision] /\ MaxRevision \in Nat
      /\ business_request_key \in [ActionId -> RequestKey \cup {NoKey}]
  BY BoundAssumption DEF ControlInvariant, TypeOK, StoreTypeOK
<1>3. \A a \in ActionId : current_revision[a] \in Int
  BY <1>2
<1>4. ASSUME UNCHANGED <<current_revision, business_request_key>>,
             audit \subseteq audit', business_rows \subseteq business_rows'
      PROVE  Grows
  BY <1>3, <1>4 DEF Grows, Exists
<1>5. CASE UNCHANGED ledgerVars
  BY <1>4, <1>5 DEF ledgerVars
<1>6. ASSUME NEW a \in ActionId, NEW k \in RequestKey, NEW d \in DraftPayload, Creates(a, k, d)
      PROVE  Grows
  <2>1. /\ ~Exists(a)
        /\ current_revision' = [current_revision EXCEPT ![a] = 1]
        /\ business_request_key' = [business_request_key EXCEPT ![a] = k]
        /\ audit \subseteq audit' /\ business_rows' = business_rows
    BY <1>6 DEF Creates, Enter
  <2>2. \A b \in ActionId : b # a => current_revision'[b] = current_revision[b]
                                   /\ business_request_key'[b] = business_request_key[b]
    BY <1>2, <2>1
  <2>3. \A b \in ActionId : Exists(b) => b # a
    BY <2>1
  <2>4. \A b \in ActionId : current_revision'[b] > 0 => Exists(b) \/ b = a
    BY <2>2 DEF Exists
  <2> QED
    BY <1>3, <2>1, <2>2, <2>3, <2>4 DEF Grows
<1>7. ASSUME NEW a \in ActionId, NEW to, Advances(a, to)
      PROVE  Grows
  BY <1>4, <1>7 DEF Advances, Enter
<1>8. ASSUME NEW a \in ActionId, NEW content \in Content, Edits(a, content)
      PROVE  Grows
  <2>1. /\ Exists(a)
        /\ current_revision' = [current_revision EXCEPT ![a] = current_revision[a] + 1]
        /\ business_request_key' = business_request_key
        /\ audit \subseteq audit' /\ business_rows' = business_rows
    BY <1>8 DEF Edits, Revise
  <2>2. \A b \in ActionId : b # a => current_revision'[b] = current_revision[b]
    BY <1>2, <2>1
  <2>3. current_revision'[a] = current_revision[a] + 1
    BY <1>2, <2>1
  <2>4. \A b \in ActionId : current_revision'[b] >= current_revision[b]
    BY <1>3, <2>2, <2>3
  <2>5. \A b \in ActionId : current_revision'[b] > 0 => Exists(b)
    BY <2>1, <2>2 DEF Exists
  <2> QED
    BY <2>1, <2>4, <2>5 DEF Grows
<1>9. ASSUME NEW w \in Worker, Settles(w)
      PROVE  Grows
  <2>1. /\ UNCHANGED <<current_revision, business_request_key>>
        /\ audit \subseteq audit' /\ business_rows \subseteq business_rows'
    BY <1>9 DEF Settles, ApplyCommit, Enter
  <2> QED
    BY <1>4, <2>1
<1> QED
  BY <1>1, <1>5, <1>6, <1>7, <1>8, <1>9 DEF StepCommits

(* A step adds at most one action, so the portal always reads a finite     *)
(* set.                                                                    *)
LEMMA FewActions ==
  ASSUME ControlInvariant, [Next]_vars, IsFiniteSet({a \in ActionId : Exists(a)})
  PROVE  IsFiniteSet({a \in ActionId : Exists(a)})'
<1> DEFINE old == {a \in ActionId : Exists(a)}
           new == {a \in ActionId : current_revision'[a] > 0}
<1>1. PICK b : \A a \in ActionId : current_revision'[a] > 0 => Exists(a) \/ a = b
  BY TablesGrow DEF Grows
<1>2. new \in SUBSET (old \cup {b})
  BY <1>1
<1>3. IsFiniteSet(old \cup {b})
  BY FS_AddElement
<1> HIDE DEF new, old
<1>4. IsFiniteSet(new)
  BY <1>2, <1>3, FS_Subset
<1> QED
  BY <1>4 DEF new, Exists

(* A step that touches an action leaves it decided, or open until a later  *)
(* moment than this one.                                                   *)
StaysPut(a) ==
  /\ current_revision'[a] = current_revision[a] /\ state'[a] = state[a]
  /\ action_expires_at'[a] = action_expires_at[a]
  /\ confirmed_expires_at'[a] = confirmed_expires_at[a]
Settled(a, n) ==
  \/ state'[a][n] \notin NonTerminalStates
  \/ state'[a][n] = "AWAITING_CONFIRMATION" /\ action_expires_at'[a][n] > now
  \/ state'[a][n] = "CONFIRMED" /\ confirmed_expires_at'[a][n] > now
DeadlineMoves(a) == StaysPut(a) \/ Settled(a, current_revision'[a])

(* Entering a state leaves every action where it was, or decided, or open  *)
(* until a later moment than this one.                                     *)
LEMMA EnterSettles ==
  ASSUME StoreTypeOK, NEW a \in ActionId, NEW b \in ActionId, Exists(b), NEW to \in WorkflowState,
         Enter(b, current_revision[b], to), UNCHANGED <<current_revision, action_expires_at>>,
         \/ to \notin NonTerminalStates /\ UNCHANGED confirmed_expires_at
         \/ /\ to = "CONFIRMED"
            /\ \E t \in Nat : t > now /\ confirmed_expires_at' =
                 [confirmed_expires_at EXCEPT ![b][current_revision[b]] = t]
  PROVE  DeadlineMoves(a)
<1> DEFINE n == current_revision[b]
<1>1. n \in RevisionNo
  BY CurrentIsRevision
<1> HIDE DEF n
<1>2. state'[b][n] = to /\ \A c \in ActionId : c # b => state'[c] = state[c]
  BY <1>1, EnterEffect DEF n
<1>3. CASE to \notin NonTerminalStates /\ UNCHANGED confirmed_expires_at
  BY <1>2, <1>3 DEF DeadlineMoves, StaysPut, Settled, n
<1>4. CASE to = "CONFIRMED"
  <2>1. PICK t \in Nat : t > now /\ confirmed_expires_at' = [confirmed_expires_at EXCEPT ![b][n] = t]
    BY <1>4 DEF n, NonTerminalStates
  <2>2. /\ confirmed_expires_at'[b][n] = t
        /\ \A c \in ActionId : c # b => confirmed_expires_at'[c] = confirmed_expires_at[c]
    BY <1>1, <2>1 DEF StoreTypeOK
  <2> QED
    BY <1>2, <1>4, <2>1, <2>2 DEF DeadlineMoves, StaysPut, Settled, n
<1> QED
  BY <1>3, <1>4

(* So does normalize_expiry, which only closes.                            *)
LEMMA NormalizeSettles ==
  ASSUME StoreTypeOK, NEW a \in ActionId, NEW b \in ActionId, Exists(b), NormalizeExpiry(b)
  PROVE  DeadlineMoves(a)
<1>1. CASE Lapsed(b)
  <2>1. /\ Enter(b, current_revision[b], "EXPIRED")
        /\ UNCHANGED <<current_revision, action_expires_at, confirmed_expires_at>>
    BY <1>1 DEF NormalizeExpiry, Expire
  <2> QED
    BY <2>1, EnterSettles DEF WorkflowState, TerminalStates, NonTerminalStates
<1>2. CASE ~Lapsed(b)
  BY <1>2 DEF NormalizeExpiry, tableVars, DeadlineMoves, StaysPut
<1> QED
  BY <1>1, <1>2

(* So does a confirmation: it gives an action that has not lapsed a        *)
(* deadline that has not passed.                                           *)
LEMMA ConfirmSettles ==
  ASSUME StoreTypeOK, NEW a \in ActionId, NEW b \in ActionId, Exists(b),
         NEW c \in ChallengeId, Consume(b, c), CurrentState(b) = "AWAITING_CONFIRMATION", ~Lapsed(b)
  PROVE  DeadlineMoves(a)
<1> DEFINE n == current_revision[b]
           t == Earliest(action_expires_at[b][n], now + ConfirmedTTL)
<1>1. n \in RevisionNo /\ now \in Nat /\ action_expires_at[b][n] \in Nat
  BY CurrentIsRevision, BoundAssumption DEF StoreTypeOK
<1>2. action_expires_at[b][n] > now
  BY <1>1 DEF Lapsed, CurrentState
<1>3. now + ConfirmedTTL > now /\ now + ConfirmedTTL \in Nat
  BY <1>1, TTLAssumption
<1>4. t \in Nat /\ t > now
  BY <1>1, <1>2, <1>3 DEF Earliest
<1>5. /\ Enter(b, n, "CONFIRMED") /\ UNCHANGED <<current_revision, action_expires_at>>
      /\ confirmed_expires_at' = [confirmed_expires_at EXCEPT ![b][n] = t]
  BY DEF Consume
<1> HIDE DEF t
<1> QED
  BY <1>4, <1>5, EnterSettles DEF WorkflowState, NonTerminalStates

(* So does a revision of an action.                                        *)
LEMMA ReviseSettles ==
  ASSUME StoreTypeOK, NEW a \in ActionId, NEW b \in ActionId, Exists(b), NEW content, Revise(b, content)
  PROVE  DeadlineMoves(a)
<1>1. PICK n \in RevisionNo : n = current_revision[b]
  BY CurrentIsRevision
<1>2. n + 1 \in RevisionNo /\ now \in Nat /\ now + ActionTTL > now
  <2>1. n < MaxRevision
    BY <1>1 DEF Revise
  <2>2. n \in Int /\ n >= 1 /\ now \in Nat
    BY BoundAssumption DEF RevisionNo, StoreTypeOK
  <2> QED
    BY <2>1, <2>2, BoundAssumption, TTLAssumption DEF RevisionNo
<1>3. /\ current_revision' = [current_revision EXCEPT ![b] = n + 1]
      /\ state' = [state EXCEPT ![b] = SupersedeRevision(b, n)]
      /\ action_expires_at' = [action_expires_at EXCEPT ![b][n + 1] = now + ActionTTL]
      /\ confirmed_expires_at' = confirmed_expires_at
  BY <1>1 DEF Revise
<1>4. \A c \in ActionId : c # b => StaysPut(c)
  BY <1>3 DEF StaysPut, StoreTypeOK
<1>5. /\ current_revision'[b] = n + 1
      /\ state'[b][n + 1] = "AWAITING_CONFIRMATION"
      /\ action_expires_at'[b][n + 1] = now + ActionTTL
  BY <1>2, <1>3 DEF SupersedeRevision, StoreTypeOK
<1>6. Settled(b, current_revision'[b])
  BY <1>2, <1>5 DEF Settled
<1> QED
  BY <1>4, <1>6 DEF DeadlineMoves

(* Every step of the system, seen from the deadline of one action.         *)
LEMMA DeadlinesMove ==
  ASSUME ControlInvariant, [Next]_vars, NEW a \in ActionId, Exists(a)
  PROVE  DeadlineMoves(a)
<1>0. /\ TableInvariant
      /\ StoreTypeOK
      /\ WorkerInvariant
      /\ PrepareInvariant
  BY InvariantParts DEF TableInvariant
<1>1. CASE UNCHANGED <<current_revision, state, action_expires_at, confirmed_expires_at>>
  BY <1>1 DEF DeadlineMoves, StaysPut
<1>2. ASSUME NEW p \in Preparer, AttemptInsert(p)
      PROVE  DeadlineMoves(a)
  <2>1. CASE UNCHANGED tableVars
    BY <1>1, <2>1 DEF tableVars
  <2>2. ASSUME NEW b \in UnusedIds, Enter(b, 1, "AWAITING_CONFIRMATION"),
               current_revision' = [current_revision EXCEPT ![b] = 1],
               action_expires_at' = [action_expires_at EXCEPT ![b][1] = now + ActionTTL],
               UNCHANGED confirmed_expires_at
        PROVE  DeadlineMoves(a)
    <3>1. a # b
      BY <2>2 DEF UnusedIds
    <3> QED
      BY <1>0, <2>2, <3>1 DEF Enter, StoreTypeOK, DeadlineMoves, StaysPut
  <2> QED
    BY <1>2, <2>1, <2>2 DEF AttemptInsert
<1>3. ASSUME NEW p \in Preparer, ResolveOccupant(p)
      PROVE  DeadlineMoves(a)
  <2> DEFINE b == prepare[p].action
  <2>1. CASE UNCHANGED tableVars
    BY <1>1, <2>1 DEF tableVars
  <2>2. CASE Lapsed(b) /\ Expire(b)
    <3>1. b \in ActionId /\ prepare[p].revision \in 1 .. current_revision[b]
      BY <1>0, <1>3 DEF ResolveOccupant, PrepareInvariant, PrepareCarries
    <3>2. current_revision[b] \in 0 .. MaxRevision
      BY <1>0, <3>1 DEF StoreTypeOK
    <3>3. Exists(b)
      BY <3>1, <3>2, BoundAssumption DEF Exists
    <3>4. NormalizeExpiry(b)
      BY <2>2 DEF NormalizeExpiry
    <3> QED
      BY <1>0, <3>1, <3>3, <3>4, NormalizeSettles
  <2> QED
    BY <1>3, <2>1, <2>2 DEF ResolveOccupant
<1>4. ASSUME NEW s \in Session, NEW b \in ActionId, GetAction(s, b)
      PROVE  DeadlineMoves(a)
  BY <1>0, <1>4, NormalizeSettles DEF GetAction, LockOwnedRevision
<1>5. ASSUME NEW s \in Session, NEW b \in ActionId, NEW c \in ChallengeId,
             NEW token \in ChallengeId, Confirm(s, b, c, token)
      PROVE  DeadlineMoves(a)
  <2>1. Exists(b)
    BY <1>5 DEF Confirm, LockOwnedRevision
  <2>2. CASE Accepts(s, b, c, token) /\ Consume(b, c)
    <3>1. CurrentState(b) = "AWAITING_CONFIRMATION" /\ ~Lapsed(b)
      BY <2>2 DEF Accepts, CurrentState
    <3> QED
      BY <1>0, <2>1, <2>2, <3>1, ConfirmSettles
  <2> QED
    BY <1>0, <1>5, <2>1, <2>2, NormalizeSettles DEF Confirm
<1>6. ASSUME NEW s \in Session, NEW b \in ActionId, Cancel(s, b)
      PROVE  DeadlineMoves(a)
  <2>1. Exists(b)
    BY <1>6 DEF Cancel, LockOwnedRevision
  <2>2. CASE Withdraw(b)
    <3>1. /\ Enter(b, current_revision[b], "CANCELLED")
          /\ UNCHANGED <<current_revision, action_expires_at, confirmed_expires_at>>
      BY <2>2 DEF Withdraw
    <3> QED
      BY <1>0, <2>1, <3>1, EnterSettles DEF WorkflowState, TerminalStates, NonTerminalStates
  <2> QED
    BY <1>0, <1>6, <2>1, <2>2, NormalizeSettles DEF Cancel
<1>7. ASSUME NEW s \in Session, NEW b \in ActionId, NEW expected \in RevisionNo,
             NEW content \in Content, CreateRevision(s, b, expected, content)
      PROVE  DeadlineMoves(a)
  <2>1. Exists(b)
    BY <1>7 DEF CreateRevision, LockOwnedRevision
  <2> QED
    BY <1>0, <1>7, <2>1, NormalizeSettles, ReviseSettles DEF CreateRevision
<1>8. ASSUME NEW w \in Worker, Commit(w) \/ Abort(w) \/ SettleInDoubt(w)
      PROVE  DeadlineMoves(a)
  <2>1. CASE UNCHANGED tableVars
    BY <1>1, <2>1 DEF tableVars
  <2>2. CASE phase[w] \in {"flushed", "in_doubt"} /\ ApplyCommit(w, job[w])
    <3>1. job[w] \in ActionId /\ Exists(job[w])
      BY <1>0, <2>2, JobHeld DEF OpenPhases
    <3>2. uncommitted[job[w]] \in TerminalStates
      BY <1>0, <2>2 DEF WorkerInvariant, PendingWriteIsWhole
    <3>3. /\ Enter(job[w], current_revision[job[w]], uncommitted[job[w]])
          /\ UNCHANGED <<current_revision, action_expires_at, confirmed_expires_at>>
      BY <2>2 DEF ApplyCommit
    <3>4. uncommitted[job[w]] \in WorkflowState /\ uncommitted[job[w]] \notin NonTerminalStates
      BY <3>2 DEF WorkflowState, TerminalStates, NonTerminalStates
    <3> QED
      BY <1>0, <3>1, <3>3, <3>4, EnterSettles
  <2> QED
    BY <1>8, <2>1, <2>2 DEF Commit, Abort, SettleInDoubt, ApplyRollback
<1>9. ASSUME NEW w \in Worker,
             \/ \E b \in ActionId : Claim(w, b)
             \/ BeginExecution(w) \/ Revalidate(w) \/ FinishLeave(w)
             \/ LoseAck(w) \/ Observe(w)
      PROVE  DeadlineMoves(a)
  <2>1. UNCHANGED tableVars
    BY <1>9 DEF Claim, BeginExecution, Revalidate, FinishLeave, LoseAck, Observe
  <2> QED
    BY <1>1, <2>1 DEF tableVars
<1>10. ASSUME \/ \E p \in Preparer, k \in RequestKey, content \in Content :
                   StartPrepare(p, k, content)
              \/ \E p \in Preparer : FindOccupant(p)
              \/ \E s \in Session, b \in ActionId, c \in ChallengeId :
                   IssueChallenge(s, b, c)
              \/ Tick
              \/ \E k \in RequestKey : ChangeAuthority(k)
              \/ UNCHANGED vars
       PROVE  DeadlineMoves(a)
  <2>1. UNCHANGED <<current_revision, state, action_expires_at, confirmed_expires_at>>
    BY <1>10
    DEF StartPrepare, FindOccupant, IssueChallenge, Tick, ChangeAuthority,
        tableVars, vars
  <2> QED
    BY <1>1, <2>1
<1> QED
  BY <1>2, <1>3, <1>4, <1>5, <1>6, <1>7, <1>8, <1>9, <1>10 DEF Next

(* An action open past time t, and not lapsed by it, was open at every     *)
(* earlier moment: what the second statement of a page finds cannot        *)
(* contradict the first one.                                               *)
LEMMA OpenStays ==
  ASSUME ControlInvariant, [Next]_vars, NEW a \in ActionId, Exists(a),
         NEW t \in Nat, t <= now, OpenAfter(a, t)
  PROVE  OpenAfter(a, t)'
<1>1. now \in Nat
  BY BoundAssumption DEF ControlInvariant, TypeOK, StoreTypeOK
<1>2. StoreTypeOK'
  BY ControlInductive DEF ControlInvariant, TypeOK
<1>3. CASE StaysPut(a)
  BY <1>3 DEF StaysPut, OpenAfter, LiveUntil, CurrentState
<1>4. CASE Settled(a, current_revision'[a])
  <2> DEFINE n == current_revision'[a]
  <2>1. CASE state'[a][n] \notin NonTerminalStates
    BY <2>1 DEF OpenAfter, CurrentState
  <2>2. Exists(a)'
    <3>1. current_revision'[a] >= current_revision[a]
      BY TablesGrow DEF Grows
    <3>2. current_revision[a] \in 0 .. MaxRevision /\ current_revision'[a] \in 0 .. MaxRevision
      BY <1>2 DEF ControlInvariant, TypeOK, StoreTypeOK
    <3> QED
      BY <3>1, <3>2, BoundAssumption DEF Exists
  <2>3. n \in RevisionNo
    BY <1>2, <2>2 DEF StoreTypeOK, Exists, RevisionNo
  <2>4. action_expires_at'[a][n] \in Nat /\ confirmed_expires_at'[a][n] \in Nat
    BY <1>2, <2>3 DEF StoreTypeOK
  <2>5. CASE state'[a][n] = "AWAITING_CONFIRMATION" /\ action_expires_at'[a][n] > now
    BY <1>1, <2>4, <2>5 DEF OpenAfter, LiveUntil, CurrentState
  <2>6. CASE state'[a][n] = "CONFIRMED" /\ confirmed_expires_at'[a][n] > now
    BY <1>1, <2>4, <2>6 DEF OpenAfter, LiveUntil, CurrentState
  <2> QED
    BY <1>4, <2>1, <2>5, <2>6 DEF Settled
<1> QED
  BY <1>3, <1>4, DeadlinesMove DEF DeadlineMoves

-----------------------------------------------------------------------------
(* What a page holds.                                                      *)

(* Whatever the control plane does, an item stays true of its action's     *)
(* past.                                                                   *)
LEMMA ItemStays ==
  ASSUME ControlInvariant, [Next]_vars, NEW i, ItemHolds(i)
  PROVE  ItemHolds(i)'
<1> DEFINE a == i.action
           n == i.revision
<1>1. Grows /\ Finality
  BY TablesGrow, StepIsFinal
<1>2. /\ a \in ActionId /\ current_revision[a] \in 0 .. MaxRevision
      /\ current_revision'[a] \in 0 .. MaxRevision
      /\ n \in 1 .. current_revision[a] /\ MaxRevision \in Nat
  BY ControlInductive, BoundAssumption DEF ControlInvariant, TypeOK, StoreTypeOK, ItemHolds
<1>3. Exists(a) /\ n \in RevisionNo
  BY <1>2 DEF Exists, RevisionNo
<1>4. current_revision'[a] >= current_revision[a] /\ business_request_key'[a] = business_request_key[a]
  BY <1>1, <1>2, <1>3 DEF Grows
<1>5. n \in 1 .. current_revision'[a]
  BY <1>2, <1>4
<1>6. state[a][n] # "NONE"
  <2>1. OnlyCurrentRevisionLives
    BY DEF ControlInvariant
  <2>2. n < current_revision[a] \/ n = current_revision[a]
    BY <1>2
  <2>3. state[a][n] = "SUPERSEDED" \/ state[a][n] \in WorkflowState
    BY <1>2, <1>3, <2>1, <2>2 DEF OnlyCurrentRevisionLives
  <2> QED
    BY <2>3 DEF WorkflowState, TerminalStates, NonTerminalStates
<1>7. draft'[a][n] = draft[a][n] /\ (state[a][n] \in TerminalStates => state'[a][n] = state[a][n])
  BY <1>1, <1>2, <1>3, <1>6 DEF Finality
<1>8. audit \subseteq audit'
  BY <1>1 DEF Grows
<1>9. /\ DOMAIN i = ItemFields
      /\ i.key = business_request_key[a]
      /\ i.state \in WorkflowState \ {"SUPERSEDED"}
      /\ i.draft = draft[a][n]
      /\ i.state \in TerminalStates => state[a][n] = i.state
      /\ \E x \in audit : x.action = a /\ x.revision = n /\ x.to = i.state
  BY DEF ItemHolds
<1> QED
  BY <1>2, <1>4, <1>5, <1>7, <1>8, <1>9 DEF ItemHolds

(* An item built by _action_item holds what the tables said when it was    *)
(* read.                                                                   *)
LEMMA ItemIsRead ==
  ASSUME FullInvariant, NEW a \in ActionId, Exists(a), NEW i, i = Item(a)
  PROVE  /\ ItemHolds(i) /\ i.action = a /\ i.result = NoRow
         /\ \A t : OpenAfter(a, t) => ShownOpenAfter(i, t)
<1>1. PICK n \in RevisionNo : n = current_revision[a]
  BY CurrentIsRevision DEF FullInvariant, ControlInvariant, TypeOK
<1>2. /\ DOMAIN i = ItemFields
      /\ i.action = a /\ i.key = business_request_key[a] /\ i.revision = n
      /\ i.state = state[a][n] /\ i.draft = draft[a][n] /\ i.result = NoRow
      /\ i.live_until = CASE state[a][n] = "AWAITING_CONFIRMATION" -> action_expires_at[a][n]
                          [] state[a][n] = "CONFIRMED" -> confirmed_expires_at[a][n]
                          [] OTHER -> 0
  BY <1>1 DEF Item, ItemFields
<1>3. state[a][n] \in WorkflowState \ {"SUPERSEDED"}
  BY <1>1 DEF FullInvariant, ControlInvariant, OnlyCurrentRevisionLives
<1>4. \E x \in audit : x.action = a /\ x.revision = n /\ x.to = state[a][n]
  <2>1. AuditExplainsState /\ state[a][n] # "NONE"
    BY <1>3 DEF FullInvariant, LedgerInvariant, WorkflowState, TerminalStates, NonTerminalStates
  <2> QED
    BY <2>1 DEF AuditExplainsState
<1>5. n \in 1 .. current_revision[a]
  BY <1>1, BoundAssumption DEF RevisionNo
<1>6. ItemHolds(i)
  BY <1>2, <1>3, <1>4, <1>5 DEF ItemHolds
<1>7. ASSUME NEW t, OpenAfter(a, t) PROVE ShownOpenAfter(i, t)
  BY <1>1, <1>2, <1>7 DEF OpenAfter, ShownOpenAfter, LiveUntil, CurrentState, NonTerminalStates
<1> QED
  BY <1>2, <1>6, <1>7

(* An item whose result has been filled in.                                *)
SameItem(i, j) ==
  /\ DOMAIN j = ItemFields
  /\ j.action = i.action /\ j.key = i.key /\ j.revision = i.revision
  /\ j.state = i.state /\ j.draft = i.draft /\ j.live_until = i.live_until

(* An item that differs only in its result says the same of the action.    *)
LEMMA SameItemHolds ==
  ASSUME NEW i, NEW j, ItemHolds(i), SameItem(i, j)
  PROVE  ItemHolds(j) /\ \A t : ShownOpenAfter(i, t) => ShownOpenAfter(j, t)
BY DEF ItemHolds, SameItem, ShownOpenAfter

(* The result that is read now fits the state that was read before.        *)
LEMMA ResultIsRead ==
  ASSUME ControlInvariant, NEW i, ItemHolds(i), NEW j, j = [i EXCEPT !.result = Result(i.action)]
  PROVE  SameItem(i, j) /\ ResultRead(j)
<1> DEFINE a == i.action
           found == {r \in business_rows : r.action = a}
<1>1. SameItem(i, j) /\ j.result = Result(a)
  BY DEF ItemHolds, SameItem, ItemFields
<1>2. /\ a \in ActionId /\ i.revision \in 1 .. current_revision[a]
      /\ current_revision[a] \in 0 .. MaxRevision
      /\ i.state \in WorkflowState \ {"SUPERSEDED"}
      /\ i.draft = draft[a][i.revision]
      /\ i.state \in TerminalStates => state[a][i.revision] = i.state
  BY DEF ItemHolds, ControlInvariant, TypeOK, StoreTypeOK
<1>3. i.revision \in RevisionNo
  BY <1>2, BoundAssumption DEF RevisionNo
<1>4. /\ OnlyCurrentRevisionLives /\ RowIffSucceeded /\ ExecutedAsConfirmed
      /\ business_rows \subseteq BusinessRow
  BY DEF ControlInvariant, TypeOK, StoreTypeOK
<1>5. i.state \in TerminalStates => i.revision = current_revision[a]
  <2>1. i.revision < current_revision[a] => state[a][i.revision] = "SUPERSEDED"
    BY <1>2, <1>3, <1>4 DEF OnlyCurrentRevisionLives
  <2> QED
    BY <1>2, <2>1, BoundAssumption
<1>6. \A r \in found : /\ r \in business_rows /\ r.action = a /\ r # NoRow
                      /\ r.revision = current_revision[a]
                      /\ state[a][current_revision[a]] = "SUCCEEDED"
                      /\ r.draft = draft[a][current_revision[a]]
  <2> SUFFICES ASSUME NEW r \in business_rows, r.action = a
               PROVE  /\ r # NoRow
                      /\ r.revision = current_revision[a]
                      /\ state[a][current_revision[a]] = "SUCCEEDED"
                      /\ r.draft = draft[a][current_revision[a]]
    OBVIOUS
  <2>1. r \in BusinessRow
    BY <1>4
  <2>2. r.revision \in RevisionNo /\ r # NoRow
    BY <2>1, NullAssumption DEF BusinessRow, RevisionNo, DraftPayload
  <2>3. state[a][r.revision] = "SUCCEEDED"
    BY <1>2, <1>4, <2>2 DEF RowIffSucceeded
  <2>4. r.revision = current_revision[a]
    <3>1. r.revision < current_revision[a] => state[a][r.revision] = "SUPERSEDED"
      BY <1>2, <1>4, <2>2 DEF OnlyCurrentRevisionLives
    <3>2. r.revision > current_revision[a] => state[a][r.revision] = "NONE"
      BY <1>2, <1>4, <2>2 DEF OnlyCurrentRevisionLives
    <3> QED
      BY <1>2, <2>2, <2>3, <3>1, <3>2, BoundAssumption DEF RevisionNo
  <2>5. r.draft = draft[a][r.revision]
    BY <1>4 DEF ExecutedAsConfirmed
  <2> QED
    BY <2>2, <2>3, <2>4, <2>5
<1>7. Result(a) = IF found = {} THEN NoRow ELSE CHOOSE r \in found : TRUE
  BY DEF Result
<1> HIDE DEF found
<1>8. CASE found = {}
  <2>1. j.result = NoRow
    BY <1>1, <1>7, <1>8
  <2>2. i.state # "SUCCEEDED"
    BY <1>2, <1>3, <1>4, <1>8 DEF RowIffSucceeded, TerminalStates, found
  <2> QED
    BY <1>1, <2>1, <2>2 DEF ResultRead, SameItem
<1>9. CASE found # {}
  <2>1. j.result \in found
    BY <1>1, <1>7, <1>9
  <2>2. /\ j.result \in business_rows /\ j.result.action = a /\ j.result # NoRow
        /\ j.result.revision = current_revision[a]
        /\ state[a][current_revision[a]] = "SUCCEEDED"
        /\ j.result.draft = draft[a][current_revision[a]]
    BY <1>6, <2>1
  <2>3. i.state \in TerminalStates => i.state = "SUCCEEDED"
    BY <1>2, <1>5, <2>2
  <2>4. current_revision[a] >= i.revision
    BY <1>2, BoundAssumption
  <2>5. i.state = "SUCCEEDED" => j.result.revision = i.revision /\ j.result.draft = i.draft
    BY <1>2, <1>5, <2>2 DEF TerminalStates
  <2> QED
    BY <1>1, <2>2, <2>3, <2>4, <2>5 DEF ResultRead, SameItem
<1> QED
  BY <1>1, <1>8, <1>9

(* A finite set that maps onto another one of its size maps to it one to   *)
(* one: the items of a page keep their number.                             *)
LEMMA SameSize ==
  ASSUME NEW S, NEW T, IsFiniteSet(S), NEW f \in [S -> T],
         \A y \in T : \E x \in S : f[x] = y,
         \A x, y \in S : f[x] = f[y] => x = y
  PROVE  IsFiniteSet(T) /\ Cardinality(T) = Cardinality(S)
<1>1. f \in Surjection(S, T) /\ f \in Injection(S, T)
  BY DEF Surjection, Injection, IsInjective
<1> QED
  BY <1>1, FS_Surjection

(* Filling results in leaves the number of items as it is.                 *)
LEMMA FilledSize ==
  ASSUME NEW items, IsFiniteSet(items), Distinct(items),
         NEW f, f = [i \in items |-> f[i]], \A i \in items : SameItem(i, f[i]),
         NEW read, read = {f[i] : i \in items}
  PROVE  IsFiniteSet(read) /\ Distinct(read) /\ Cardinality(read) = Cardinality(items)
<1>1. \A i, j \in items : f[i].action = f[j].action => i = j
  BY DEF SameItem, Distinct
<1>2. Distinct(read)
  BY <1>1 DEF Distinct
<1>3. f \in [items -> read]
  OBVIOUS
<1>4. \A y \in read : \E x \in items : f[x] = y
  OBVIOUS
<1>5. \A x, y \in items : f[x] = f[y] => x = y
  BY <1>1
<1> QED
  BY <1>2, <1>3, <1>4, <1>5, SameSize

(* The batched read of leave rows attaches to each item its own action's   *)
(* row.                                                                    *)
LEMMA LeaveResultsRead ==
  ASSUME ControlInvariant, NEW items, \A i \in items : ItemHolds(i),
         NEW read, read = WithLeaveResults(items)
  PROVE  /\ \A j \in read : \E i \in items : SameItem(i, j) /\ (j.key \in LeaveKey => ResultRead(j))
         /\ IsFiniteSet(items) /\ Distinct(items) =>
              IsFiniteSet(read) /\ Distinct(read) /\ Cardinality(read) = Cardinality(items)
<1> DEFINE fill(i) == [i EXCEPT !.result = Result(i.action)]
           f == [i \in items |-> IF i.key \in LeaveKey THEN fill(i) ELSE i]
<1>1. ASSUME NEW i \in items
      PROVE  SameItem(i, fill(i)) /\ ResultRead(fill(i)) /\ SameItem(i, i) /\ fill(i).key = i.key
  <2>1. PICK j : j = fill(i)
    OBVIOUS
  <2>2. SameItem(i, j) /\ ResultRead(j)
    BY <2>1, ResultIsRead
  <2>3. SameItem(i, i)
    BY DEF SameItem, ItemHolds
  <2> QED
    BY <2>1, <2>2, <2>3 DEF SameItem
<1>2. read = {IF i.key \in LeaveKey THEN fill(i) ELSE i : i \in items}
  BY DEF WithLeaveResults
<1> HIDE DEF fill
<1>3. \A j \in read : \E i \in items : SameItem(i, j) /\ (j.key \in LeaveKey => ResultRead(j))
  BY <1>1, <1>2
<1>4. /\ f = [i \in items |-> f[i]] /\ \A i \in items : SameItem(i, f[i])
      /\ read = {f[i] : i \in items}
  BY <1>1, <1>2
<1> HIDE DEF f
<1> QED
  BY <1>3, <1>4, FilledSize

(* The batched read of tickets does the same.                              *)
LEMMA ItResultsRead ==
  ASSUME ControlInvariant, NEW items, \A i \in items : ItemHolds(i),
         NEW read, read = WithItResults(items)
  PROVE  /\ \A j \in read : \E i \in items :
              SameItem(i, j) /\ (IF j.key \in LeaveKey THEN j = i ELSE ResultRead(j))
         /\ IsFiniteSet(items) /\ Distinct(items) =>
              IsFiniteSet(read) /\ Distinct(read) /\ Cardinality(read) = Cardinality(items)
<1> DEFINE fill(i) == [i EXCEPT !.result = Result(i.action)]
           f == [i \in items |-> IF i.key \in LeaveKey THEN i ELSE fill(i)]
<1>1. ASSUME NEW i \in items
      PROVE  SameItem(i, fill(i)) /\ ResultRead(fill(i)) /\ SameItem(i, i) /\ fill(i).key = i.key
  <2>1. PICK j : j = fill(i)
    OBVIOUS
  <2>2. SameItem(i, j) /\ ResultRead(j)
    BY <2>1, ResultIsRead
  <2>3. SameItem(i, i)
    BY DEF SameItem, ItemHolds
  <2> QED
    BY <2>1, <2>2, <2>3 DEF SameItem
<1>2. read = {IF i.key \in LeaveKey THEN i ELSE fill(i) : i \in items}
  BY DEF WithItResults
<1> HIDE DEF fill
<1>3. \A j \in read : \E i \in items :
        SameItem(i, j) /\ (IF j.key \in LeaveKey THEN j = i ELSE ResultRead(j))
  BY <1>1, <1>2
<1>4. /\ f = [i \in items |-> f[i]] /\ \A i \in items : SameItem(i, f[i])
      /\ read = {f[i] : i \in items}
  BY <1>1, <1>2
<1> HIDE DEF f
<1> QED
  BY <1>3, <1>4, FilledSize

-----------------------------------------------------------------------------
(* The steps of a page.                                                    *)

LEMMA PageInit == PInit => PageInvariant
<1> SUFFICES ASSUME PInit PROVE PageInvariant
  OBVIOUS
<1>1. FullInvariant /\ now = 0
  BY FullInit DEF PInit, Init, StoreInit
<1>2. {a \in ActionId : Exists(a)} = {}
  BY DEF PInit, Init, StoreInit, Exists
<1>3. page = Blank /\ DOMAIN Blank = PageFields /\ Blank.stage = "idle" /\ Blank.items = {}
      /\ Blank.since = 0 /\ Blank.total = 0
  BY DEF PInit, Blank, PageFields
<1>4. PageHolds(page)
  BY <1>1, <1>3 DEF PageHolds, PageTypeOK, ItemsHold, DetailHolds, ListHolds, ResultsRead, Stages
<1> QED
  BY <1>1, <1>2, <1>4, FS_EmptySet DEF PageInvariant

(* The control plane moves on under the page.                              *)
LEMMA WorldMovesOn ==
  ASSUME PageInvariant, [Next]_vars, UNCHANGED page
  PROVE  PageInvariant'
<1>1. FullInvariant /\ ControlInvariant
  BY DEF PageInvariant, PageHolds, FullInvariant
<1>2. FullInvariant'
  BY <1>1, ControlInductive, LedgerInductive DEF FullInvariant
<1>3. Grows
  BY <1>1, TablesGrow
<1>4. now \in Nat /\ now' \in Nat /\ now <= now'
  <2>1. now \in 0 .. MaxTime /\ now' \in 0 .. MaxTime
    BY <1>1, <1>2 DEF FullInvariant, ControlInvariant, TypeOK, StoreTypeOK
  <2>2. now' = now \/ now' = now + 1
    BY DEF Next, vars, clockVars, PrepareFrame, GetAction, IssueChallenge, Confirm, Cancel, CreateRevision,
           Claim, BeginExecution, Revalidate, FinishLeave, Commit, Abort, LoseAck, SettleInDoubt,
           Observe, Tick, ChangeAuthority
  <2> QED
    BY <2>1, <2>2, BoundAssumption
<1>5. PageTypeOK(page)'
  <2>1. page.since \in Nat /\ page.since <= now
    BY DEF PageInvariant, PageHolds, PageTypeOK
  <2>2. page.since <= now'
    BY <1>4, <2>1
  <2> QED
    BY <2>2 DEF PageInvariant, PageHolds, PageTypeOK
<1>6. ItemsHold(page)'
  BY <1>1, ItemStays DEF PageInvariant, PageHolds, ItemsHold
<1>7. DetailHolds(page)'
  <2>1. CASE page.stage = "opened"
    <3>1. PICK a \in ActionId : a = page.action
      BY <2>1 DEF PageInvariant, PageHolds, DetailHolds
    <3>2. PICK t \in Nat : t = page.since /\ t <= now
      BY DEF PageInvariant, PageHolds, PageTypeOK
    <3>3. Exists(a) /\ OpenAfter(a, t)
      BY <2>1, <3>1, <3>2 DEF PageInvariant, PageHolds, DetailHolds
    <3>4. OpenAfter(a, t)'
      BY <1>1, <3>2, <3>3, OpenStays
    <3>5. Exists(a)'
      <4>1. current_revision'[a] >= current_revision[a]
        BY <1>3, <3>3 DEF Grows
      <4>2. current_revision[a] \in 0 .. MaxRevision /\ current_revision'[a] \in 0 .. MaxRevision
        BY <1>1, <1>2 DEF FullInvariant, ControlInvariant, TypeOK, StoreTypeOK
      <4> QED
        BY <3>3, <4>1, <4>2, BoundAssumption DEF Exists
    <3> QED
      BY <2>1, <3>1, <3>2, <3>4, <3>5 DEF DetailHolds, OpenAfter, CurrentState, LiveUntil, Exists
  <2>2. CASE page.stage # "opened"
    BY <2>2 DEF PageInvariant, PageHolds, DetailHolds, ShownOpenAfter
  <2> QED
    BY <2>1, <2>2
<1>8. ListHolds(page)'
  <2>1. CASE page.stage = "counted"
    <3>1. PICK e : e = SessionOwner[page.session]
      OBVIOUS
    <3>3. Own(e) \subseteq Own(e)'
      <4>1. \A a \in ActionId : Exists(a) =>
              Exists(a)' /\ business_request_key'[a] = business_request_key[a]
        <5>1. \A a \in ActionId : current_revision[a] \in 0 .. MaxRevision
                                 /\ current_revision'[a] \in 0 .. MaxRevision
          BY <1>1, <1>2 DEF FullInvariant, ControlInvariant, TypeOK, StoreTypeOK
        <5> QED
          BY <1>3, <5>1, BoundAssumption DEF Grows, Exists
      <4> QED
        BY <4>1 DEF Own, OwnerOf
    <3>4. IsFiniteSet({a \in ActionId : Exists(a)})'
      BY <1>1, FewActions DEF PageInvariant
    <3>5. IsFiniteSet(Own(e)') /\ IsFiniteSet(Own(e)) /\ Cardinality(Own(e)) <= Cardinality(Own(e)')
      <4>1. Own(e)' \subseteq {a \in ActionId : Exists(a)}'
        BY DEF Own
      <4>2. IsFiniteSet(Own(e)')
        BY <3>4, <4>1, FS_Subset
      <4> QED
        BY <3>3, <4>2, FS_Subset
    <3>6. Cardinality(Own(e)) \in Nat /\ Cardinality(Own(e)') \in Nat
      BY <3>5, FS_CardinalityType
    <3>7. page.total \in Nat /\ page.total <= Cardinality(Own(e))
      BY <2>1, <3>1 DEF PageInvariant, PageHolds, PageTypeOK, ListHolds
    <3>8. page.total <= Cardinality(Own(e)')
      BY <3>5, <3>6, <3>7
    <3>9. Own(SessionOwner[page.session])' = Own(e)'
      BY <3>1 DEF Own
    <3> QED
      BY <2>1, <3>8, <3>9 DEF ListHolds
  <2>2. CASE page.stage # "counted"
    BY <2>2 DEF PageInvariant, PageHolds, ListHolds, Full
  <2> QED
    BY <2>1, <2>2
<1>9. ResultsRead(page)'
  BY <1>3 DEF PageInvariant, PageHolds, ResultsRead, ResultRead, Grows
<1>10. IsFiniteSet({a \in ActionId : Exists(a)})'
  BY <1>1, FewActions DEF PageInvariant
<1> QED
  BY <1>2, <1>5, <1>6, <1>7, <1>8, <1>9, <1>10 DEF PageInvariant, PageHolds

(* A statement leaves the control plane as it is.                          *)
LEMMA ReadHolds ==
  ASSUME PageInvariant, NEW p, PageHolds(p), Read(p)
  PROVE  PageInvariant'
<1>1. page' = p /\ UNCHANGED vars
  BY DEF Read
<1>2. /\ UNCHANGED <<now, current_revision, business_request_key, state, draft>>
      /\ UNCHANGED <<action_expires_at, confirmed_expires_at, business_rows, audit>>
  BY <1>1 DEF vars, tableVars, clockVars
<1>3. FullInvariant'
  BY <1>1, ControlInductive, LedgerInductive DEF PageInvariant, FullInvariant
<1>4. IsFiniteSet({a \in ActionId : Exists(a)})'
  BY <1>2 DEF PageInvariant, Exists
<1>5. PageTypeOK(page)'
  BY <1>1, <1>2 DEF PageHolds, PageTypeOK
<1>6. ItemsHold(page)'
  BY <1>1, <1>2 DEF PageHolds, ItemsHold, ItemHolds
<1>7. DetailHolds(page)'
  BY <1>1, <1>2 DEF PageHolds, DetailHolds, Exists, OpenAfter, ShownOpenAfter, CurrentState, LiveUntil
<1>8. ListHolds(page)'
  BY <1>1, <1>2 DEF PageHolds, ListHolds, Own, Exists, OwnerOf, Full, Distinct
<1>9. ResultsRead(page)'
  BY <1>1, <1>2 DEF PageHolds, ResultsRead, ResultRead
<1> QED
  BY <1>3, <1>4, <1>5, <1>6, <1>7, <1>8, <1>9 DEF PageInvariant, PageHolds

(* Opening a detail first settles whether the action has lapsed.           *)
LEMMA OpenHolds ==
  ASSUME PageInvariant, NEW s \in Session, NEW a \in ActionId, OpenDetail(s, a)
  PROVE  PageInvariant'
<1>1. GetAction(s, a) /\ EmployeeFrame
  BY DEF OpenDetail
<1>2. [Next]_vars
  BY <1>1 DEF Next
<1>3. FullInvariant /\ ControlInvariant /\ StoreTypeOK
  BY DEF PageInvariant, FullInvariant, ControlInvariant, TypeOK
<1>4. FullInvariant' /\ StoreTypeOK'
  <2>1. FullInvariant'
    BY <1>2, <1>3, ControlInductive, LedgerInductive DEF FullInvariant
  <2> QED
    BY <2>1 DEF FullInvariant, ControlInvariant, TypeOK
<1>5. IsFiniteSet({b \in ActionId : Exists(b)})'
  BY <1>2, <1>3, FewActions DEF PageInvariant
<1>6. Exists(a) /\ NormalizeExpiry(a) /\ now' = now
  BY <1>1 DEF GetAction, LockOwnedRevision, clockVars
<1>7. PICK n \in RevisionNo : n = current_revision[a]
  BY <1>3, <1>6, CurrentIsRevision
<1>8. now \in Nat /\ action_expires_at[a][n] \in Nat /\ confirmed_expires_at[a][n] \in Nat
  BY <1>3, <1>7, BoundAssumption DEF StoreTypeOK
<1>9. Exists(a)' /\ OpenAfter(a, now)'
  <2>1. CASE Lapsed(a)
    <3>1. Enter(a, n, "EXPIRED") /\ current_revision' = current_revision
      BY <1>6, <1>7, <2>1 DEF NormalizeExpiry, Expire
    <3>2. state'[a][n] = "EXPIRED"
      BY <1>3, <1>7, <3>1 DEF Enter, StoreTypeOK
    <3> QED
      BY <1>6, <1>7, <3>1, <3>2 DEF OpenAfter, CurrentState, NonTerminalStates, Exists
  <2>2. CASE ~Lapsed(a)
    <3>1. UNCHANGED tableVars
      BY <1>6, <2>2 DEF NormalizeExpiry
    <3>2. OpenAfter(a, now)
      BY <1>7, <1>8, <2>2 DEF Lapsed, OpenAfter, CurrentState, LiveUntil, NonTerminalStates
    <3> QED
      BY <1>6, <3>1, <3>2 DEF tableVars, OpenAfter, CurrentState, LiveUntil, Exists
  <2> QED
    BY <2>1, <2>2
<1>10. /\ DOMAIN page' = PageFields
       /\ page'.stage = "opened" /\ page'.action = a /\ page'.since = now
       /\ page'.items = {} /\ page'.total = 0
  <2>1. PICK x : x = [Blank EXCEPT !.stage = "opened"]
    OBVIOUS
  <2>2. PICK y : y = [x EXCEPT !.session = s]
    OBVIOUS
  <2>3. PICK z : z = [y EXCEPT !.action = a]
    OBVIOUS
  <2>4. page' = [z EXCEPT !.since = now]
    BY <2>1, <2>2, <2>3 DEF OpenDetail
  <2> QED
    BY <2>1, <2>2, <2>3, <2>4 DEF Blank, PageFields
<1>11. PageTypeOK(page)'
  BY <1>6, <1>8, <1>10 DEF PageTypeOK, Stages
<1>12. ItemsHold(page)' /\ ResultsRead(page)'
  BY <1>10 DEF ItemsHold, ResultsRead
<1>13. DetailHolds(page)'
  BY <1>6, <1>9, <1>10 DEF DetailHolds
<1>14. ListHolds(page)'
  BY <1>10 DEF ListHolds
<1> QED
  BY <1>4, <1>5, <1>11, <1>12, <1>13, <1>14 DEF PageInvariant, PageHolds

(* The statements of a detail.                                             *)
LEMMA RevisionHolds == PageInvariant /\ ReadRevision => PageInvariant'
<1> SUFFICES ASSUME PageInvariant, ReadRevision PROVE PageInvariant'
  OBVIOUS
<1>1. PICK a \in ActionId : a = page.action /\ Exists(a) /\ OwnerOf(a) = SessionOwner[page.session]
  BY DEF ReadRevision, OwnActions, Employee
<1>2. PICK i : i = Item(a)
  OBVIOUS
<1>3. ItemHolds(i) /\ i.action = a /\ \A t : OpenAfter(a, t) => ShownOpenAfter(i, t)
  BY <1>1, <1>2, ItemIsRead DEF PageInvariant
<1>4. PageTypeOK(page) /\ OpenAfter(a, page.since) /\ page.stage = "opened"
  BY <1>1 DEF PageInvariant, PageHolds, DetailHolds, ReadRevision, At
<1>5. PICK x : x = [page EXCEPT !.stage = "revision"]
  OBVIOUS
<1>6. PICK p : p = [x EXCEPT !.items = {i}]
  OBVIOUS
<1>7. Read(p)
  BY <1>1, <1>2, <1>5, <1>6 DEF ReadRevision
<1>8. /\ DOMAIN p = PageFields /\ p.stage = "revision" /\ p.items = {i}
      /\ p.session = page.session /\ p.action = a /\ p.since = page.since /\ p.total = page.total
  BY <1>1, <1>4, <1>5, <1>6 DEF PageTypeOK, PageFields
<1>9. PageTypeOK(p)
  BY <1>4, <1>8 DEF PageTypeOK, Stages
<1>10. ItemsHold(p)
  BY <1>1, <1>3, <1>8 DEF ItemsHold, ItemHolds, OwnerOf
<1>11. DetailHolds(p)
  BY <1>3, <1>4, <1>8 DEF DetailHolds
<1>12. ListHolds(p) /\ ResultsRead(p)
  BY <1>8 DEF ListHolds, ResultsRead
<1>13. PageHolds(p)
  BY <1>9, <1>10, <1>11, <1>12 DEF PageHolds
<1> QED
  BY <1>7, <1>13, ReadHolds

LEMMA TrailHolds == PageInvariant /\ ReadTrail => PageInvariant'
<1> SUFFICES ASSUME PageInvariant, ReadTrail PROVE PageInvariant'
  OBVIOUS
<1>1. page.stage = "revision" /\ PageHolds(page)
  BY DEF PageInvariant, ReadTrail, At
<1>2. PICK trail : trail = AuditEvents(page.action)
  OBVIOUS
<1>3. PICK x : x = [page EXCEPT !.stage = "trail"]
  OBVIOUS
<1>4. PICK p : p = [x EXCEPT !.trail = trail]
  OBVIOUS
<1>5. Read(p)
  BY <1>2, <1>3, <1>4 DEF ReadTrail
<1>6. /\ DOMAIN p = PageFields /\ p.stage = "trail" /\ p.trail = trail /\ p.items = page.items
      /\ p.session = page.session /\ p.action = page.action /\ p.since = page.since
      /\ p.total = page.total
  BY <1>1, <1>3, <1>4 DEF PageHolds, PageTypeOK, PageFields
<1>7. PageTypeOK(p)
  BY <1>1, <1>6 DEF PageHolds, PageTypeOK, Stages
<1>8. ItemsHold(p)
  BY <1>1, <1>6 DEF PageHolds, ItemsHold
<1>9. ASSUME NEW i \in page.items
      PROVE  \E y \in trail : y.revision = i.revision /\ y.to = i.state
  <2>1. i.action = page.action /\ ItemHolds(i)
    BY <1>1, <1>9 DEF PageHolds, DetailHolds, ItemsHold
  <2>2. PICK e \in audit : e.action = page.action /\ e.revision = i.revision /\ e.to = i.state
    BY <2>1 DEF ItemHolds
  <2>3. [revision |-> e.revision, from |-> e.from, to |-> e.to] \in trail
    BY <1>2, <2>2 DEF AuditEvents
  <2> QED
    BY <2>2, <2>3
<1>10. DetailHolds(p)
  BY <1>1, <1>6, <1>9 DEF PageHolds, DetailHolds
<1>11. ListHolds(p) /\ ResultsRead(p)
  BY <1>6 DEF ListHolds, ResultsRead
<1>12. PageHolds(p)
  BY <1>7, <1>8, <1>10, <1>11 DEF PageHolds
<1> QED
  BY <1>5, <1>12, ReadHolds

LEMMA ResultHolds == PageInvariant /\ ReadResult => PageInvariant'
<1> SUFFICES ASSUME PageInvariant, ReadResult PROVE PageInvariant'
  OBVIOUS
<1>1. page.stage = "trail" /\ PageHolds(page) /\ ControlInvariant
  BY DEF PageInvariant, FullInvariant, ReadResult, At
<1>2. PICK filled : filled = WithLeaveResults(page.items)
  OBVIOUS
<1>3. PICK read : read = WithItResults(filled)
  OBVIOUS
<1>4. PICK x : x = [page EXCEPT !.stage = "detail"]
  OBVIOUS
<1>5. PICK p : p = [x EXCEPT !.items = read]
  OBVIOUS
<1>6. Read(p)
  BY <1>2, <1>3, <1>4, <1>5 DEF ReadResult, WithResults
<1>7. /\ DOMAIN p = PageFields /\ p.stage = "detail" /\ p.trail = page.trail /\ p.items = read
      /\ p.session = page.session /\ p.action = page.action /\ p.since = page.since
      /\ p.total = page.total
  BY <1>1, <1>4, <1>5 DEF PageHolds, PageTypeOK, PageFields
<1>8. PageTypeOK(p)
  BY <1>1, <1>7 DEF PageHolds, PageTypeOK, Stages
<1>9. ASSUME NEW m \in filled
      PROVE  /\ m.key \in LeaveKey => ResultRead(m)
             /\ \E i \in page.items : SameItem(i, m)
  <2>1. PICK i \in page.items : SameItem(i, m) /\ (m.key \in LeaveKey => ResultRead(m))
    BY <1>1, <1>2, LeaveResultsRead DEF PageHolds, ItemsHold
  <2> QED
    BY <1>1, <2>1, SameItemHolds DEF PageHolds, ItemsHold
<1>10. ASSUME NEW m \in filled PROVE ItemHolds(m)
  <2>1. PICK i \in page.items : SameItem(i, m)
    BY <1>9
  <2> QED
    BY <1>1, <2>1, SameItemHolds DEF PageHolds, ItemsHold
<1>11. ASSUME NEW j \in read
       PROVE  ResultRead(j) /\ \E i \in page.items : SameItem(i, j)
  <2>1. PICK m \in filled : SameItem(m, j) /\ (IF j.key \in LeaveKey THEN j = m ELSE ResultRead(j))
    BY <1>1, <1>3, <1>10, ItResultsRead
  <2>2. PICK i \in page.items : SameItem(i, m)
    BY <1>9
  <2>3. SameItem(i, j)
    BY <2>1, <2>2 DEF SameItem
  <2>4. j.key \in LeaveKey => ResultRead(j)
    BY <1>9, <1>10, <2>1
  <2> QED
    BY <2>1, <2>3, <2>4
<1>12. ASSUME NEW j \in read
       PROVE  /\ ItemHolds(j) /\ KeyOwner[j.key] = SessionOwner[page.session]
              /\ j.action = page.action /\ ShownOpenAfter(j, page.since)
              /\ \E y \in page.trail : y.revision = j.revision /\ y.to = j.state
  <2>1. PICK i \in page.items : SameItem(i, j)
    BY <1>11
  <2>2. /\ ItemHolds(i) /\ KeyOwner[i.key] = SessionOwner[page.session]
        /\ i.action = page.action /\ ShownOpenAfter(i, page.since)
        /\ \E y \in page.trail : y.revision = i.revision /\ y.to = i.state
    BY <1>1 DEF PageHolds, ItemsHold, DetailHolds
  <2> QED
    BY <2>1, <2>2, SameItemHolds DEF SameItem
<1>13. ItemsHold(p) /\ DetailHolds(p)
  BY <1>7, <1>12 DEF ItemsHold, DetailHolds
<1>14. ListHolds(p) /\ ResultsRead(p)
  BY <1>7, <1>11 DEF ListHolds, ResultsRead
<1>15. PageHolds(p)
  BY <1>8, <1>13, <1>14 DEF PageHolds
<1> QED
  BY <1>6, <1>15, ReadHolds

(* The statements of a list.                                               *)
LEMMA CountHolds ==
  ASSUME PageInvariant, NEW s \in Session, CountActions(s)
  PROVE  PageInvariant'
<1>1. PICK total : total = Cardinality(Own(SessionOwner[s]))
  OBVIOUS
<1>2. total \in Nat
  <2>1. Own(SessionOwner[s]) \subseteq {a \in ActionId : Exists(a)}
    BY DEF Own
  <2>2. IsFiniteSet(Own(SessionOwner[s]))
    BY <2>1, FS_Subset DEF PageInvariant
  <2> QED
    BY <1>1, <2>2, FS_CardinalityType
<1>3. PICK t : t = now
  OBVIOUS
<1>4. t \in Nat
  BY <1>3, BoundAssumption DEF PageInvariant, FullInvariant, ControlInvariant, TypeOK, StoreTypeOK
<1>5. PICK x : x = [Blank EXCEPT !.stage = "counted"]
  OBVIOUS
<1>6. PICK y : y = [x EXCEPT !.session = s]
  OBVIOUS
<1>7. PICK z : z = [y EXCEPT !.since = t]
  OBVIOUS
<1>8. PICK p : p = [z EXCEPT !.total = total]
  OBVIOUS
<1>9. Read(p)
  BY <1>1, <1>3, <1>5, <1>6, <1>7, <1>8 DEF CountActions, Own
<1>10. /\ DOMAIN p = PageFields /\ p.stage = "counted" /\ p.items = {}
       /\ p.session = s /\ p.since = t /\ p.total = total
  BY <1>5, <1>6, <1>7, <1>8 DEF Blank, PageFields
<1>11. PageTypeOK(p)
  BY <1>2, <1>3, <1>4, <1>10 DEF PageTypeOK, Stages
<1>12. ItemsHold(p) /\ DetailHolds(p) /\ ResultsRead(p)
  BY <1>10 DEF ItemsHold, DetailHolds, ResultsRead
<1>13. ListHolds(p)
  BY <1>1, <1>2, <1>10 DEF ListHolds
<1>14. PageHolds(p)
  BY <1>11, <1>12, <1>13 DEF PageHolds
<1> QED
  BY <1>9, <1>14, ReadHolds

LEMMA ListReadHolds == PageInvariant /\ ListActions => PageInvariant'
<1> SUFFICES ASSUME PageInvariant, ListActions PROVE PageInvariant'
  OBVIOUS
<1>1. page.stage = "counted" /\ PageHolds(page) /\ ListLimit \in Nat
  BY ListLimitAssumption DEF PageInvariant, ListActions, At
<1>2. PICK own : own = Own(SessionOwner[page.session])
  OBVIOUS
<1>3. own = OwnActions
  BY <1>2 DEF Own, OwnActions, Employee
<1>4. PICK shown \in kSubset(Full(Cardinality(own)), own) :
        Read([page EXCEPT !.stage = "listed", !.items = {Item(a) : a \in shown}])
  BY <1>3 DEF ListActions, Full
<1>5. shown \subseteq own /\ Cardinality(shown) = Full(Cardinality(own))
  BY <1>4 DEF kSubset
<1>6. IsFiniteSet(own)
  <2>1. own \subseteq {a \in ActionId : Exists(a)}
    BY <1>2 DEF Own
  <2> QED
    BY <2>1, FS_Subset DEF PageInvariant
<1>7. IsFiniteSet(shown)
  BY <1>5, <1>6, FS_Subset
<1>8. PICK items : items = {Item(a) : a \in shown}
  OBVIOUS
<1>9. ASSUME NEW a \in shown
      PROVE  /\ ItemHolds(Item(a)) /\ Item(a).action = a
             /\ KeyOwner[Item(a).key] = SessionOwner[page.session]
  <2>1. a \in ActionId /\ Exists(a) /\ OwnerOf(a) = SessionOwner[page.session]
    BY <1>2, <1>5 DEF Own
  <2>2. ItemHolds(Item(a)) /\ Item(a).action = a
    BY <2>1, ItemIsRead DEF PageInvariant
  <2> QED
    BY <2>1, <2>2 DEF ItemHolds, OwnerOf
<1>10. Distinct(items)
  BY <1>8, <1>9 DEF Distinct
<1>11. IsFiniteSet(items) /\ Cardinality(items) = Cardinality(shown)
  <2> DEFINE f == [a \in shown |-> Item(a)]
  <2>1. f \in [shown -> items] /\ \A y \in items : \E x \in shown : f[x] = y
    BY <1>8
  <2>2. \A x, y \in shown : f[x] = f[y] => x = y
    BY <1>9
  <2> HIDE DEF f
  <2> QED
    BY <1>7, <2>1, <2>2, SameSize
<1>12. Cardinality(items) >= Full(page.total)
  <2>1. page.total \in Nat /\ page.total <= Cardinality(own)
    BY <1>1, <1>2 DEF PageHolds, PageTypeOK, ListHolds
  <2>2. Cardinality(own) \in Nat
    BY <1>6, FS_CardinalityType
  <2> QED
    BY <1>1, <1>5, <1>11, <2>1, <2>2 DEF Full
<1>13. PICK x : x = [page EXCEPT !.stage = "listed"]
  OBVIOUS
<1>14. PICK p : p = [x EXCEPT !.items = items]
  OBVIOUS
<1>15. Read(p)
  BY <1>4, <1>8, <1>13, <1>14
<1>16. /\ DOMAIN p = PageFields /\ p.stage = "listed" /\ p.items = items
       /\ p.session = page.session /\ p.since = page.since /\ p.total = page.total
  BY <1>1, <1>13, <1>14 DEF PageHolds, PageTypeOK, PageFields
<1>17. PageTypeOK(p)
  BY <1>1, <1>16 DEF PageHolds, PageTypeOK, Stages
<1>18. ItemsHold(p)
  BY <1>8, <1>9, <1>16 DEF ItemsHold
<1>19. DetailHolds(p) /\ ResultsRead(p)
  BY <1>16 DEF DetailHolds, ResultsRead
<1>20. ListHolds(p)
  BY <1>10, <1>11, <1>7, <1>12, <1>16 DEF ListHolds
<1>21. PageHolds(p)
  BY <1>17, <1>18, <1>19, <1>20 DEF PageHolds
<1> QED
  BY <1>15, <1>21, ReadHolds

LEMMA LeaveReadHolds == PageInvariant /\ ReadLeaveResults => PageInvariant'
<1> SUFFICES ASSUME PageInvariant, ReadLeaveResults PROVE PageInvariant'
  OBVIOUS
<1>1. page.stage = "listed" /\ PageHolds(page) /\ ControlInvariant
  BY DEF PageInvariant, FullInvariant, ReadLeaveResults, At
<1>2. PICK read : read = WithLeaveResults(page.items)
  OBVIOUS
<1>3. PICK x : x = [page EXCEPT !.stage = "leave_read"]
  OBVIOUS
<1>4. PICK p : p = [x EXCEPT !.items = read]
  OBVIOUS
<1>5. Read(p)
  BY <1>2, <1>3, <1>4 DEF ReadLeaveResults
<1>6. /\ DOMAIN p = PageFields /\ p.stage = "leave_read" /\ p.items = read
      /\ p.session = page.session /\ p.since = page.since /\ p.total = page.total
  BY <1>1, <1>3, <1>4 DEF PageHolds, PageTypeOK, PageFields
<1>7. PageTypeOK(p)
  BY <1>1, <1>6 DEF PageHolds, PageTypeOK, Stages
<1>8. ASSUME NEW i \in page.items
      PROVE  ItemHolds(i) /\ KeyOwner[i.key] = SessionOwner[page.session]
  BY <1>1, <1>8 DEF PageHolds, ItemsHold
<1>9. ASSUME NEW j \in read
      PROVE  /\ ItemHolds(j) /\ KeyOwner[j.key] = SessionOwner[page.session]
             /\ j.key \in LeaveKey => ResultRead(j)
  <2>1. PICK i \in page.items : SameItem(i, j) /\ (j.key \in LeaveKey => ResultRead(j))
    BY <1>1, <1>2, <1>8, LeaveResultsRead
  <2>2. ItemHolds(j) /\ j.key = i.key
    BY <1>8, <2>1, SameItemHolds DEF SameItem
  <2> QED
    BY <1>8, <2>1, <2>2
<1>10. ItemsHold(p) /\ DetailHolds(p) /\ ResultsRead(p)
  BY <1>6, <1>9 DEF ItemsHold, DetailHolds, ResultsRead
<1>11. ListHolds(p)
  <2>1. /\ Distinct(page.items) /\ IsFiniteSet(page.items)
        /\ Cardinality(page.items) >= Full(page.total)
    BY <1>1 DEF PageHolds, ListHolds
  <2>2. IsFiniteSet(read) /\ Distinct(read) /\ Cardinality(read) = Cardinality(page.items)
    BY <1>1, <1>2, <1>8, <2>1, LeaveResultsRead
  <2> QED
    BY <1>6, <2>1, <2>2 DEF ListHolds
<1>12. PageHolds(p)
  BY <1>7, <1>10, <1>11 DEF PageHolds
<1> QED
  BY <1>5, <1>12, ReadHolds

LEMMA ItReadHolds == PageInvariant /\ ReadItResults => PageInvariant'
<1> SUFFICES ASSUME PageInvariant, ReadItResults PROVE PageInvariant'
  OBVIOUS
<1>1. page.stage = "leave_read" /\ PageHolds(page) /\ ControlInvariant
  BY DEF PageInvariant, FullInvariant, ReadItResults, At
<1>2. PICK read : read = WithItResults(page.items)
  OBVIOUS
<1>3. PICK x : x = [page EXCEPT !.stage = "list"]
  OBVIOUS
<1>4. PICK p : p = [x EXCEPT !.items = read]
  OBVIOUS
<1>5. Read(p)
  BY <1>2, <1>3, <1>4 DEF ReadItResults
<1>6. /\ DOMAIN p = PageFields /\ p.stage = "list" /\ p.items = read
      /\ p.session = page.session /\ p.since = page.since /\ p.total = page.total
  BY <1>1, <1>3, <1>4 DEF PageHolds, PageTypeOK, PageFields
<1>7. PageTypeOK(p)
  BY <1>1, <1>6 DEF PageHolds, PageTypeOK, Stages
<1>8. ASSUME NEW i \in page.items
      PROVE  ItemHolds(i) /\ KeyOwner[i.key] = SessionOwner[page.session]
  BY <1>1, <1>8 DEF PageHolds, ItemsHold
<1>9. ASSUME NEW j \in read
      PROVE  /\ ItemHolds(j) /\ KeyOwner[j.key] = SessionOwner[page.session]
             /\ ResultRead(j)
  <2>1. PICK i \in page.items : SameItem(i, j) /\ (IF j.key \in LeaveKey THEN j = i ELSE ResultRead(j))
    BY <1>1, <1>2, <1>8, ItResultsRead
  <2>2. ItemHolds(j) /\ j.key = i.key
    BY <1>8, <2>1, SameItemHolds DEF SameItem
  <2>3. j.key \in LeaveKey => ResultRead(i)
    BY <1>1, <2>2 DEF PageHolds, ResultsRead
  <2> QED
    BY <1>8, <2>1, <2>2, <2>3
<1>10. ItemsHold(p) /\ DetailHolds(p) /\ ResultsRead(p)
  BY <1>6, <1>9 DEF ItemsHold, DetailHolds, ResultsRead
<1>11. ListHolds(p)
  <2>1. /\ Distinct(page.items) /\ IsFiniteSet(page.items)
        /\ Cardinality(page.items) >= Full(page.total)
    BY <1>1 DEF PageHolds, ListHolds
  <2>2. IsFiniteSet(read) /\ Distinct(read) /\ Cardinality(read) = Cardinality(page.items)
    BY <1>1, <1>2, <1>8, <2>1, ItResultsRead
  <2> QED
    BY <1>6, <2>1, <2>2 DEF ListHolds
<1>12. PageHolds(p)
  BY <1>7, <1>10, <1>11 DEF PageHolds
<1> QED
  BY <1>5, <1>12, ReadHolds

LEMMA CloseHolds == PageInvariant /\ ClosePage => PageInvariant'
<1> SUFFICES ASSUME PageInvariant, ClosePage PROVE PageInvariant'
  OBVIOUS
<1>1. PICK p : p = Blank
  OBVIOUS
<1>2. Read(p)
  BY <1>1 DEF ClosePage
<1>3. DOMAIN p = PageFields /\ p.stage = "idle" /\ p.since = 0 /\ p.total = 0 /\ p.items = {}
  BY <1>1 DEF Blank, PageFields
<1>4. now \in Nat
  BY BoundAssumption DEF PageInvariant, FullInvariant, ControlInvariant, TypeOK, StoreTypeOK
<1>5. PageHolds(p)
  BY <1>3, <1>4
  DEF PageHolds, PageTypeOK, ItemsHold, DetailHolds, ListHolds, ResultsRead, Stages
<1> QED
  BY <1>2, <1>5, ReadHolds

LEMMA PageInductive == PageInvariant /\ [PNext]_pvars => PageInvariant'
<1> SUFFICES ASSUME PageInvariant, [PNext]_pvars PROVE PageInvariant'
  OBVIOUS
<1>1. CASE Next /\ UNCHANGED page
  BY <1>1, WorldMovesOn
<1>2. CASE UNCHANGED pvars
  BY <1>2, WorldMovesOn DEF pvars
<1>3. ASSUME NEW s \in Session, NEW a \in ActionId, OpenDetail(s, a)
      PROVE  PageInvariant'
  BY <1>3, OpenHolds
<1>4. ASSUME NEW s \in Session, CountActions(s)
      PROVE  PageInvariant'
  BY <1>4, CountHolds
<1> QED
  BY <1>1, <1>2, <1>3, <1>4, RevisionHolds, TrailHolds, ResultHolds, ListReadHolds,
     LeaveReadHolds, ItReadHolds, CloseHolds DEF PNext

-----------------------------------------------------------------------------
(* What the pages keep.                                                    *)

(* The pages are read beside a control plane that behaves as it does       *)
(* without them: apart from the expiry that opening a detail settles, no   *)
(* statement of service.py changes a table, so every theorem about the     *)
(* control plane holds under them.                                         *)
THEOREM PagesOnlyRead == PSpec => Spec
<1>1. PInit => Init
  BY DEF PInit
<1>2. [PNext]_pvars => [Next]_vars
  <2> SUFFICES ASSUME [PNext]_pvars PROVE [Next]_vars
    OBVIOUS
  <2>1. ASSUME NEW s \in Session, NEW a \in ActionId, OpenDetail(s, a)
        PROVE  Next
    BY <2>1 DEF OpenDetail, Next
  <2> QED
    BY <2>1 DEF PNext, pvars, Read, ReadRevision, ReadTrail, ReadResult, CountActions,
                ListActions, ReadLeaveResults, ReadItResults, ClosePage
<1> QED
  BY <1>1, <1>2, PTL DEF PSpec, Spec

(* Whatever commits between two statements of a page, what it has read is  *)
(* what it shows: the full invariant of the pages.                         *)
THEOREM PagesHold == PSpec => []PageInvariant
BY PageInit, PageInductive, PTL DEF PSpec

(* A result is read after the state it is shown with, so a page never      *)
(* shows a success without its request or ticket, an event trail that      *)
(* misses the state, another employee's action, or a lapsed action to      *)
(* confirm; a list is as long as its total promises.                       *)
THEOREM PagesFitTogether == PSpec => []PageFitsTogether
<1>1. PageInvariant => PageFitsTogether
  <2> SUFFICES ASSUME PageInvariant PROVE PageFitsTogether
    OBVIOUS
  <2>1. PageHolds(page) /\ ControlInvariant
    BY DEF PageInvariant, FullInvariant
  <2>2. ResultMatchesState
    <3> SUFFICES ASSUME Complete, NEW i \in page.items
                 PROVE  /\ i.state = "SUCCEEDED" =>
                             /\ i.result # NoRow
                             /\ i.result.revision = i.revision
                             /\ i.result.draft = i.draft
                        /\ i.state \in TerminalStates \ {"SUCCEEDED"} => i.result = NoRow
                        /\ i.result # NoRow =>
                             /\ i.result.revision >= i.revision
                             /\ i.state \in NonTerminalStates => Item(i.action).state = "SUCCEEDED"
      BY DEF ResultMatchesState
    <3>1. ResultRead(i) /\ ItemHolds(i)
      BY <2>1 DEF PageHolds, ResultsRead, ItemsHold, Complete
    <3>2. ASSUME i.result # NoRow PROVE Item(i.action).state = "SUCCEEDED"
      <4>1. PICK r \in business_rows : r.action = i.action
        BY <3>1, <3>2 DEF ResultRead
      <4>2. PICK a \in ActionId : a = i.action
        BY <3>1 DEF ItemHolds
      <4>3. r \in BusinessRow /\ current_revision[a] \in 0 .. MaxRevision
        BY <2>1 DEF ControlInvariant, TypeOK, StoreTypeOK
      <4>4. r.revision \in RevisionNo
        BY <4>3 DEF BusinessRow, RevisionNo
      <4>5. state[a][r.revision] = "SUCCEEDED"
        BY <2>1, <4>1, <4>2, <4>4 DEF ControlInvariant, RowIffSucceeded
      <4>6. r.revision = current_revision[a]
        <5>1. r.revision < current_revision[a] => state[a][r.revision] = "SUPERSEDED"
          BY <2>1, <4>2, <4>4 DEF ControlInvariant, OnlyCurrentRevisionLives
        <5>2. r.revision > current_revision[a] => state[a][r.revision] = "NONE"
          BY <2>1, <4>2, <4>4 DEF ControlInvariant, OnlyCurrentRevisionLives
        <5> QED
          BY <4>3, <4>4, <4>5, <5>1, <5>2, BoundAssumption DEF RevisionNo
      <4> QED
        BY <4>2, <4>5, <4>6 DEF Item
    <3> QED
      BY <3>1, <3>2 DEF ResultRead
  <2>3. TrailReachesState /\ PageIsOwners
    BY <2>1 DEF PageHolds, DetailHolds, ItemsHold, TrailReachesState, PageIsOwners, Employee
  <2>4. LiveWhenOpened /\ ListIsFull
    BY <2>1 DEF PageHolds, DetailHolds, ListHolds, ShownOpenAfter, Full, LiveWhenOpened, ListIsFull, At
  <2> QED
    BY <2>2, <2>3, <2>4 DEF PageFitsTogether
<1> QED
  BY <1>1, PagesHold, PTL
=============================================================================
