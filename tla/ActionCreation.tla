---------------------------- MODULE ActionCreation ----------------------------
(***************************************************************************)
(* PREPARE (src/app/workflow/action_creation.py for leave,                 *)
(* it_action_creation.py for IT): insert a new action, let the partial     *)
(* unique index decide between concurrent requests for one key, and let    *)
(* the loser read, lock and reuse or expire the occupant, at most          *)
(* PREPARE_CONTENTION_ATTEMPTS times.  The transactions of one call are    *)
(* separate steps; other handlers and the workers run between them.        *)
(***************************************************************************)
EXTENDS WorkflowStore

CONSTANT Preparer   \* concurrent PREPARE calls

VARIABLE prepare    \* the local state of each call

PREPARE_CONTENTION_ATTEMPTS == 3

ActiveStages == {"insert", "resolve", "lock"}
Dispositions == {"CREATED", "REUSED_EXISTING", "RETURNED_SUCCEEDED",
                 "RETRYABLE_CONFLICT"}

(* action and revision: the occupant being locked, then the action the     *)
(* call returned.                                                          *)
PrepareCall ==
  [stage : {"idle"} \cup ActiveStages \cup Dispositions,
   key : RequestKey \cup {NoKey}, draft : DraftPayload \cup {NoDraft},
   attempt : 0 .. PREPARE_CONTENTION_ATTEMPTS,
   action : ActionId \cup {NoAction}, revision : 0 .. MaxRevision]

PrepareTypeOK == prepare \in [Preparer -> PrepareCall]

PrepareInit ==
  prepare = [p \in Preparer |->
    [stage |-> "idle", key |-> NoKey, draft |-> NoDraft, attempt |-> 0,
     action |-> NoAction, revision |-> 0]]

UnusedIds == {a \in ActionId : ~Exists(a)}
OpenCalls == {p \in Preparer : prepare[p].stage \in ActiveStages}

(* _eligibility_reason over what the first transaction read; an IT request *)
(* has nothing to check.                                                   *)
Eligible(k) ==
  k \in LeaveKey =>
    /\ Hours[k][authority[k]] > 0
    /\ Hours[k][authority[k]] <= Available(KeyOwner[k])

(* The first transaction reads balance and authority without a lock; the   *)
(* draft built from them is what every later attempt inserts.  An          *)
(* ineligible request returns NOT_CREATED and changes nothing.  The guard  *)
(* on the identifiers is a bound: a call never runs out of them.           *)
StartPrepare(p, k, content) ==
  /\ prepare[p].stage \notin ActiveStages
  /\ Cardinality(UnusedIds) > Cardinality(OpenCalls)
  /\ Eligible(k)
  /\ prepare' = [prepare EXCEPT ![p] =
       [stage |-> "insert", key |-> k, draft |-> LiveDraft(k, content),
        attempt |-> 1, action |-> NoAction, revision |-> 0]]
  /\ UNCHANGED tableVars

(* The insert waits for a transaction that is changing the occupant; then  *)
(* it either violates the occupancy index or commits the new action.       *)
AttemptInsert(p) ==
  LET k == prepare[p].key
  IN  /\ prepare[p].stage = "insert"
      /\ \A an \in Occupying(k) : uncommitted[an[1]] = "NONE"
      /\ \/ /\ Occupying(k) # {}
            /\ prepare' = [prepare EXCEPT ![p].stage = "resolve"]
            /\ UNCHANGED tableVars
         \/ /\ Occupying(k) = {}
            /\ \E a \in UnusedIds :
                 /\ current_revision' = [current_revision EXCEPT ![a] = 1]
                 /\ business_request_key' =
                      [business_request_key EXCEPT ![a] = k]
                 /\ Enter(a, 1, "AWAITING_CONFIRMATION")
                 /\ draft' = [draft EXCEPT ![a][1] = prepare[p].draft]
                 /\ action_expires_at' =
                      [action_expires_at EXCEPT ![a][1] = now + ActionTTL]
                 /\ prepare' = [prepare EXCEPT ![p].stage = "CREATED",
                      ![p].action = a, ![p].revision = 1]
            /\ UNCHANGED <<confirmed_expires_at, challenge, business_rows>>

(* Mutant: contention is retried without a bound.                          *)
RetryForever(p) ==
  prepare' = [prepare EXCEPT ![p].stage = "insert", ![p].attempt = @ + 1]

(* The attempt found no occupant it could use.                             *)
NextAttempt(p) ==
  IF prepare[p].attempt < PREPARE_CONTENTION_ATTEMPTS
    THEN prepare' = [prepare EXCEPT ![p].stage = "insert", ![p].attempt = @ + 1]
    ELSE prepare' = [prepare EXCEPT ![p].stage = "RETRYABLE_CONFLICT"]

Return(p, disposition) ==
  prepare' = [prepare EXCEPT ![p].stage = disposition]

(* lock_occupying_revision_for_business_request, the row its snapshot      *)
(* picks.                                                                  *)
FindOccupant(p) ==
  /\ prepare[p].stage = "resolve"
  /\ \/ /\ Occupying(prepare[p].key) = {}
        /\ NextAttempt(p)
     \/ \E an \in Occupying(prepare[p].key) :
          prepare' = [prepare EXCEPT ![p].stage = "lock",
            ![p].action = an[1], ![p].revision = an[2]]
  /\ UNCHANGED tableVars

(* Mutant: no PREPARE path expires what it finds.                          *)
NeverExpires(k) == FALSE

(* Leave expires a lapsed occupant to take its place; IT has no such code. *)
ExpiresOccupant(k) == k \in LeaveKey

(* Mutant: what was read before the lock was granted is returned.          *)
ReuseAsRead(p) ==
  LET a == prepare[p].action
      s == state[a][prepare[p].revision]
  IN  /\ prepare[p].stage = "lock"
      /\ RowsFree(a)
      /\ Return(p, IF s = "SUCCEEDED" THEN "RETURNED_SUCCEEDED"
                                      ELSE "REUSED_EXISTING")
      /\ UNCHANGED tableVars

(* The lock is granted and the row's condition evaluated again: a revision *)
(* that no longer occupies the key is not returned.                        *)
ResolveOccupant(p) ==
  LET a == prepare[p].action
      n == prepare[p].revision
      s == state[a][n]
  IN  /\ prepare[p].stage = "lock"
      /\ RowsFree(a)
      /\ \/ /\ s \notin OccupyingStates
            /\ NextAttempt(p)
            /\ UNCHANGED tableVars
         \/ /\ s = "SUCCEEDED"
            /\ Return(p, "RETURNED_SUCCEEDED")
            /\ UNCHANGED tableVars
         \/ /\ s \in NonTerminalStates
            /\ ExpiresOccupant(prepare[p].key)
            /\ Lapsed(a)
            /\ Expire(a)
            /\ NextAttempt(p)
         \/ /\ s \in NonTerminalStates
            /\ ExpiresOccupant(prepare[p].key) => ~Lapsed(a)
            /\ Return(p, "REUSED_EXISTING")
            /\ UNCHANGED tableVars

(* The steps a call owes once it has started.                              *)
AdvancePrepare(p) ==
  \/ AttemptInsert(p)
  \/ FindOccupant(p)
  \/ ResolveOccupant(p)
=============================================================================
