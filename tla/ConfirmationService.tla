------------------------- MODULE ConfirmationService -------------------------
(***************************************************************************)
(* The employee's side of an action (src/app/workflow/confirmation.py):    *)
(* read, issue a challenge, confirm, cancel.  Each handler is one          *)
(* transaction that first locks the workflow and its current revision, so  *)
(* its effect is one step; a handler that ends in an error after           *)
(* normalising the expiry still commits the normalisation, except          *)
(* issue_challenge, whose errors roll everything back.                     *)
(***************************************************************************)
EXTENDS WorkflowStore

Earliest(s, t) == IF s <= t THEN s ELSE t

(* Mutant: any session may act on the action.                              *)
LockRevision(s, a) == Exists(a) /\ RowsFree(a)

(* Both rows are locked and belong to the session's employee; anything     *)
(* else is ActionNotFoundError and changes nothing.                        *)
LockOwnedRevision(s, a) ==
  /\ Exists(a)
  /\ RowsFree(a)
  /\ OwnerOf(a) = SessionOwner[s]

GetAction(s, a) ==
  /\ LockOwnedRevision(s, a)
  /\ NormalizeExpiry(a)
  /\ UNCHANGED <<lockVars, clockVars>>

(* Mutant: the challenge lives its own time whatever is left to the action.*)
IssueUnbounded(s, a, c) ==
  LET n == current_revision[a]
  IN  /\ LockOwnedRevision(s, a)
      /\ state[a][n] = "AWAITING_CONFIRMATION"
      /\ challenge[c].status = "UNISSUED"
      /\ challenge' =
           [SupersedeActive(a, n) EXCEPT ![c] =
              [status |-> "ACTIVE", action |-> a, revision |-> n,
               session |-> s, draft |-> draft[a][n],
               expires_at |-> now + ChallengeTTL]]
      /\ UNCHANGED <<current_revision, business_request_key, state, draft,
                     action_expires_at, confirmed_expires_at, business_rows,
                     audit, lockVars, clockVars>>

(* A lapsed action is expired in memory, then ActionConflictError rolls    *)
(* the transaction back: only a live awaiting one changes anything.        *)
IssueChallenge(s, a, c) ==
  LET n == current_revision[a]
      expires_at == Earliest(now + ChallengeTTL, action_expires_at[a][n])
  IN  /\ LockOwnedRevision(s, a)
      /\ state[a][n] = "AWAITING_CONFIRMATION"
      /\ ~Lapsed(a)
      /\ expires_at > now
      /\ challenge[c].status = "UNISSUED"
      /\ challenge' =
           [SupersedeActive(a, n) EXCEPT ![c] =
              [status |-> "ACTIVE", action |-> a, revision |-> n,
               session |-> s, draft |-> draft[a][n],
               expires_at |-> expires_at]]
      /\ UNCHANGED <<current_revision, business_request_key, state, draft,
                     action_expires_at, confirmed_expires_at, business_rows,
                     audit, lockVars, clockVars>>

(* What confirm requires of the named challenge and the presented token    *)
(* once the expiry is normalised; a challenge's token is its identifier.   *)
Accepts(s, a, c, token) ==
  LET n == current_revision[a]
  IN  /\ challenge[c].action = a
      /\ challenge[c].revision = n
      /\ challenge[c].status = "ACTIVE"
      /\ challenge[c].session = s
      /\ token = c
      /\ challenge[c].expires_at > now
      /\ challenge[c].draft = draft[a][n]
      /\ state[a][n] = "AWAITING_CONFIRMATION"
      /\ ~Lapsed(a)

Consume(a, c) ==
  LET n == current_revision[a]
  IN  /\ challenge' = [challenge EXCEPT ![c].status = "CONSUMED"]
      /\ Enter(a, n, "CONFIRMED")
      /\ confirmed_expires_at' =
           [confirmed_expires_at EXCEPT ![a][n] =
              Earliest(action_expires_at[a][n], now + ConfirmedTTL)]
      /\ UNCHANGED <<current_revision, business_request_key, draft,
                     action_expires_at, business_rows>>

(* A replay of a consumed challenge and every rejection commit only the    *)
(* normalisation (and an audit event that changes no state).               *)
Confirm(s, a, c, token) ==
  /\ LockOwnedRevision(s, a)
  /\ IF Accepts(s, a, c, token) THEN Consume(a, c) ELSE NormalizeExpiry(a)
  /\ UNCHANGED <<lockVars, clockVars>>

(* Mutant: the audit event is written as if the action always waited.      *)
WithdrawAsWaiting(a) ==
  LET n == current_revision[a]
  IN  /\ challenge' = SupersedeActive(a, n)
      /\ state' = [state EXCEPT ![a][n] = "CANCELLED"]
      /\ audit' = audit \cup {[action |-> a, revision |-> n,
                               from |-> "AWAITING_CONFIRMATION",
                               to |-> "CANCELLED"]}
      /\ UNCHANGED <<current_revision, business_request_key, draft,
                     action_expires_at, confirmed_expires_at, business_rows>>

Withdraw(a) ==
  LET n == current_revision[a]
  IN  /\ challenge' = IF state[a][n] = "AWAITING_CONFIRMATION"
                        THEN SupersedeActive(a, n)
                        ELSE challenge
      /\ Enter(a, n, "CANCELLED")
      /\ UNCHANGED <<current_revision, business_request_key, draft,
                     action_expires_at, confirmed_expires_at, business_rows>>

(* Mutant: what came to nothing may be cancelled afterwards.               *)
UnsuccessfulStates ==
  {"AWAITING_CONFIRMATION", "CONFIRMED", "EXECUTION_FAILED", "STALE", "EXPIRED"}

CancelableStates == {"AWAITING_CONFIRMATION", "CONFIRMED"}

(* Mutant: cancel forgets to normalise the expiry first.                   *)
CancelUnnormalised(s, a) ==
  /\ LockOwnedRevision(s, a)
  /\ IF CurrentState(a) \in CancelableStates
       THEN Withdraw(a)
       ELSE UNCHANGED tableVars
  /\ UNCHANGED <<lockVars, clockVars>>

Cancel(s, a) ==
  /\ LockOwnedRevision(s, a)
  /\ IF CurrentState(a) \in CancelableStates /\ ~Lapsed(a)
       THEN Withdraw(a)
       ELSE NormalizeExpiry(a)
  /\ UNCHANGED <<lockVars, clockVars>>
=============================================================================
