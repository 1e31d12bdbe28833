------------------------------ MODULE ItRevision ------------------------------
(***************************************************************************)
(* Editing an IT ticket request that waits for confirmation                *)
(* (src/app/workflow/it_revision.py): the current revision is superseded   *)
(* and the next one takes over its key in the same transaction.            *)
(***************************************************************************)
EXTENDS ConfirmationService

(* The states of the action's revisions once n is superseded by n + 1.     *)
SupersedeRevision(a, n) ==
  [state[a] EXCEPT ![n] = "SUPERSEDED", ![n + 1] = "AWAITING_CONFIRMATION"]

Revise(a, content) ==
  LET n == current_revision[a]
      k == business_request_key[a]
  IN  /\ n < MaxRevision
      /\ challenge' = SupersedeActive(a, n)
      /\ state' = [state EXCEPT ![a] = SupersedeRevision(a, n)]
      /\ audit' = audit \cup
           {[action |-> a, revision |-> n,
             from |-> "AWAITING_CONFIRMATION", to |-> "SUPERSEDED"],
            [action |-> a, revision |-> n + 1,
             from |-> "NONE", to |-> "AWAITING_CONFIRMATION"]}
      /\ draft' = [draft EXCEPT ![a][n + 1] = LiveDraft(k, content)]
      /\ action_expires_at' =
           [action_expires_at EXCEPT ![a][n + 1] = now + ActionTTL]
      /\ current_revision' = [current_revision EXCEPT ![a] = n + 1]
      /\ UNCHANGED <<business_request_key, confirmed_expires_at, business_rows>>

(* expected is the revision the employee was looking at: an edit of        *)
(* another one is ActionConflictError before anything is normalised.       *)
CreateRevision(s, a, expected, content) ==
  /\ LockOwnedRevision(s, a)
  /\ business_request_key[a] \notin LeaveKey
  /\ expected = current_revision[a]
  /\ IF CurrentState(a) = "AWAITING_CONFIRMATION" /\ ~Lapsed(a)
       THEN Revise(a, content)
       ELSE NormalizeExpiry(a)
  /\ UNCHANGED <<lockVars, clockVars>>
=============================================================================
