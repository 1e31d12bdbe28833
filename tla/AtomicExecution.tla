--------------------------- MODULE AtomicExecution ---------------------------
(***************************************************************************)
(* The worker (src/app/workflow/atomic_execution.py): claim one CONFIRMED  *)
(* action, decide it and write its business row, its terminal state and    *)
(* its audit event in one transaction.  The statements of that transaction *)
(* between which other clients run are separate steps; what they write     *)
(* becomes visible at Commit.  A failed statement, a timeout or a crash is *)
(* Abort; a commit whose acknowledgement is lost leaves the outcome to the *)
(* server and the worker to observe it on a new connection.                *)
(***************************************************************************)
EXTENDS WorkflowStore

CONSTANT MaxFaults   \* bound on the worker transactions that fail

ASSUME FaultAssumption == MaxFaults \in Nat

VARIABLES
  phase,         \* where each worker's transaction is
  job,           \* the action it claimed
  pending_row,   \* the business row it inserted and has not committed
  faults         \* transactions that failed so far

workerVars == <<phase, job, pending_row, faults>>

WorkerPhase == {"idle", "claimed", "waiting", "locked", "flushed", "in_doubt",
                "observing"}

(* Phases in which the worker's transaction is open on the server.         *)
OpenPhases == {"claimed", "waiting", "locked", "flushed", "in_doubt"}

WorkerTypeOK ==
  /\ phase \in [Worker -> WorkerPhase]
  /\ job \in [Worker -> ActionId \cup {NoAction}]
  /\ pending_row \in [Worker -> BusinessRow \cup {NoRow}]
  /\ faults \in 0 .. MaxFaults

WorkerInit ==
  /\ phase = [w \in Worker |-> "idle"]
  /\ job = [w \in Worker |-> NoAction]
  /\ pending_row = [w \in Worker |-> NoRow]
  /\ faults = 0

(* FOR NO KEY UPDATE SKIP LOCKED over CONFIRMED current revisions.  Rows   *)
(* an API transaction holds for a moment are skipped too, so the order of  *)
(* confirmation does not decide which one is claimed.                      *)
Claim(w, a) ==
  /\ phase[w] = "idle"
  /\ Exists(a)
  /\ CurrentState(a) = "CONFIRMED"
  /\ RowsFree(a)
  /\ row_lock' = [row_lock EXCEPT ![a] = w]
  /\ phase' = [phase EXCEPT ![w] = "claimed"]
  /\ job' = [job EXCEPT ![w] = a]
  /\ UNCHANGED <<tableVars, clockVars, employee_lock, uncommitted,
                 pending_row, faults>>

(* Mutant: the TTL's last instant still counts.                            *)
TtlPassed(a) == confirmed_expires_at[a][current_revision[a]] < now

TtlExpired(a) == confirmed_expires_at[a][current_revision[a]] <= now

(* Mutant: the executor reads revision 1, the repository's default.        *)
FirstDraft(a) == draft[a][1]

DraftOf(a) == draft[a][current_revision[a]]

AuthorityChanged(a) ==
  DraftOf(a).authority # authority[business_request_key[a]]

(* The row this action would insert now.                                   *)
NewRow(a) ==
  [action |-> a, revision |-> current_revision[a],
   key |-> business_request_key[a], draft |-> DraftOf(a), at |-> now]

(* What the preprobe finds: by source action, and for leave also by key.   *)
Existing(a) ==
  {r \in business_rows :
     r.action = a \/ (r.key = business_request_key[a] /\ r.key \in LeaveKey)}

(* leaves_trusted_equivalent, _it_ticket_matches.                          *)
Matches(a, r) ==
  /\ r.action = a
  /\ r.revision = current_revision[a]
  /\ r.key = business_request_key[a]
  /\ r.draft = DraftOf(a)

(* The terminal state and the row are written but not committed.           *)
Write(w, a, to, row) ==
  /\ uncommitted' = [uncommitted EXCEPT ![a] = to]
  /\ pending_row' = [pending_row EXCEPT ![w] = row]
  /\ phase' = [phase EXCEPT ![w] = "flushed"]

(* Adopt a matching row that is already there, or insert.                  *)
Succeed(w, a) ==
  Write(w, a, "SUCCEEDED", IF Existing(a) = {} THEN NewRow(a) ELSE NoRow)

(* How the worker ends an action whose authority has changed.  A ticket's  *)
(* authority hash, which is compared first, contains the ruleset but not   *)
(* the calendar's version.                                                 *)
TicketOutdated == {"EXECUTION_FAILED", "STALE"}

(* _finish_claimed up to the employee lock, or all of _finish_it_ticket.   *)
BeginExecution(w) ==
  LET a == job[w]
  IN  /\ phase[w] = "claimed"
      /\ \/ TtlExpired(a) /\ Write(w, a, "EXPIRED", NoRow)
         \/ /\ ~TtlExpired(a)
            /\ business_request_key[a] \in LeaveKey
            /\ phase' = [phase EXCEPT ![w] = "waiting"]
            /\ UNCHANGED <<uncommitted, pending_row>>
         \/ /\ ~TtlExpired(a)
            /\ business_request_key[a] \notin LeaveKey
            /\ \/ /\ AuthorityChanged(a)
                  /\ \E to \in TicketOutdated : Write(w, a, to, NoRow)
               \/ /\ ~AuthorityChanged(a)
                  /\ IF \E r \in Existing(a) : ~Matches(a, r)
                       THEN Write(w, a, "EXECUTION_FAILED", NoRow)
                       ELSE Succeed(w, a)
      /\ UNCHANGED <<tableVars, clockVars, row_lock, employee_lock, job, faults>>

(* Mutant: only the rows of the same request are compared.                 *)
ForeignSameRequest(a) ==
  {r \in LeaveRows(OwnerOf(a)) :
     r.key = business_request_key[a] /\ r.action # a}

(* Submitted leave of the employee that shares a day with this request and *)
(* belongs to another one.                                                 *)
Foreign(a) ==
  {r \in LeaveRows(OwnerOf(a)) :
     /\ Days[r.key] \cap Days[business_request_key[a]] # {}
     /\ r.key # business_request_key[a]
     /\ r.action # a}

(* Mutant: the balance seen at PREPARE is trusted.                         *)
BalanceTrusted(a) == FALSE

InsufficientBalance(a) ==
  LET k == business_request_key[a]
  IN  Hours[k][authority[k]] > Available(OwnerOf(a))

(* Mutant: the employee lock does not exclude.                             *)
ShareEmployeeLock(w, e) == employee_lock' = [employee_lock EXCEPT ![e] = w]

(* pg_advisory_xact_lock on the employee.                                  *)
AcquireEmployeeLock(w, e) ==
  /\ employee_lock[e] = Nobody
  /\ employee_lock' = [employee_lock EXCEPT ![e] = w]

(* The employee lock is granted; under it, the second TTL check and the    *)
(* revalidation of the confirmed draft against the committed tables.       *)
Revalidate(w) ==
  LET a == job[w]
  IN  /\ phase[w] = "waiting"
      /\ AcquireEmployeeLock(w, OwnerOf(a))
      /\ \/ TtlExpired(a) /\ Write(w, a, "EXPIRED", NoRow)
         \/ /\ ~TtlExpired(a)
            /\ AuthorityChanged(a)
            /\ Write(w, a, "STALE", NoRow)
         \/ /\ ~TtlExpired(a)
            /\ ~AuthorityChanged(a)
            /\ InsufficientBalance(a) \/ Foreign(a) # {}
            /\ Write(w, a, "EXECUTION_FAILED", NoRow)
         \/ /\ ~TtlExpired(a)
            /\ ~AuthorityChanged(a)
            /\ ~InsufficientBalance(a)
            /\ Foreign(a) = {}
            /\ phase' = [phase EXCEPT ![w] = "locked"]
            /\ UNCHANGED <<uncommitted, pending_row>>
      /\ UNCHANGED <<tableVars, clockVars, row_lock, job, faults>>

(* The preprobe, the third TTL check and the insert.                       *)
FinishLeave(w) ==
  LET a == job[w]
  IN  /\ phase[w] = "locked"
      /\ \/ /\ \E r \in Existing(a) : ~Matches(a, r)
            /\ Write(w, a, "EXECUTION_FAILED", NoRow)
         \/ /\ \A r \in Existing(a) : Matches(a, r)
            /\ TtlExpired(a)
            /\ Write(w, a, "EXPIRED", NoRow)
         \/ /\ \A r \in Existing(a) : Matches(a, r)
            /\ ~TtlExpired(a)
            /\ Succeed(w, a)
      /\ UNCHANGED <<tableVars, clockVars, row_lock, employee_lock, job, faults>>

(* Mutant: the advisory lock is the session's and outlives the             *)
(* transaction.                                                            *)
ReleaseRows(w, a) ==
  /\ row_lock' = [row_lock EXCEPT ![a] = Nobody]
  /\ uncommitted' = [uncommitted EXCEPT ![a] = "NONE"]
  /\ pending_row' = [pending_row EXCEPT ![w] = NoRow]
  /\ UNCHANGED employee_lock

(* Mutant: the connection stays open with the rows locked.                 *)
ReleaseEmployee(w, a) ==
  /\ employee_lock' = [e \in Owner |->
       IF employee_lock[e] = w THEN Nobody ELSE employee_lock[e]]
  /\ uncommitted' = [uncommitted EXCEPT ![a] = "NONE"]
  /\ pending_row' = [pending_row EXCEPT ![w] = NoRow]
  /\ UNCHANGED row_lock

(* The transaction's locks end with it.                                    *)
ReleaseLocks(w, a) ==
  /\ row_lock' = [row_lock EXCEPT ![a] = Nobody]
  /\ employee_lock' = [e \in Owner |->
       IF employee_lock[e] = w THEN Nobody ELSE employee_lock[e]]
  /\ uncommitted' = [uncommitted EXCEPT ![a] = "NONE"]
  /\ pending_row' = [pending_row EXCEPT ![w] = NoRow]

(* The server makes the transaction's writes visible, all together.        *)
ApplyCommit(w, a) ==
  /\ Enter(a, current_revision[a], uncommitted[a])
  /\ business_rows' = IF pending_row[w] = NoRow
                        THEN business_rows
                        ELSE business_rows \cup {pending_row[w]}
  /\ UNCHANGED <<current_revision, business_request_key, draft,
                 action_expires_at, confirmed_expires_at, challenge>>
  /\ ReleaseLocks(w, a)

(* Mutant: the business row is committed on its own.                       *)
RollbackStateOnly(w, a) ==
  /\ business_rows' = business_rows \cup ({pending_row[w]} \ {NoRow})
  /\ UNCHANGED <<current_revision, business_request_key, state, draft,
                 action_expires_at, confirmed_expires_at, challenge, audit>>
  /\ ReleaseLocks(w, a)

ApplyRollback(w, a) ==
  /\ UNCHANGED tableVars
  /\ ReleaseLocks(w, a)

Leave(w, next) ==
  /\ phase' = [phase EXCEPT ![w] = next]
  /\ job' = [job EXCEPT ![w] = IF next = "idle" THEN NoAction ELSE @]

Commit(w) ==
  /\ phase[w] = "flushed"
  /\ ApplyCommit(w, job[w])
  /\ Leave(w, "idle")
  /\ UNCHANGED <<clockVars, faults>>

(* An exception, a lock or statement timeout, or the death of the process  *)
(* before commit: the server rolls back.                                   *)
Abort(w) ==
  /\ phase[w] \in {"claimed", "waiting", "locked", "flushed"}
  /\ faults < MaxFaults
  /\ faults' = faults + 1
  /\ ApplyRollback(w, job[w])
  /\ Leave(w, "idle")
  /\ UNCHANGED clockVars

(* COMMIT is sent and its answer lost.                                     *)
LoseAck(w) ==
  /\ phase[w] = "flushed"
  /\ faults < MaxFaults
  /\ faults' = faults + 1
  /\ phase' = [phase EXCEPT ![w] = "in_doubt"]
  /\ UNCHANGED <<tableVars, lockVars, clockVars, job, pending_row>>

(* The server finishes the transaction the worker let go of.               *)
SettleInDoubt(w) ==
  /\ phase[w] = "in_doubt"
  /\ ApplyCommit(w, job[w]) \/ ApplyRollback(w, job[w])
  /\ Leave(w, "observing")
  /\ UNCHANGED <<clockVars, faults>>

(* _observe_after_lost_ack locks the rows, reads and only reports.         *)
Observe(w) ==
  /\ phase[w] = "observing"
  /\ RowsFree(job[w])
  /\ Leave(w, "idle")
  /\ UNCHANGED <<tableVars, lockVars, clockVars, pending_row, faults>>

(* The steps the worker or the server owes once a transaction is open.     *)
AdvanceWorker(w) ==
  \/ BeginExecution(w)
  \/ Revalidate(w)
  \/ FinishLeave(w)
  \/ Commit(w)
  \/ SettleInDoubt(w)
  \/ Observe(w)
=============================================================================
