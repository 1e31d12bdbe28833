# A verification development for the Enterprise AI Knowledge & Action Agent

The program answers employees' questions over governed documents and lets them
ask for two kinds of work, annual leave and IT support tickets. An LLM may only
*prepare* such an action; an employee confirms it on a separate page; a private
worker executes it. This directory holds TLA+ modules translated from that
code, TLC configurations that check them on small instances, and TLAPS proofs
that hold for every size. Paths are relative to the repository root.

## 1. Inventory

**Workflow store** (`src/app/db/workflow_models.py`, the repositories under
`src/app/workflow/`). State: actions with their current revision and business
request key, revisions with state, draft, TTLs, confirmation challenges, leave
requests and IT tickets, an append-only audit trail; row locks and the
per-employee advisory lock (`locks.py`). A partial unique index lets one
request key have one revision in AWAITING_CONFIRMATION, CONFIRMED or SUCCEEDED.
Every other component of the control plane changes this state and no other, so
they interact through lock waits and the tables.

**PREPARE** (`action_creation.py`, `it_action_creation.py`,
`executable_preparation.py`). Reads balance and authority in one transaction,
then up to three times tries to insert a new action in a second one and, when
the index refuses, to lock, reuse, return or expire the occupant in a third.
Hard: everything may happen between those transactions. Correct when a request
never has two occupants, a call returns, and what it reuses is alive.

**Confirmation service** (`confirmation.py`, `tokens.py`) and **IT revision**
(`it_revision.py`). Read, issue a challenge, confirm, cancel, edit; each locks
the workflow and its current revision and normalises an expired TTL. Hard: two
tabs, a stale challenge, a replay, an expiry in between, the lock order. Correct
when a challenge that can still be accepted speaks of what its owner now sees,
and nothing is confirmed without one.

**Atomic executor and poller** (`atomic_execution.py`, `confirmed_poller.py`,
`worker_cli.py`, `src/app/demo/leave_execution.py`). Claims a CONFIRMED revision
with SKIP LOCKED, checks the TTL up to three times, waits for the employee's
lock, revalidates authority, balance and overlap, inserts the row, writes state
and audit event, commits; cools an action that fails, backs off when the
database does. Hard: concurrent workers, a crash at any statement, a lost
acknowledgement, a unique violation, starvation. Correct when SUCCEEDED and the
row are one outcome, what is executed is what was confirmed, no balance is
overdrawn, no day booked twice, and a confirmed action is decided in the end.

**Demo control** (`src/app/demo/`, `src/app/api/dependencies.py`,
`src/app/db/session.py`). Daily allowances; a reset that raises a maintenance
flag, takes an exclusive advisory lock and empties the tables; a guard that
takes the shared lock and keeps a pooled connection. Hard: a reset that fails
halfway, readers that take no lock, an allowance spent on work that is then
refused, the pool at its limit. Correct when a reset is one step to everyone
else and ends, and no ceiling is passed.

**Agent loop and assistant** (`src/app/agent/`,
`src/app/api/assistant_application.py`). Model rounds and tool calls within
budgets, provider failures, and the last draft turned into a PREPARE call. Hard:
a budget that ends inside a round, a draft before a failing round, midnight.

**Knowledge** (`src/app/ingestion/`, `src/app/knowledge/`, `src/app/grounding/`).
Check, embed with no transaction, then persist and supersede under a lock;
filter before rank; citations that are followed later. Correct when a policy has
one approved version and an answer cites only what was published to its reader.

**Draft arithmetic** (`calendar.py`, `calendar_service.py`, `canonical.py`,
`authority.py`, `src/app/services/leave_preparation.py`). Work days, holidays,
eligibility, the comparison of a confirmed authority with the live one.

**Cutover** (`cutover.py`, `occupancy.py`, `migrations/versions`). Two migrations
around a maintenance window that decide what the retired executor left open.

**Product evaluation** (`src/app/evaluation/v4/`). Launch, resume, isolated
database, circuit breaker, scoring, report.

**Portal** (`src/app/portal/service.py`). Pages of several statements each, read
while the control plane moves.

Components interact by calls (the assistant calls PREPARE, the poller the
executor), by shared tables and their locks, and, for the demo, by one advisory
lock. `PROJECT.json` lists every component, what is left out of it, and every
hazard with the line where it bites and the properties that cover it.

## 2. Plan

| Step | Modules | What it adds | State |
|---|---|---|---|
| 1 | WorkflowStore, ConfirmationService, ItRevision, ActionCreation, AtomicExecution, ActionSystem, AuthorizedExecution | the control plane and its promise, refinement checked | done |
| 2 | ActionSystemProofs | the inductive invariant and the safety theorems | done |
| 3 | RowLocks, ConfirmedPoller | handlers lock by lock; the worker's loop, recovery and backoff | done |
| 4 | MutationWindow, DemoLife | reset, guard, pool; refinement checked | done |
| 5 | AssistantTurn, LeaveAuthority | allowances, agent loop, draft; what leave costs | done |
| 6 | Chunking, KnowledgeIngestion, KnowledgeQuery | corpus, answers, citations | done |
| 7 | PortalReads | pages beside the control plane | done |
| 8 | ExecutionCutover, EvaluationRun | migrations; the evaluator | done |
| 9 | SumLemmas, the second half of ActionSystemProofs, RowLocksProofs, WorkerProofs, MutationWindowProofs, AssistantTurnProofs, OperatorProofs, KnowledgeProofs | both refinements, the ledgers, pages, locks, recovery, reset, allowances, hours, migrations, corpus and citations | done |
| 10 | the evaluator in OperatorProofs, the chunker in KnowledgeProofs | the report of the evaluation; every document is chunked whole or refused | done |

## 3. The modules

| Module | Models | Composed with |
|---|---|---|
| WorkflowStore | tables, occupancy index, locks, `normalize_locked_expiry`, balance query | base of the next four |
| ConfirmationService | GetAction, IssueChallenge, Confirm, Cancel | WorkflowStore |
| ItRevision | CreateRevision | ConfirmationService |
| ActionCreation | StartPrepare, AttemptInsert, FindOccupant, ResolveOccupant; state `prepare` | ItRevision |
| AtomicExecution | Claim, BeginExecution, Revalidate, FinishLeave, Commit, Abort, LoseAck, SettleInDoubt, Observe; state `phase`, `job`, `pending_row` | WorkflowStore |
| ActionSystem | the control plane, its properties and fairness | all above, AuthorizedExecution |
| AuthorizedExecution | the promise: propose, amend, drop, consent, carry out | refined by ActionSystem |
| PortalReads | detail page and list, statement by statement; state `page` | ActionSystem |
| RowLocks | the same handlers, PREPARE losers and worker as sequences of lock requests | alone |
| ConfirmedPoller | claim order, cooldown, outage backoff, recovery, restart | alone |
| MutationWindow | reset row by row, guarded requests, unguarded reads, worker, pool | DemoLife |
| DemoLife | serve, stop serving, restore the baseline in one step | refined by MutationWindow |
| AssistantTurn | allowances, rounds, tool calls, draft, response | alone |
| LeaveAuthority | calendars, preview, preparation, classification, upgrades | alone |
| Chunking | sections, anchors, windows (operators) | KnowledgeIngestion |
| KnowledgeIngestion | directory runs, check, embed, lock, supersede, verify | Chunking |
| KnowledgeQuery | question, date, ranking, draft, citations, policy page | KnowledgeIngestion |
| ExecutionCutover | the retired executor (external), migrations 0004 and 0005 | alone |
| EvaluationRun | launch, preflight, cases, breaker, score, report | alone |

| Proofs | About | Rest on |
|---|---|---|
| SumLemmas | SumFunction over finite sets | the library's facts on finite sets |
| ActionSystemProofs | ActionSystem, its refinement, PortalReads | SumLemmas |
| RowLocksProofs | RowLocks | alone |
| WorkerProofs | ConfirmedPoller, LeaveAuthority | SumLemmas |
| MutationWindowProofs | MutationWindow, its refinement of DemoLife | alone |
| AssistantTurnProofs | AssistantTurn | SumLemmas |
| OperatorProofs | ExecutionCutover, EvaluationRun | the library's facts on finite sets |
| KnowledgeProofs | Chunking, KnowledgeIngestion, KnowledgeQuery | SumLemmas |

Where a step begins and ends, and what is abstracted:

- **ActionSystem: an API handler is one step.** It is one READ COMMITTED
  transaction that first locks workflow and current revision
  (`_lock_owned_revision`); every later decision reads only those rows and the
  action's challenges. That this is so is proved of RowLocks: from the lock of
  the revision to the commit nobody else changes the action or its challenge
  (HandlersAreUndisturbed). Handlers that end in an error after normalising the
  expiry commit the normalisation; `issue_challenge` raises inside its
  transaction and rolls it back.
- **A PREPARE call is one step per transaction.** An insert that meets the
  uncommitted end of an occupant waits for it, as PostgreSQL's unique index
  does; `ResolveOccupant` evaluates the row again once the lock is granted.
- **A worker's transaction is several steps**, because it holds locks while it
  waits: claim; work up to the employee lock; the grant and the revalidation;
  preprobe, TTL and insert; commit. What it writes is in `uncommitted` and
  `pending_row` until Commit. `Abort` is every failure before commit, death
  included; after `LoseAck` the server decides (`SettleInDoubt`).
- **Time and authority in ActionSystem.** `Tick` advances a bounded clock, TTLs
  are compared as `expires_at <= now`. `authority` is a counter per request that
  a deployment may raise, on which the hours of a leave depend; how hours come
  about is LeaveAuthority's. Hashes are the drafts themselves, tokens the
  challenges' identifiers. The order of claims, delays and writers of leave rows
  other than the executor are left to ConfirmedPoller.
  An IT ticket whose authority changed ends EXECUTION_FAILED when its authority
  hash differs (the ruleset is in it) and STALE when only the calendar's version
  does; BeginExecution leaves the two open. A changed authority is in the bounds
  of `leave` only, so for tickets this choice is covered by the proofs alone.
- **RowLocks** keeps of the data one state per action, its challenge and its
  lateness; a claim takes the workflow's and the revision's lock together; waits, deadlock detection and SKIP LOCKED are PostgreSQL's.
  "prepare" identifiers in state none are actions not inserted yet.
- **ConfirmedPoller** counts time in units of 50 ms, the first cooldown; a
  poll's own work takes no time; jitter is taken at its two ends. Recovery is
  that of a leave (a ticket's differs by not looking at the TTL, and nothing but
  the executor writes tickets). What is wrong with an action is a constant.
  `Crowded` describes the queue in which the code starves a sound action: as
  many older actions that always raise as the longest cooldown has polls.
- **MutationWindow** reduces a handler to its effect on state and challenge, and
  keeps what meets the reset: pool, guard, row locks, deletes row by row in the
  code's order, deadlock victims, the RESTRICT constraint, rollback.
- **AssistantTurn**: replies, tool results and failures are choices; a leave
  draft is the local day its weekday was resolved on and the spelling of the
  tool's name in the call (`Spellings`): the dispatcher strips white space, the
  comparison of the date does not. UTC days (buckets) and local days pass
  independently.
- **Knowledge**: a line of text is a token count, a heading slug and whether the
  heading has a label, without which its document is refused; distances
  are any order of the eligible chunks; dates are days.
- **LeaveAuthority** computes with real dates; hours are hundredths.
- **ExecutionCutover** takes the retired executor from what the migrations, the
  gate and the freeze documents say of its ten states; it is external.
- **EvaluationRun**: one evaluator at a time. A product has a part that the
  fingerprints are taken of (`Hashed`) and one that they are not (`Unhashed`:
  isolation, tokens, the repositories, grounding, the database code);
  `Fingerprints` sees the first only. The report is written in two steps,
  OpenReport (`write_text` empties the file, which is `Torn` from then on) and
  WriteReport, between which the evaluator may be killed. Edits come between
  launches, not while one runs: the fingerprints are taken once, of files, and
  what a process has loaded is what it evaluates.
- **PortalReads**: a page is one reader's statements; ordering of a list by
  creation is not kept, so any rows may be the page's.

## 4. The runs

| Run | Instance | What it shows |
|---|---|---|
| leave | 2 actions over 3 leave requests (two share a day, one takes the whole balance), 2 workers, 1 PREPARE call, 1 fault, 1 authority change | RowIffSucceeded, BalanceNeverOverdrawn, AuditExplainsState, NoOverlappingLeave, RevalidationStaysTrue, ControlInvariant (the proofs' inductive invariant), LapsedOnlyExpires, and KeepsPromise: every behaviour is one of AuthorizedExecution |
| tickets | 1 IT request, 2 actions, 2 revisions, 2 contents, a foreign session, one reader, list limit 1 | ActiveChallengeIsCurrent, ExecutedAsConfirmed, ConfirmedByConsent, PageFitsTogether, TerminalIsFinal, ReusedTicketIsCurrent |
| prepare_race | 2 PREPARE calls for 1 leave request, 4 actions, 1 worker, 1 fault, 2 ticks | TypeOK (with the bound on attempts), OneOccupantPerRequest, ReusedLeaveIsLive |
| liveness | a leave and an IT request, 2 workers, 1 fault, fairness | ConfirmedIsDecided, PrepareReturns |
| row_locks | 3 clients, 3 actions under 2 keys, confirmations, PREPARE and worker | OnlyCrossedConfirmations, HandlersAreAtomic |
| poller | 1 worker, two actions that raise (which fill the longest cooldown), one with an SQL error, one sound; any 1 fault (an outage that takes the answer of a COMMIT with it is one); the code's delays | OutcomeIsReal, YoungerProgresses |
| window | 2 guarded requests of 4 kinds, 1 unguarded read, worker, 1 action, pool 1 + 1, 2 resets | NoOrphan, ResetIsOneStep (refinement of DemoLife), ResetEnds |
| turn | 2 turns of one visitor, 2 rounds, 2 calls, limits that serve one, 2 days | CeilingHolds, ActionIsLatestDraft, RefusalLeavesNothing |
| cutover | 3 actions, 2 under one key, all ten legacy states | CutoverIsClean, NothingInvented |
| knowledge | 9 sources, 3 directory runs, 1 reader, 2 days | OneApprovedVersion, PassedFilesAreStored, CitesPublishedPolicy, GoneOnlyWhenReplaced, GapOnlyFromSuccessor; the assumption EveryBodyIsWhole chunks every body of up to 5 lines, one of them a heading without a label |
| evaluation | 3 kinds of cases, 2 faults, 1 harmful answer, 1 kill, 1 edit of what is hashed or of what is not, 1 fresh launch; the output path absent, a closed Run 1 or torn | ReportCanBeTrusted, CompletedIsKept |
| leave_authority | 6 requests around the dates that matter, 2 employees, 2 patterns, both upgrades | HoursAreRight, LiveAuthorityDecides |

Why the bounds are enough. Two of everything that races: workers for one
employee's lock, calls for one key, actions for one balance, revisions of one
action, turns for one allowance, requests for one pool. Four actions in
prepare_race, because an expired, cancelled or failed one leaves its key to the
next; three clients in row_locks, so that cycles of three are looked for (a
cancellation, an edit or a challenge takes a subset of a late confirmation's
locks in the same order). One or two seconds of clock reach and pass every TTL.
One fault is enough for a rollback or a lost acknowledgement with a retry after
it, two for the breaker of the evaluation; a fault during the recovery from
another is left to OutcomesAreReal, which holds for any number. The dates of
leave_authority are those at which the code decides: the Grand Final Friday,
Easter, the end of the V4 calendar, an unresolved Friday. Deadlock is checked
except in row_locks, cutover and evaluation, where every request may have been
answered, the migration refused, or no launch be left.

Symmetry is used only where no property tells the values apart, and in no run
with a liveness property.

**Fairness.** In ActionSystem: a PREPARE call in progress is run by its thread,
an open transaction by its worker or the server, and `run_loop` asks for work
for ever: all weak, nothing of employees, clock or faults. In MutationWindow:
weak for each request, read, worker turn and the reset's statements; strong for
DeleteRow, because PostgreSQL queues row locks in order of arrival, and a read
cannot keep overtaking; weak for a reset that violates the RESTRICT constraint
to fail. In ConfirmedPoller: weak for time, the end of an outage and the loop,
and for the TTL of the action whose SQL error is permanent: until that TTL passes
it backs the whole worker off, and YoungerProgresses does not hold without it.

Each property has at least one mutant of the code that breaks it: the operators
marked "Mutant" stand beside the definition they change, and `PROJECT.json`
pairs them.

### Where documents and code differ

Met while translating; none is a defect of the tables' safety.

| Code | Document |
|---|---|
| GET on an action writes its expiry without the shared lock (`api/routes/actions.py:47`) | `docs/deployment.md:46`: the reset "waits for active state-changing work" |
| the pool falls back to SQLAlchemy's own size and overflow (`db/session.py:21`) | `.env.example:31-33` |
| the agent reads the clock twice, once for the date the model is told and once for the date enforced (`agent/service.py:88,108`); a midnight between makes it reject the date it told | `docs/v3-implementation-notes.md:48-51` |
| the transitional occupancy index covers three states (`occupancy.py:21`) | freeze 2.2, section 6, says six; migration 0005's downgrade names six |
| the cutover halts on a terminal draft if another draft of the same request was submitted (`occupancy.py:318`) | freeze 2.2:885-894 names only the action's own leave |
| anchors of repeated headings collide (`ingestion/chunking.py:132`) | `tests/v2/test_chunking.py:57` expects stable distinct anchors |
| the evaluator's ledger count is the constant 0 (`evaluation/v4/isolation.py:148`), so dev_v4_f1_full_e2e cannot pass | `evals/development/v4_product_cases.jsonl:16` expects 1 |
| the flag for an authority transition caused by the chat compares two readings taken after it (`v4/runner.py:502`): a confirmation from the chat fails its case but leaves the safety gate green. ExecutionFailsGate speaks of executions | `docs/v4-product-evaluation.md:264-267`, the "zero-tolerance inventory" |
| a case behind an open breaker loses its attempt history (`v4/runner.py:141`) | `docs/v4-implementation-notes.md:75` |
| confirm locks the challenge the caller named before it checks whose it is (`confirmation.py:165`): two late confirmations can deadlock; the workflow is locked before the revision | freeze 2.2:331-346 |
| a cooldown is capped at 2 s and the poll is 1 s (`atomic_execution.py:886`), so as many actions that always raise as fill the cap starve a sound one until enough of their TTLs pass: two whose cooldowns are over when polled again, three whatever the jitter. YoungerProgresses promises progress only while they are fewer (`Crowded`) | freeze 2.2:771, "younger work can progress" |
| the weekday is enforced only when the model's call spells `prepare_leave_request` exactly (`agent/service.py:260`); the dispatcher strips white space from the name (`agent/models.py:26`) and prepares the leave. ActionIsLatestDraft promises the day for the exact spelling | `docs/v3-implementation-notes.md:50-51`: "incompatible model-proposed ISO dates are rejected" |
| the fingerprints of an evaluation are of a fixed list of files (`v4/fingerprints.py:26-78`) that leaves out isolation, tokens, several repositories, grounding and the database code: a report may be resumed after they change. ReportHasOneIdentity speaks of fingerprints | `docs/v4-product-evaluation.md:151-153`: "material model/product behavior ... V4 workflow/product" |
| the report is written in place, emptied first (`v4/cli.py:183`): a kill in between destroys the resumed report, and the next launch cannot parse it. CompletedIsKept speaks of what is written whole | `tests/v4/test_product_evaluation.py:237`: a resume "returns previous completed results" |
| an IT ticket whose ruleset changed ends EXECUTION_FAILED with DRAFT_INTEGRITY_FAILURE, because the authority hash is compared first (`atomic_execution.py:339`) | the check meant for it, with AUTHORITY_CHANGED and STALE, follows at `atomic_execution.py:351` |

## 5. What is proved

The runs take small instances; the theorems hold for every value of the
constants that meets the modules' assumptions. Of the 40 properties of the runs
36 are theorems; the four others are liveness (section 6). Each inductive invariant was
first given to TLC on the run of its component.

### The control plane (ActionSystemProofs)

| Theorem | Statement |
|---|---|
| ControlSafety | Spec => []ControlInvariant |
| TypeCorrect | Spec => []TypeOK |
| RequestHasOneOccupant | Spec => []OneOccupantPerRequest |
| ChallengeIsNeverStale | Spec => []ActiveChallengeIsCurrent |
| NothingWithoutConsent | Spec => []ConfirmedByConsent |
| ExecutionMatchesConsent | Spec => []ExecutedAsConfirmed |
| AtomicOutcome | Spec => []RowIffSucceeded |
| CarriedOutOnce | Spec => []OneRowPerRequest |
| RevisionsSucceed | Spec => []OnlyCurrentRevisionLives |
| LeaveNeverOverlaps | Spec => []NoOverlappingLeave |
| RevalidationHolds | Spec => []RevalidationStaysTrue |
| TransactionProtected | Spec => []LocksProtectJob |
| WriteIsWhole | Spec => []PendingWriteIsWhole |
| DecisionsAreFinal | Spec => TerminalIsFinal |
| ReusedLeaveLives | Spec => ReusedLeaveIsLive |
| ReusedTicketOccupies | Spec => ReusedTicketIsCurrent |
| LapsedActionsExpire | Spec => LapsedOnlyExpires |
| LedgersHold | Spec => []FullInvariant |
| BalanceIsNeverOverdrawn | Spec => []BalanceNeverOverdrawn |
| AuditIsComplete | Spec => []AuditExplainsState |
| PromiseIsKept | Spec => KeepsPromise |
| PagesOnlyRead | PSpec => Spec |
| PagesHold | PSpec => []PageInvariant |
| PagesFitTogether | PSpec => []PageFitsTogether |

OneRowPerRequest, OnlyCurrentRevisionLives, LocksProtectJob and
PendingWriteIsWhole are conjuncts of ControlInvariant; the runs check them there.

**Assumptions** (all evaluated by TLC in every run): TTLs are positive
(`src/app/config.py` validates ge=1), bounds are naturals, the functions that
describe requests have their types, and the null values are none of the values
they stand beside.

**The argument.** None of the safety properties is inductive alone. Take
RowIffSucceeded: a commit keeps it only if what the transaction wrote is a row
together with SUCCEEDED (PendingWriteIsWhole), for an action that nobody moved
meanwhile (LocksProtectJob) and that had no row yet, which follows from
OneOccupantPerRequest, because a row belongs to a SUCCEEDED revision of the same
key. NoOverlappingLeave needs that what the worker revalidated is still true at
the commit (RevalidationStaysTrue), which needs that the other worker that might
commit an overlapping row holds a *different* employee's lock, which needs the
rows to have the key of their job. ExecutedAsConfirmed needs that the confirmed
revision is the current one (OnlyCurrentRevisionLives) and that its challenge
was consumed with that very draft, which needs that an active challenge is never
left behind by an edit (ActiveChallengeIsCurrent). ControlInvariant is the
conjunction that closes.

The proof is cut by who writes what. The invariant splits into the part about
tables, about workers' transactions and about PREPARE calls (InvariantParts). A
handler or a PREPARE step touches one unlocked action (`Touches`), so it cannot
disturb an open transaction (WorkersUndisturbed); it keeps given consent and
moves a revision along its life cycle, from which six of the tables' properties
follow at once (TablesSurvive). Expiry and cancellation share one lemma
(DecidesTables). A statement inside a worker's transaction leaves the tables
alone (TransactionStep, WriteStep); the end of a transaction is ReleaseStep for
the workers and CommitTables for the tables. DecisionsAreFinal follows from the
same invariant: whatever a step moves is a current revision that is not terminal
(CurrentMoves).

The two theorems about reuse rest on one observation: only `ResolveOccupant`
answers REUSED_EXISTING, and in the same step it has locked an occupant of the
call's key. By OnlyCurrentRevisionLives that occupant is its action's current
revision, by OneOccupantPerRequest it is the only one, and for leave
`normalize_locked_expiry` has run first, so it is neither decided nor lapsed.

**Balance and audit.** FullInvariant adds LedgerInvariant to ControlInvariant.
BalanceNeverOverdrawn is not inductive: the commit adds hours that were compared
with the balance some steps earlier. RevalidationStaysCovered says that the
comparison still holds, because whoever could have used up the balance since
needs the same employee's lock. What a commit adds to a sum is SumAdd
(SumLemmas). AuditExplainsState needs that every event follows the life cycle
(AuditFollowsLifeCycle), and each step that changes a state appends its event.

**The refinement.** PromiseIsKept maps initial states to initial states, and
each step to a step of AuthorizedExecution or a stutter: a proposal is the insert
of PREPARE, amend the edit, consent the confirmation, drop every terminal state
without a row, carry out the commit with one. Claims, waits, rollbacks and lost
answers are stutters. A lost answer that the server settles by committing is a
carry out.

**Pages.** A page is read by statements between which anything may commit. What
survives is history: PageHolds relates what was read to tables that have only
grown, so that an item's wording is still that of its revision, the event that
entered its state is in the trail, and a final state is still the state.
PageFitsTogether follows when the last statement has been read.

**SumLemmas.** The library's sum over a set is a recursive function behind a
CHOOSE. The lemmas show that such a function exists for every finite set
(SumsExist), that any two agree (SumsAgree), and from there the facts proofs
need: SumFirst, SumTake (any element may be taken first), SumAdd, SumBounded.
Induction over finite sets is FiniteInduction, which takes the set of the good
subsets in place of an operator and rests on the least-element principle.

### Locks (RowLocksProofs)

| Theorem | Statement |
|---|---|
| LocksHold | Spec => []LockInvariant |
| HandlersAreUndisturbed | Spec => HandlersAreAtomic |
| OnlyConfirmationsDeadlock | Spec => []OnlyCrossedConfirmations |

LockInvariant says which locks a transaction may hold at each of its requests
(MayHold) and that a decided one holds its revision or is the PREPARE call that
alone can name the action (Guarded). In a cycle of the waits-for graph everyone
waits for somebody and is waited for (CycleDegrees). Who is waited for waits at a
later lock than the workflow, the index or the occupant (BlockerHolds); the
employee's and the own challenge's holder are done with those steps; so every
member waits for a named challenge with its own in hand: a confirmation of a
lapsed action. The theorem covers the three handlers that the run leaves out
(section 7).

### The worker's loop (WorkerProofs)

| Theorem | Statement |
|---|---|
| OutcomesAreReal | PollSpec => []OutcomeIsReal |

It needs that who has an action locked is alone with it (LocksAreUsed) and that
what a worker is about to commit still makes sense (Carries): an uncommitted
insert keeps foreign rows out, an equivalent row stays. The run has one worker,
the theorem any number, under ConfirmedPoller's assumptions.

### Reset (MutationWindowProofs)

| Theorem | Statement |
|---|---|
| WindowHolds | Spec => []WindowInvariant |
| NothingIsOrphaned | Spec => []NoOrphan |
| ResetIsAtomic | Spec => ResetIsOneStep |

The exclusive lock keeps requests and worker out (ResetIsAlone), row locks keep
unguarded readers off deleted rows (ReadersHoldRows), and each DELETE finds what
the one before it left (StatementsInOrder). Under the refinement mapping a reset
in progress has not happened yet; its commit is DemoLife's restore.

### Assistant turn (AssistantTurnProofs)

| Theorem | Statement |
|---|---|
| TurnHolds | Spec => []TurnInvariant |
| CeilingIsKept | Spec => []CeilingHolds |
| LatestDraftWins | Spec => []ActionIsLatestDraft |
| RefusalsAreClean | Spec => []RefusalLeavesNothing |

LatestDraftWins is about the day for a call that names the tool exactly; for a
padded name it says only that the last draft wins (section 4, the differences).
A turn's rounds are reserved before the first (BudgetsAreReserved) and never
exceed the reservation (RoundsAreBounded); a day's bucket is at least the number
of turns that reserved on it times the budget, and the limit bounds it.
The ceiling is a sum over turns, bounded by SumBounded.

### Hours (WorkerProofs)

| Theorem | Statement |
|---|---|
| LeaveHolds | Spec => []LeaveInvariant |
| HoursStayRight | Spec => []HoursAreRight |
| AuthorityIsLive | Spec => LiveAuthorityDecides |

For any employees, fixtures, balance and requests with integer dates, and the
calendars the program has. LeaveInvariant says that a call works on a checked
range, that the sum it read can only have grown (CommittedGrows), and that what
is confirmed or submitted is priced by its own calendar and pattern (Priced).
That both calendars give one price is LaterHolidays (what the M3 calendar adds
lies past the end of the V4 calendar) with NothingUnresolvedBefore. Assumed are
hours per day and base balance that are not negative
(`src/app/agent/models.py` validates both).

### Cutover (OperatorProofs)

| Theorem | Statement |
|---|---|
| CutoverLeavesCleanData | Spec => []CutoverIsClean |
| MigrationInventsNothing | Spec => NothingInvented |

The invariant adds that a leave has its action (LeavesHaveActions) and that the
old binary is gone once the final migration is in (OldBinaryIsGone).

### Evaluation (OperatorProofs)

| Theorem | Statement |
|---|---|
| EvaluationHolds | EvalSpec => []EvalInvariant |
| ReportIsTrustworthy | EvalSpec => []ReportCanBeTrusted |
| CompletedStaysKept | EvalSpec => CompletedIsKept |

For any cases, gold answers, faults, edits and launches, and any split of the
product into what the fingerprints find and what they do not. ReportIsTrustworthy
says that results share the report's fingerprints, not that they share a product;
that a case in which the assistant confirmed or executed never passes; and that
an execution fails the gate. CompletedStaysKept says that a resuming launch only
empties the report it has in memory (OpenHolds) and that whatever it writes has
every completed case of it: it does not say that the write takes place. The
invariant relates three things. LaunchHolds: the results in memory follow the
order of the cases, have the fingerprints of the launch, and repeat the completed cases
of the report it resumed; the breaker's counter is one exactly when the last
attempted case was limited, and it is open exactly when two attempted cases in a
row were (BreakerCounts, Stopped). ReportHolds: the file on disk is such a list
with the summary of it. CaseHolds: what the running case's database holds is
explained by this case alone, which starts from emptied tables whatever the
case before left. Results grow at their end only, so the facts about "the last
two attempted" are proved over indices for one appended result (ResultRecorded).

GoldAssumption states what `evals/development/v4_product_cases.jsonl` has: a
case that is confirmed out of band is the one that also runs the worker, and puts
one prompt to an empty database; no case prepares twice before its confirmation.

### Knowledge (KnowledgeProofs)

| Theorem | Statement |
|---|---|
| QuestionsOnlyRead | QSpec => Spec |
| ChainsEndInOneVersion | Spec => []OneApprovedVersion |
| PassedFilesStayStored | Spec => []PassedFilesAreStored |
| EveryBodyIsWholeOrRefused | \A document \in Seq(Line) : WholeOrRefused(document), for every target and overlap |
| CitationsArePublished | QSpec => []CitesPublishedPolicy |
| GoneMeansReplaced | QSpec => []GoneOnlyWhenReplaced |
| GapsComeFromSuccessors | QSpec => GapOnlyFromSuccessor |

The lock on the document code makes the decision of a transaction still hold at
its commit (LocksExclude, JobIsSound); a row keeps its source and a superseded
one stays so (RowsPersist), from which citations and pages follow.

**The chunker.** Gathered, Windows and FlattenSeq are recursive functions, each a
function that CHOOSE names. For each, a lemma shows that such a function exists
(ReadsExist, CutsExist, JoinsExist) and another follows it from one argument to
the next; both inductions are the least-element principle of SumLemmas. Gathered
is followed line by line (Underway): the finished sections are the headings so
far, each with exactly the text under it, and the section in hand has the text
since its own. Windows is followed from the end of the text to its start, because
a window's successor starts later (ResumeMovesOn needs that the heading leaves
more room than the overlap: Fits). Chunks of one section are joined to those of
the ones before it (CoversMore). Refused is only a document with nothing to store
or with a heading that leaves no room or has no label. The only assumptions are those of the
constructor, overlap below target, and that a heading's marks are a token of it.

## 6. What is only model-checked

- Liveness: ConfirmedIsDecided, PrepareReturns, YoungerProgresses, ResetEnds.
  Fairness and ENABLED are outside what the proof system handles.

## 7. Not modelled

- The V2 and V3 evaluators and the diagnostic pair: offline scripts of one call
  after another. How fingerprints are encoded.
- The providers' SDK retries, prompts, the V0 question classifier: no stored
  state depends on them. Citations inside the agent loop (KnowledgeQuery has
  those of the knowledge endpoint).
- Request and response schemas, error mapping, single-statement lists and the
  leave summary of the portal.
- The worker's heartbeat and the readiness page: they report and change nothing.
- Rounding of hours beyond two decimals; canonical hashes are taken to be
  injective; the token count of a usage bucket, which nothing reads back.
- Migrations other than 0004 and 0005; the ticket checks of the occupancy scan,
  which run on a table that does not exist at those revisions; the scan's
  recomputation of stored keys.
- The failpoints and holds of the executor, which only tests set.
- `cancel`, `create_revision` and `issue_challenge` are operators of RowLocks
  that its run leaves out: with three clients they exceed what a run may take.
