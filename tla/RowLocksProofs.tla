---------------------------- MODULE RowLocksProofs ------------------------------
(***************************************************************************)
(* Proofs about RowLocks, for any number of clients, actions and business  *)
(* requests.  What a transaction may hold at each of its steps (MayHold)   *)
(* and what it must hold once it has decided (Guarded) is an inductive     *)
(* invariant.  From it a handler is undisturbed between its decision and   *)
(* its commit, and a cycle of the waits-for graph can only be made of      *)
(* confirmations of lapsed actions.                                        *)
(***************************************************************************)
EXTENDS RowLocks, TLAPS


Steps ==
  {"workflow", "revision", "key", "occupant", "own", "named", "employee", "commit"}

Transaction ==
  [kind : Handlers \cup {"prepare", "worker"}, step : Steps,
   action : Action, named : Action, late : BOOLEAN]

LockTypeOK ==
  /\ state \in [Action -> {"none", "waiting", "confirmed", "succeeded", "ended"}]
  /\ challenge \in [Action -> {"none", "active", "ended"}]
  /\ holder \in [Lock -> Client \cup {Nobody}]
  /\ tx \in [Client -> {Idle} \cup Transaction]

(* The locks a transaction may hold.                                       *)
MayHold(t) ==
  CASE t.step = "revision" -> {<<"workflow", t.action>>}
    [] t.step = "own" -> {<<"workflow", t.action>>, <<"revision", t.action>>}
    [] t.step = "named" -> {<<"workflow", t.action>>, <<"revision", t.action>>}
                             \cup (IF t.late THEN {<<"challenge", t.action>>} ELSE {})
    [] t.step = "employee" -> {<<"workflow", t.action>>, <<"revision", t.action>>}
    [] t.step = "commit" -> Lock
    [] OTHER -> {}

Decided(t) == t.step \in {"own", "named", "employee", "commit"}

HoldsRevision(c) == holder[<<"revision", tx[c].action>>] = c

(* A PREPARE call before its insert is visible: nobody else can name the   *)
(* action it is about to create.                                           *)
Fresh(c) ==
  /\ tx[c].kind = "prepare" /\ tx[c].step \in {"key", "commit"}
  /\ state[tx[c].action] = "none"
  /\ \A d \in Client : d # c /\ InTransaction(d) => tx[d].action # tx[c].action

Guarded(c) ==
  /\ \A l \in Lock : holder[l] = c => l \in MayHold(tx[c])
  /\ Decided(tx[c]) => HoldsRevision(c) \/ Fresh(c)
  /\ tx[c].step = "key" => Fresh(c)
  /\ tx[c].step = "named" => tx[c].kind = "confirm"
  /\ tx[c].step = "own" /\ tx[c].kind = "confirm" => tx[c].late

LockInvariant == LockTypeOK /\ \A c \in Client : Guarded(c)

-----------------------------------------------------------------------------
(* A step of client c, as the other clients see it.                        *)
MovesAlone(c) ==
  /\ \A d \in Client : d # c => tx'[d] = tx[d]
  /\ \A l \in Lock : holder'[l] # holder[l] =>
       holder[l] \in {Nobody, c} /\ holder'[l] \in {Nobody, c}
  /\ \A a \in Action : state'[a] # state[a] => InTransaction(c) /\ a = tx[c].action
  /\ InTransaction(c)' =>
       \/ InTransaction(c) /\ tx'[c].action = tx[c].action
       \/ state[tx'[c].action] # "none"
       \/ \A d \in Client : InTransaction(d) => tx[d].action # tx'[c].action

(* A client inside a transaction has a transaction record.                 *)
LEMMA TransactionType ==
  ASSUME LockTypeOK, NEW c \in Client
  PROVE  /\ InTransaction(c) => tx[c] \in Transaction
         /\ ~InTransaction(c) => tx[c] = Idle
BY DEF LockTypeOK, InTransaction, Idle, Transaction, Steps

(* The two row locks of an action are different locks of the system.       *)
LEMMA LockIsLock ==
  ASSUME NEW a \in Action
  PROVE  /\ <<"workflow", a>> \in Lock /\ <<"revision", a>> \in Lock
         /\ <<"challenge", a>> \in Lock /\ <<"employee">> \in Lock
BY DEF Lock

(* Nobody else's part of the invariant is disturbed.                       *)
LEMMA OthersStayGuarded ==
  ASSUME LockInvariant, NEW c \in Client, MovesAlone(c), NEW d \in Client, d # c
  PROVE  Guarded(d)'
<1>1. tx'[d] = tx[d] /\ Guarded(d) /\ d # Nobody
  BY NobodyAssumption DEF MovesAlone, LockInvariant
<1>2. \A l \in Lock : holder'[l] = d <=> holder[l] = d
  BY <1>1 DEF MovesAlone
<1>3. InTransaction(d) => tx[d].action \in Action
  BY TransactionType DEF LockInvariant, Transaction
<1>4. HoldsRevision(d) /\ InTransaction(d) => HoldsRevision(d)'
  BY <1>1, <1>2, <1>3, LockIsLock DEF HoldsRevision
<1>5. ASSUME Fresh(d) PROVE Fresh(d)'
  <2>1. InTransaction(d)
    BY <1>5 DEF Fresh, InTransaction
  <2>2. PICK a \in Action : a = tx[d].action
    BY <1>3, <2>1
  <2>3. state[a] = "none" /\ \A e \in Client : e # d /\ InTransaction(e) => tx[e].action # a
    BY <1>5, <2>2 DEF Fresh
  <2>4. state'[a] = "none"
    BY <2>3 DEF MovesAlone
  <2>5. InTransaction(c)' => tx'[c].action # a
    BY <2>1, <2>2, <2>3 DEF MovesAlone
  <2>6. \A e \in Client : e # d /\ InTransaction(e)' => tx'[e].action # a
    BY <2>3, <2>5 DEF MovesAlone, InTransaction
  <2> QED
    BY <1>1, <1>5, <2>2, <2>4, <2>6 DEF Fresh
<1>6. tx[d].step = "key" \/ Decided(tx[d]) => InTransaction(d)
  BY DEF Decided, InTransaction
<1> QED
  BY <1>1, <1>2, <1>4, <1>5, <1>6 DEF Guarded

(* A step of one client keeps the invariant when it keeps that client's    *)
(* part: the others hold what they held.                                   *)
LEMMA StepGuards ==
  ASSUME LockInvariant, NEW c \in Client, MovesAlone(c), LockTypeOK', Guarded(c)'
  PROVE  LockInvariant'
BY OthersStayGuarded DEF LockInvariant

-----------------------------------------------------------------------------
(* Locks and steps.                                                        *)

(* SELECT ... FOR UPDATE takes locks that are free or its own and touches  *)
(* no other.                                                               *)
LEMMA TakeEffect ==
  ASSUME LockTypeOK, NEW c \in Client, Take(c), tx[c].step # "key"
  PROVE  /\ holder' \in [Lock -> Client \cup {Nobody}]
         /\ \A l \in Lock : holder'[l] = IF l \in Wants(c) THEN c ELSE holder[l]
         /\ \A l \in Lock : holder'[l] # holder[l] =>
              holder[l] \in {Nobody, c} /\ holder'[l] \in {Nobody, c}
<1>1. /\ holder' = [l \in Lock |-> IF l \in Wants(c) THEN c ELSE holder[l]]
      /\ {holder[l] : l \in Wants(c)} \ {Nobody, c} = {}
  BY DEF Take, Blockers
<1> QED
  BY <1>1 DEF LockTypeOK

(* A commit or a rollback releases all of a client's locks and nobody      *)
(* else's.                                                                 *)
LEMMA EndEffect ==
  ASSUME LockTypeOK, NEW c \in Client, End(c)
  PROVE  /\ holder' \in [Lock -> Client \cup {Nobody}]
         /\ \A l \in Lock : holder'[l] # c
         /\ \A l \in Lock : holder'[l] # holder[l] =>
              holder[l] \in {Nobody, c} /\ holder'[l] \in {Nobody, c}
         /\ tx' \in [Client -> {Idle} \cup Transaction]
         /\ tx'[c] = Idle /\ \A d \in Client : d # c => tx'[d] = tx[d]
BY NobodyAssumption DEF LockTypeOK, End

(* A transaction that ends keeps nothing.                                  *)
LEMMA EndGuards ==
  ASSUME LockInvariant, NEW c \in Client, End(c), InTransaction(c),
         state' \in [Action -> {"none", "waiting", "confirmed", "succeeded", "ended"}],
         challenge' \in [Action -> {"none", "active", "ended"}],
         \A a \in Action : state'[a] # state[a] => a = tx[c].action
  PROVE  LockInvariant'
<1>1. LockTypeOK
  BY DEF LockInvariant
<1>2. /\ holder' \in [Lock -> Client \cup {Nobody}]
      /\ \A l \in Lock : holder'[l] # c
      /\ \A l \in Lock : holder'[l] # holder[l] =>
           holder[l] \in {Nobody, c} /\ holder'[l] \in {Nobody, c}
      /\ tx' \in [Client -> {Idle} \cup Transaction]
      /\ tx'[c] = Idle /\ \A d \in Client : d # c => tx'[d] = tx[d]
  BY <1>1, EndEffect
<1>3. LockTypeOK'
  BY <1>2 DEF LockTypeOK
<1>4. Guarded(c)'
  BY <1>2 DEF Guarded, Idle, Decided
<1>5. MovesAlone(c)
  BY <1>2 DEF MovesAlone, InTransaction, Idle
<1> QED
  BY <1>3, <1>4, <1>5, StepGuards

(* Moving on changes where the transaction is and nothing else of it.      *)
LEMMA StepEffect ==
  ASSUME LockTypeOK, NEW c \in Client, InTransaction(c), NEW s \in Steps,
         tx' = [tx EXCEPT ![c].step = s]
  PROVE  /\ tx' \in [Client -> {Idle} \cup Transaction]
         /\ tx'[c] \in Transaction /\ tx'[c].step = s
         /\ tx'[c].kind = tx[c].kind /\ tx'[c].action = tx[c].action
         /\ tx'[c].named = tx[c].named /\ tx'[c].late = tx[c].late
         /\ \A d \in Client : d # c => tx'[d] = tx[d]
<1>1. tx[c] \in Transaction
  BY TransactionType
<1> QED
  BY <1>1 DEF LockTypeOK, Transaction

(* A transaction that goes on with the action it is about.                 *)
LEMMA WithinTransaction ==
  ASSUME LockInvariant, NEW c \in Client, InTransaction(c),
         UNCHANGED <<state, challenge>>,
         tx' \in [Client -> {Idle} \cup Transaction],
         tx'[c].action = tx[c].action, \A d \in Client : d # c => tx'[d] = tx[d],
         holder' \in [Lock -> Client \cup {Nobody}],
         \A l \in Lock : holder'[l] # holder[l] =>
           holder[l] \in {Nobody, c} /\ holder'[l] \in {Nobody, c},
         Guarded(c)'
  PROVE  LockInvariant'
<1>1. LockTypeOK'
  BY DEF LockInvariant, LockTypeOK
<1>2. MovesAlone(c)
  BY DEF MovesAlone
<1> QED
  BY <1>1, <1>2, StepGuards

(* Whether the action has lapsed is read once, with the revision locked.   *)
LEMMA DecideEffect ==
  ASSUME LockTypeOK, NEW c \in Client, InTransaction(c), NEW late \in BOOLEAN, Decide(c, late)
  PROVE  /\ tx' \in [Client -> {Idle} \cup Transaction]
         /\ tx'[c] \in Transaction
         /\ tx'[c].kind = tx[c].kind /\ tx'[c].action = tx[c].action
         /\ tx'[c].late = late
         /\ \/ tx'[c].step = "own" /\ (late \/ tx[c].kind # "confirm")
            \/ tx'[c].step = "named" /\ tx[c].kind = "confirm"
            \/ tx'[c].step = "commit"
         /\ \A d \in Client : d # c => tx'[d] = tx[d]
<1> DEFINE own == /\ late \/ tx[c].kind \in {"issue", "cancel", "revise"}
                  /\ state[tx[c].action] = "waiting" /\ challenge[tx[c].action] = "active"
           place == IF own THEN "own" ELSE AfterOwn(tx[c].kind)
<1>1. tx[c] \in Transaction
  BY TransactionType
<1>2. \/ place = "own" /\ (late \/ tx[c].kind # "confirm")
      \/ place = "named" /\ tx[c].kind = "confirm"
      \/ place = "commit"
  BY DEF AfterOwn
<1>3. PICK mid : mid = [tx EXCEPT ![c].late = late]
  OBVIOUS
<1>4. tx' = [mid EXCEPT ![c].step = place]
  BY <1>3 DEF Decide
<1>5. place \in Steps
  BY <1>2 DEF Steps
<1> HIDE DEF place
<1>6. /\ mid \in [Client -> {Idle} \cup Transaction]
      /\ mid[c] \in Transaction /\ mid[c].kind = tx[c].kind /\ mid[c].action = tx[c].action
      /\ mid[c].late = late
      /\ \A d \in Client : d # c => mid[d] = tx[d]
  BY <1>1, <1>3 DEF LockTypeOK, Transaction
<1>7. /\ tx' \in [Client -> {Idle} \cup Transaction]
      /\ tx'[c] \in Transaction /\ tx'[c].kind = tx[c].kind /\ tx'[c].action = tx[c].action
      /\ tx'[c].late = late /\ tx'[c].step = place
      /\ \A d \in Client : d # c => tx'[d] = tx[d]
  BY <1>4, <1>5, <1>6 DEF Transaction
<1> QED
  BY <1>2, <1>7

(* A new transaction starts at its first step with nothing locked.         *)
LEMMA BeginEffect ==
  ASSUME LockTypeOK, NEW c \in Client, NEW kind \in Handlers \cup {"prepare", "worker"},
         NEW a \in Action, NEW n \in Action, NEW place \in Steps, Begin(c, kind, a, n, place)
  PROVE  /\ ~InTransaction(c) /\ UNCHANGED <<state, challenge>>
         /\ tx' \in [Client -> {Idle} \cup Transaction]
         /\ tx'[c].kind = kind /\ tx'[c].step = place /\ tx'[c].action = a
         /\ \A d \in Client : d # c => tx'[d] = tx[d]
<1> DEFINE t == [kind |-> kind, step |-> place, action |-> a, named |-> n, late |-> FALSE]
<1>1. t \in Transaction /\ t.kind = kind /\ t.step = place /\ t.action = a
  BY DEF Transaction
<1>2. ~InTransaction(c) /\ UNCHANGED <<state, challenge>> /\ tx' = [tx EXCEPT ![c] = t]
  BY DEF Begin
<1> HIDE DEF t
<1> QED
  BY <1>1, <1>2 DEF LockTypeOK

(* A client that is in no transaction holds nothing.                       *)
LEMMA IdleHoldsNothing ==
  ASSUME LockInvariant, NEW c \in Client, tx[c].step \in {"idle", "workflow", "key", "occupant"}
  PROVE  \A l \in Lock : holder[l] # c
BY DEF LockInvariant, Guarded, MayHold

-----------------------------------------------------------------------------
(* The steps of a handler.                                                 *)

LEMMA StartHandlerGuards ==
  ASSUME LockInvariant, NEW c \in Client, NEW kind \in Handlers, NEW a \in Action, NEW n \in Action,
         StartHandler(c, kind, a, n)
  PROVE  LockInvariant'
<1>1. LockTypeOK /\ Begin(c, kind, a, n, "workflow") /\ state[a] # "none" /\ holder' = holder
  BY DEF LockInvariant, StartHandler
<1>2. /\ ~InTransaction(c) /\ UNCHANGED <<state, challenge>>
      /\ tx' \in [Client -> {Idle} \cup Transaction]
      /\ tx'[c].step = "workflow" /\ tx'[c].action = a
      /\ \A d \in Client : d # c => tx'[d] = tx[d]
  <2>1. "workflow" \in Steps
    BY DEF Steps
  <2> QED
    BY <1>1, <2>1, BeginEffect
<1>3. \A l \in Lock : holder[l] # c
  BY <1>2, IdleHoldsNothing DEF InTransaction
<1>4. LockTypeOK'
  BY <1>1, <1>2 DEF LockTypeOK
<1>5. Guarded(c)'
  BY <1>1, <1>2, <1>3 DEF Guarded, Decided
<1>6. MovesAlone(c)
  BY <1>1, <1>2 DEF MovesAlone
<1> QED
  BY <1>4, <1>5, <1>6, StepGuards

LEMMA StartPrepareGuards ==
  ASSUME LockInvariant, NEW c \in Client, NEW a \in Action, StartPrepare(c, a)
  PROVE  LockInvariant'
<1>1. /\ LockTypeOK /\ Begin(c, "prepare", a, a, "key")
      /\ state[a] = "none" /\ holder' = holder
      /\ \A d \in Client : InTransaction(d) => tx[d].action # a
  BY DEF LockInvariant, StartPrepare
<1>2. /\ ~InTransaction(c) /\ UNCHANGED <<state, challenge>>
      /\ tx' \in [Client -> {Idle} \cup Transaction]
      /\ tx'[c].kind = "prepare" /\ tx'[c].step = "key" /\ tx'[c].action = a
      /\ \A d \in Client : d # c => tx'[d] = tx[d]
  <2>1. "key" \in Steps
    BY DEF Steps
  <2> QED
    BY <1>1, <2>1, BeginEffect
<1>3. \A l \in Lock : holder[l] # c
  BY <1>2, IdleHoldsNothing DEF InTransaction
<1>4. LockTypeOK'
  BY <1>1, <1>2 DEF LockTypeOK
<1>5. Fresh(c)'
  BY <1>1, <1>2 DEF Fresh, InTransaction
<1>6. Guarded(c)'
  BY <1>1, <1>2, <1>3, <1>5 DEF Guarded, Decided
<1>7. MovesAlone(c)
  BY <1>1, <1>2 DEF MovesAlone
<1> QED
  BY <1>4, <1>6, <1>7, StepGuards

LEMMA ClaimGuards ==
  ASSUME LockInvariant, NEW c \in Client, NEW a \in Action, Claim(c, a)
  PROVE  LockInvariant'
<1>1. PICK place \in {"employee", "commit"} : Begin(c, "worker", a, a, place)
  BY DEF Claim
<1>2. /\ LockTypeOK /\ state[a] = "confirmed"
      /\ holder[<<"workflow", a>>] = Nobody /\ holder[<<"revision", a>>] = Nobody
      /\ holder' = [holder EXCEPT ![<<"workflow", a>>] = c, ![<<"revision", a>>] = c]
  BY DEF LockInvariant, Claim
<1>3. /\ ~InTransaction(c) /\ UNCHANGED <<state, challenge>>
      /\ tx' \in [Client -> {Idle} \cup Transaction]
      /\ tx'[c].kind = "worker" /\ tx'[c].step = place /\ tx'[c].action = a
      /\ \A d \in Client : d # c => tx'[d] = tx[d]
  <2>1. place \in Steps
    BY DEF Steps
  <2> QED
    BY <1>1, <1>2, <2>1, BeginEffect
<1>4. \A l \in Lock : holder[l] # c
  BY <1>3, IdleHoldsNothing DEF InTransaction
<1>5. /\ holder' \in [Lock -> Client \cup {Nobody}]
      /\ holder'[<<"revision", a>>] = c
      /\ \A l \in Lock : l \notin {<<"workflow", a>>, <<"revision", a>>} =>
                            holder'[l] = holder[l]
      /\ \A l \in {<<"workflow", a>>, <<"revision", a>>} :
           holder[l] = Nobody /\ holder'[l] = c
  BY <1>2, LockIsLock DEF LockTypeOK
<1>6. LockTypeOK'
  BY <1>2, <1>3, <1>5 DEF LockTypeOK
<1>7. Guarded(c)'
  BY <1>3, <1>4, <1>5 DEF Guarded, Decided, MayHold, HoldsRevision
<1>8. MovesAlone(c)
  BY <1>2, <1>3, <1>5 DEF MovesAlone
<1> QED
  BY <1>6, <1>7, <1>8, StepGuards

LEMMA LockWorkflowGuards ==
  ASSUME LockInvariant, NEW c \in Client, LockWorkflow(c)
  PROVE  LockInvariant'
<1>1. /\ LockTypeOK /\ InTransaction(c) /\ tx[c].step = "workflow" /\ Take(c)
      /\ tx' = [tx EXCEPT ![c].step = "revision"] /\ UNCHANGED <<state, challenge>>
  BY DEF LockInvariant, LockWorkflow, InTransaction
<1>2. /\ tx' \in [Client -> {Idle} \cup Transaction]
      /\ tx'[c].step = "revision" /\ tx'[c].action = tx[c].action
      /\ \A d \in Client : d # c => tx'[d] = tx[d]
  <2>1. "revision" \in Steps
    BY DEF Steps
  <2> QED
    BY <1>1, <2>1, StepEffect
<1>3. \A l \in Lock : holder[l] # c
  BY <1>1, IdleHoldsNothing
<1>4. /\ holder' \in [Lock -> Client \cup {Nobody}]
      /\ \A l \in Lock : holder'[l] = IF l = <<"workflow", tx[c].action>> THEN c ELSE holder[l]
      /\ \A l \in Lock : holder'[l] # holder[l] =>
           holder[l] \in {Nobody, c} /\ holder'[l] \in {Nobody, c}
  <2>1. Wants(c) = {<<"workflow", tx[c].action>>}
    BY <1>1 DEF Wants
  <2> QED
    BY <1>1, <2>1, TakeEffect
<1>5. Guarded(c)'
  BY <1>2, <1>3, <1>4 DEF Guarded, Decided, MayHold
<1> QED
  BY <1>1, <1>2, <1>4, <1>5, WithinTransaction

LEMMA LockRevisionGuards ==
  ASSUME LockInvariant, NEW c \in Client, LockRevision(c)
  PROVE  LockInvariant'
<1> DEFINE late == Late(tx[c].action) /\ tx[c].kind # "observe"
<1>1. /\ LockTypeOK /\ InTransaction(c) /\ tx[c].step = "revision" /\ Take(c)
      /\ Decide(c, late) /\ UNCHANGED <<state, challenge>>
  BY DEF LockInvariant, LockRevision, InTransaction
<1>2. late \in BOOLEAN
  BY DEF Late
<1> HIDE DEF late
<1>3. /\ tx' \in [Client -> {Idle} \cup Transaction]
      /\ tx'[c].kind = tx[c].kind /\ tx'[c].action = tx[c].action /\ tx'[c].late = late
      /\ \/ tx'[c].step = "own" /\ (late \/ tx[c].kind # "confirm")
         \/ tx'[c].step = "named" /\ tx[c].kind = "confirm"
         \/ tx'[c].step = "commit"
      /\ \A d \in Client : d # c => tx'[d] = tx[d]
  BY <1>1, <1>2, DecideEffect
<1>4. PICK a \in Action : a = tx[c].action
  BY <1>1, TransactionType DEF Transaction
<1>5. \A l \in Lock : holder[l] = c => l = <<"workflow", a>>
  BY <1>1, <1>4 DEF LockInvariant, Guarded, MayHold
<1>6. /\ holder' \in [Lock -> Client \cup {Nobody}]
      /\ \A l \in Lock : holder'[l] = IF l = <<"revision", a>> THEN c ELSE holder[l]
      /\ \A l \in Lock : holder'[l] # holder[l] =>
           holder[l] \in {Nobody, c} /\ holder'[l] \in {Nobody, c}
  <2>1. Wants(c) = {<<"revision", a>>}
    BY <1>1, <1>4 DEF Wants
  <2> QED
    BY <1>1, <2>1, TakeEffect
<1>7. holder'[<<"revision", a>>] = c
  BY <1>6, LockIsLock
<1>8. Guarded(c)'
  <2>1. \A l \in Lock : holder'[l] = c => l \in MayHold(tx'[c])
    BY <1>3, <1>4, <1>5, <1>6 DEF MayHold
  <2> QED
    BY <1>3, <1>4, <1>7, <2>1 DEF Guarded, HoldsRevision
<1> QED
  BY <1>1, <1>3, <1>6, <1>8, WithinTransaction

(* The next lock of a transaction that has decided.                        *)
LEMMA NextLockGuards ==
  ASSUME LockInvariant, NEW c \in Client, tx[c].step \in {"own", "named", "employee"}, Take(c),
         NEW s \in {"named", "commit"}, s = "named" => tx[c].step = "own" /\ tx[c].kind = "confirm",
         tx' = [tx EXCEPT ![c].step = s], UNCHANGED <<state, challenge>>
  PROVE  LockInvariant'
<1>1. LockTypeOK /\ InTransaction(c) /\ Guarded(c)
  BY DEF LockInvariant, InTransaction
<1>2. /\ tx' \in [Client -> {Idle} \cup Transaction]
      /\ tx'[c].step = s /\ tx'[c].kind = tx[c].kind
      /\ tx'[c].action = tx[c].action /\ tx'[c].late = tx[c].late
      /\ \A d \in Client : d # c => tx'[d] = tx[d]
  <2>1. s \in Steps
    BY DEF Steps
  <2> QED
    BY <1>1, <2>1, StepEffect
<1>3. PICK a \in Action : a = tx[c].action
  BY <1>1, TransactionType DEF Transaction
<1>4. HoldsRevision(c)
  BY <1>1 DEF Guarded, Fresh, Decided
<1>5. /\ holder' \in [Lock -> Client \cup {Nobody}]
      /\ \A l \in Lock : holder'[l] = IF l \in Wants(c) THEN c ELSE holder[l]
      /\ \A l \in Lock : holder'[l] # holder[l] =>
           holder[l] \in {Nobody, c} /\ holder'[l] \in {Nobody, c}
  BY <1>1, TakeEffect
<1>6. holder'[<<"revision", a>>] = c
  BY <1>3, <1>4, <1>5, LockIsLock DEF HoldsRevision
<1>7. ASSUME NEW l \in Lock, holder'[l] = c PROVE l \in MayHold(tx'[c])
  <2>1. CASE s = "commit"
    BY <1>2, <2>1 DEF MayHold
  <2>2. CASE s = "named"
    <3>1. tx[c].step = "own" /\ tx[c].late
      BY <1>1, <2>2 DEF Guarded
    <3>2. Wants(c) = {<<"challenge", a>>}
      BY <1>3, <3>1 DEF Wants
    <3>3. MayHold(tx[c]) = {<<"workflow", a>>, <<"revision", a>>}
      BY <1>3, <3>1 DEF MayHold
    <3>4. MayHold(tx'[c]) =
            {<<"workflow", a>>, <<"revision", a>>} \cup {<<"challenge", a>>}
      BY <1>2, <1>3, <2>2, <3>1 DEF MayHold
    <3> QED
      BY <1>1, <1>5, <1>7, <3>2, <3>3, <3>4 DEF Guarded
  <2> QED
    BY <2>1, <2>2
<1>8. Guarded(c)'
  BY <1>2, <1>3, <1>6, <1>7 DEF Guarded, HoldsRevision
<1> QED
  BY <1>1, <1>2, <1>5, <1>8, WithinTransaction

LEMMA OwnNamedEmployeeGuards ==
  ASSUME LockInvariant, NEW c \in Client,
         LockOwnChallenge(c) \/ LockNamedChallenge(c) \/ LockEmployee(c)
  PROVE  LockInvariant'
<1>1. CASE LockOwnChallenge(c)
  <2>1. PICK s \in {"named", "commit"} : s = AfterOwn(tx[c].kind)
    BY DEF AfterOwn
  <2> QED
    BY <1>1, <2>1, NextLockGuards DEF LockOwnChallenge, AfterOwn
<1>2. CASE LockNamedChallenge(c)
  BY <1>2, NextLockGuards DEF LockNamedChallenge
<1>3. CASE LockEmployee(c)
  BY <1>3, NextLockGuards DEF LockEmployee
<1> QED
  BY <1>1, <1>2, <1>3

LEMMA InsertGuards ==
  ASSUME LockInvariant, NEW c \in Client, InsertRevision(c)
  PROVE  LockInvariant'
<1> DEFINE occupants == {b \in Action : Occupies(b) /\ KeyOf[b] = KeyOf[tx[c].action]}
<1>1. /\ LockTypeOK /\ InTransaction(c) /\ Guarded(c) /\ tx[c].step = "key"
      /\ UNCHANGED <<state, challenge, holder>>
  BY DEF LockInvariant, InsertRevision, InTransaction
<1>2. \A l \in Lock : holder[l] # c
  BY <1>1, IdleHoldsNothing
<1>3. Fresh(c) /\ holder' \in [Lock -> Client \cup {Nobody}]
  BY <1>1 DEF Guarded, LockTypeOK
<1>4. CASE tx' = [tx EXCEPT ![c].step = "commit"]
  <2>1. /\ tx' \in [Client -> {Idle} \cup Transaction]
        /\ tx'[c].step = "commit" /\ tx'[c].kind = tx[c].kind /\ tx'[c].action = tx[c].action
        /\ \A d \in Client : d # c => tx'[d] = tx[d]
    <3>1. "commit" \in Steps
      BY DEF Steps
    <3> QED
      BY <1>1, <1>4, <3>1, StepEffect
  <2>2. Fresh(c)'
    BY <1>1, <1>3, <2>1 DEF Fresh, InTransaction
  <2>3. Guarded(c)'
    BY <1>1, <1>2, <2>1, <2>2 DEF Guarded
  <2> QED
    BY <1>1, <1>3, <2>1, <2>3, WithinTransaction
<1>5. ASSUME NEW b \in occupants,
             tx' = [tx EXCEPT ![c].step = "occupant", ![c].action = b, ![c].named = b]
      PROVE  LockInvariant'
  <2>1. b \in Action /\ state[b] # "none"
    BY <1>5 DEF Occupies
  <2>2. tx[c] \in Transaction
    BY <1>1, TransactionType
  <2>3. PICK x : x = [tx EXCEPT ![c].step = "occupant"]
    OBVIOUS
  <2>4. PICK y : y = [x EXCEPT ![c].action = b]
    OBVIOUS
  <2>5. tx' = [y EXCEPT ![c].named = b]
    BY <1>5, <2>3, <2>4
  <2>6. /\ x \in [Client -> {Idle} \cup Transaction]
        /\ x[c] \in Transaction /\ x[c].step = "occupant"
        /\ \A d \in Client : d # c => x[d] = tx[d]
    BY <1>1, <2>2, <2>3 DEF LockTypeOK, Transaction, Steps
  <2>7. /\ y \in [Client -> {Idle} \cup Transaction]
        /\ y[c] \in Transaction /\ y[c].step = "occupant" /\ y[c].action = b
        /\ \A d \in Client : d # c => y[d] = tx[d]
    BY <2>1, <2>4, <2>6 DEF Transaction
  <2>8. /\ tx' \in [Client -> {Idle} \cup Transaction]
        /\ tx'[c].step = "occupant" /\ tx'[c].action = b
        /\ \A d \in Client : d # c => tx'[d] = tx[d]
    BY <2>1, <2>5, <2>7 DEF Transaction
  <2>9. LockTypeOK'
    BY <1>1, <1>3, <2>8 DEF LockTypeOK
  <2>10. Guarded(c)'
    BY <1>1, <1>2, <2>8 DEF Guarded, Decided
  <2>11. MovesAlone(c)
    BY <1>1, <2>1, <2>8 DEF MovesAlone
  <2> QED
    BY <2>9, <2>10, <2>11, StepGuards
<1> QED
  BY <1>4, <1>5 DEF InsertRevision

LEMMA LockOccupantGuards ==
  ASSUME LockInvariant, NEW c \in Client, LockOccupant(c)
  PROVE  LockInvariant'
<1>1. /\ LockTypeOK /\ InTransaction(c) /\ tx[c].step = "occupant"
      /\ UNCHANGED <<state, challenge>>
  BY DEF LockInvariant, LockOccupant, InTransaction
<1>2. CASE End(c)
  BY <1>1, <1>2, EndGuards DEF LockTypeOK
<1>3. CASE Take(c) /\ Decide(c, Late(tx[c].action))
  <2> DEFINE late == Late(tx[c].action)
  <2>1. late \in BOOLEAN
    BY DEF Late
  <2>2. Decide(c, late)
    BY <1>3
  <2> HIDE DEF late
  <2>3. /\ tx' \in [Client -> {Idle} \cup Transaction]
        /\ tx'[c].kind = tx[c].kind /\ tx'[c].action = tx[c].action /\ tx'[c].late = late
        /\ \/ tx'[c].step = "own" /\ (late \/ tx[c].kind # "confirm")
           \/ tx'[c].step = "named" /\ tx[c].kind = "confirm"
           \/ tx'[c].step = "commit"
        /\ \A d \in Client : d # c => tx'[d] = tx[d]
    BY <1>1, <2>1, <2>2, DecideEffect
  <2>4. PICK a \in Action : a = tx[c].action
    BY <1>1, TransactionType DEF Transaction
  <2>5. \A l \in Lock : holder[l] # c
    BY <1>1, IdleHoldsNothing
  <2>6. /\ holder' \in [Lock -> Client \cup {Nobody}]
        /\ \A l \in Lock : holder'[l] = IF l = <<"revision", a>> THEN c ELSE holder[l]
        /\ \A l \in Lock : holder'[l] # holder[l] =>
             holder[l] \in {Nobody, c} /\ holder'[l] \in {Nobody, c}
    <3>1. Wants(c) = {<<"revision", a>>}
      BY <1>1, <2>4 DEF Wants
    <3> QED
      BY <1>1, <1>3, <3>1, TakeEffect
  <2>7. holder'[<<"revision", a>>] = c
    BY <2>6, LockIsLock
  <2>8. \A l \in Lock : holder'[l] = c => l \in MayHold(tx'[c])
    BY <2>3, <2>4, <2>5, <2>6 DEF MayHold
  <2>9. Guarded(c)'
    BY <2>3, <2>4, <2>7, <2>8 DEF Guarded, HoldsRevision
  <2> QED
    BY <1>1, <2>3, <2>6, <2>9, WithinTransaction
<1> QED
  BY <1>2, <1>3 DEF LockOccupant

(* What a commit changes is its own action and that action's challenge.    *)
LEMMA CommitEffect ==
  ASSUME LockTypeOK, NEW c \in Client, Commit(c)
  PROVE  /\ InTransaction(c) /\ tx[c].step = "commit" /\ End(c)
         /\ state' \in [Action -> {"none", "waiting", "confirmed", "succeeded", "ended"}]
         /\ challenge' \in [Action -> {"none", "active", "ended"}]
         /\ \A a \in Action : a # tx[c].action =>
              state'[a] = state[a] /\ challenge'[a] = challenge[a]
<1> DEFINE t == tx[c]
           States == {"none", "waiting", "confirmed", "succeeded", "ended"}
           ChallengeAfter(s, b) ==
             IF t.kind = "issue" /\ Waiting(t) /\ b = t.action THEN "active"
             ELSE IF b \in Ends(t, s) /\ challenge[b] = "active" THEN "ended"
             ELSE challenge[b]
<1>1. InTransaction(c) /\ t.step = "commit" /\ End(c)
  BY DEF Commit, InTransaction
<1>2. t \in Transaction
  BY <1>1, TransactionType
<1>3. PICK s \in Outcomes(t) : /\ state' = [state EXCEPT ![t.action] = s]
                              /\ challenge' = [b \in Action |-> ChallengeAfter(s, b)]
  BY DEF Commit
<1>4. s \in States
  BY <1>2, <1>3 DEF Outcomes, LockTypeOK, Transaction
<1>5. \A b \in Ends(t, s) : b = t.action
  BY DEF Ends, Accepts
<1>6. \A b \in Action : /\ ChallengeAfter(s, b) \in {"none", "active", "ended"}
                        /\ b # t.action => ChallengeAfter(s, b) = challenge[b]
  BY <1>5 DEF LockTypeOK
<1>7. /\ state' \in [Action -> States]
      /\ \A a \in Action : a # t.action => state'[a] = state[a]
  BY <1>2, <1>3, <1>4 DEF LockTypeOK
<1>8. /\ challenge' \in [Action -> {"none", "active", "ended"}]
      /\ \A a \in Action : a # t.action => challenge'[a] = challenge[a]
  <2>1. PICK after : after = [b \in Action |-> ChallengeAfter(s, b)]
    OBVIOUS
  <2>2. \A b \in Action : after[b] = ChallengeAfter(s, b)
    BY <2>1
  <2>3. after = [b \in Action |-> after[b]] /\ challenge' = after
    BY <1>3, <2>1
  <2> HIDE DEF ChallengeAfter
  <2> QED
    BY <1>6, <2>2, <2>3
<1> QED
  BY <1>1, <1>7, <1>8

(* Who waits is in a transaction.                                          *)
LEMMA WaiterIsInTransaction ==
  ASSUME NEW c \in Client, Blockers(c) # {}
  PROVE  tx[c].step \in {"workflow", "revision", "key", "occupant", "own", "named", "employee"}
BY DEF Blockers, Wants

LEMMA AdvanceGuards ==
  ASSUME LockInvariant, NEW c \in Client, Advance(c)
  PROVE  LockInvariant'
<1>1. LockTypeOK
  BY DEF LockInvariant
<1>2. ASSUME Commit(c) PROVE LockInvariant'
  BY <1>1, <1>2, CommitEffect, EndGuards
<1>3. ASSUME Rollback(c), Blockers(c) # {} PROVE LockInvariant'
  <2>1. InTransaction(c)
    BY <1>3, WaiterIsInTransaction DEF InTransaction
  <2> QED
    BY <1>1, <1>3, <2>1, EndGuards DEF Rollback, LockTypeOK
<1>4. ASSUME DetectDeadlock(c) PROVE Rollback(c) /\ Blockers(c) # {}
  BY <1>4 DEF DetectDeadlock, Cycle
<1>5. ASSUME LockTimeout(c) PROVE Rollback(c) /\ Blockers(c) # {}
  BY <1>5 DEF LockTimeout
<1> QED
  BY <1>2, <1>3, <1>4, <1>5, LockWorkflowGuards, LockRevisionGuards, OwnNamedEmployeeGuards,
     InsertGuards, LockOccupantGuards DEF Advance

LEMMA LocksInductive == LockInvariant /\ [Next]_vars => LockInvariant'
<1> SUFFICES ASSUME LockInvariant, [Next]_vars PROVE LockInvariant'
  OBVIOUS
<1>1. ASSUME UNCHANGED <<state, challenge, holder, tx>> PROVE LockInvariant'
  BY <1>1 DEF LockInvariant, LockTypeOK, Guarded, HoldsRevision, Fresh, InTransaction
<1>2. ASSUME NEW a \in Action, Lapse(a) PROVE LockInvariant'
  BY <1>1, <1>2 DEF Lapse
<1>3. ASSUME NEW c \in Client, NEW a \in Action, NEW n \in Action, NEW kind \in Offered,
             StartHandler(c, kind, a, n)
      PROVE  LockInvariant'
  BY <1>3, StartHandlerGuards, OfferedAssumption
<1> QED
  BY <1>1, <1>2, <1>3, AdvanceGuards, StartPrepareGuards, ClaimGuards DEF Next, vars

LEMMA LocksInit == Init => LockInvariant
<1> SUFFICES ASSUME Init PROVE LockInvariant
  OBVIOUS
<1>1. LockTypeOK
  BY DEF Init, LockTypeOK
<1>2. ASSUME NEW c \in Client PROVE Guarded(c)
  BY NobodyAssumption DEF Init, Guarded, Idle, Decided
<1> QED
  BY <1>1, <1>2 DEF LockInvariant

-----------------------------------------------------------------------------
(* The promises.                                                           *)

(* What each transaction holds and guards, for any number of clients.      *)
THEOREM LocksHold == Spec => []LockInvariant
BY LocksInit, LocksInductive, PTL DEF Spec

(* From the lock of the revision to the commit nobody else changes the     *)
(* action or its challenge, because whoever could commit a change of it    *)
(* holds the same revision, or is the PREPARE call that creates it.  This  *)
(* is what lets ActionSystem take a handler for one step.                  *)
THEOREM HandlersAreUndisturbed == Spec => HandlersAreAtomic
<1>1. ASSUME LockInvariant, [Next]_vars, NEW c \in Client, Decided(tx[c]), Decided(tx'[c])
      PROVE  /\ state'[tx[c].action] = state[tx[c].action]
             /\ challenge'[tx[c].action] = challenge[tx[c].action]
  <2>1. PICK a \in Action : a = tx[c].action
    BY <1>1, TransactionType DEF Decided, InTransaction, LockInvariant, Transaction
  <2>2. CASE UNCHANGED <<state, challenge>>
    BY <2>2
  <2>3. ASSUME NEW d \in Client, Commit(d)
        PROVE  state'[a] = state[a] /\ challenge'[a] = challenge[a]
    <3>1. /\ InTransaction(d) /\ tx[d].step = "commit" /\ End(d)
          /\ \A b \in Action : b # tx[d].action =>
               state'[b] = state[b] /\ challenge'[b] = challenge[b]
      BY <1>1, <2>3, CommitEffect DEF LockInvariant
    <3>2. d # c
      <4>1. tx'[d] = Idle
        BY <1>1, <3>1, EndEffect DEF LockInvariant
      <4> QED
        BY <1>1, <4>1 DEF Decided, Idle
    <3>3. tx[d].action # a
      <4>1. HoldsRevision(c) \/ Fresh(c)
        BY <1>1 DEF LockInvariant, Guarded
      <4>2. HoldsRevision(d) \/ Fresh(d)
        BY <1>1, <3>1 DEF LockInvariant, Guarded, Decided
      <4>3. InTransaction(c)
        BY <1>1 DEF Decided, InTransaction
      <4> QED
        BY <2>1, <3>1, <3>2, <4>1, <4>2, <4>3 DEF HoldsRevision, Fresh
    <3> QED
      BY <3>1, <3>3
  <2>4. ASSUME NEW d \in Client, Advance(d), ~Commit(d) PROVE UNCHANGED <<state, challenge>>
    BY <2>4 DEF Advance, LockWorkflow, LockRevision, LockOwnChallenge, LockNamedChallenge,
                InsertRevision, LockOccupant, LockEmployee, LockTimeout, DetectDeadlock, Rollback
  <2>5. \/ UNCHANGED <<state, challenge>>
        \/ \E d \in Client : Advance(d)
    BY <1>1 DEF Next, vars, StartHandler, StartPrepare, Claim, Lapse, Begin
  <2> QED
    BY <2>1, <2>2, <2>3, <2>4, <2>5
<1>2. LockInvariant /\ [Next]_vars =>
        [\A c \in Client :
           LET Done(t) == t.step \in {"own", "named", "employee", "commit"}
               a == tx[c].action
           IN  Done(tx[c]) /\ Done(tx'[c]) =>
                 state'[a] = state[a] /\ challenge'[a] = challenge[a]]_vars
  BY <1>1 DEF Decided
<1> QED
  BY <1>2, LocksHold, PTL DEF Spec, HandlersAreAtomic

(* In a cycle everyone waits for somebody and somebody waits for everyone. *)
LEMMA CycleDegrees ==
  ASSUME NEW S \in SUBSET Client, Cycle(S), NEW c \in S
  PROVE  /\ \E d \in S : d \in Blockers(c)
         /\ \E d \in S : c \in Blockers(d)
<1> DEFINE Closed(T) == T # {} /\ \A d \in T : Blockers(d) \cap T # {}
<1>1. Closed(S) /\ \A T \in SUBSET S : Closed(T) => T = S
  BY DEF Cycle
<1>2. PICK b \in S : b \in Blockers(c)
  BY <1>1
<1>3. b # c
  BY <1>2 DEF Blockers
<1>4. ASSUME \A d \in S : c \notin Blockers(d) PROVE FALSE
  <2> DEFINE T == S \ {c}
  <2>1. T # {} /\ T \in SUBSET S /\ T # S
    BY <1>3
  <2>2. \A d \in T : Blockers(d) \cap T # {}
    BY <1>1, <1>4
  <2> QED
    BY <1>1, <2>1, <2>2
<1> QED
  BY <1>2, <1>4

(* Who is waited for waits at a later lock than the workflow and the key.  *)
LEMMA BlockerHolds ==
  ASSUME LockInvariant, NEW c \in Client, NEW d \in Client, d \in Blockers(c),
         tx[d].step \notin {"named", "commit"}
  PROVE  \E l \in Lock : l \in Wants(c) /\ l \in MayHold(tx[d])
<1>1. Blockers(c) # {}
  OBVIOUS
<1>2. InTransaction(c) /\ tx[c] \in Transaction
  BY <1>1, WaiterIsInTransaction, TransactionType DEF InTransaction, LockInvariant
<1>3. tx[c].step # "key"
  BY DEF Blockers, KeyInDoubt
<1>4. PICK l \in Wants(c) : holder[l] = d
  BY <1>3 DEF Blockers
<1>5. l \in Lock
  BY <1>2, <1>4, LockIsLock DEF Wants, Transaction
<1> QED
  BY <1>4, <1>5 DEF LockInvariant, Guarded

(* Who can wait on a cycle: only a late confirmation that names another    *)
(* action's challenge, because every other handler locks in the order      *)
(* workflow, revision, challenge of one action.                            *)
LEMMA CycleOfConfirmations ==
  ASSUME LockInvariant, NEW S \in SUBSET Client, Cycle(S), NEW c \in S
  PROVE  tx[c].kind = "confirm" /\ tx[c].late /\ tx[c].named # tx[c].action
<1>1. \A d \in S : /\ d \in Client
                   /\ tx[d].step \in
                        {"workflow", "revision", "key", "occupant", "own", "named", "employee"}
                   /\ \E e \in S : d \in Blockers(e)
                   /\ \E e \in S : e \in Blockers(d)
  BY CycleDegrees, WaiterIsInTransaction
<1>2. \A d \in S : tx[d] \in Transaction
  BY <1>1, TransactionType DEF InTransaction, LockInvariant
<1>3. \A d \in S : tx[d].step \notin {"workflow", "key", "occupant"}
  BY <1>1, BlockerHolds DEF MayHold
<1>4. ASSUME NEW d \in S, tx[d].step = "revision" PROVE FALSE
  <2>1. PICK e \in S : d \in Blockers(e)
    BY <1>1
  <2>2. PICK l \in Lock : l \in Wants(e) /\ l \in MayHold(tx[d])
    BY <1>1, <1>4, <2>1, BlockerHolds
  <2>3. l = <<"workflow", tx[d].action>>
    BY <1>4, <2>2 DEF MayHold
  <2>4. tx[e].step = "workflow"
    BY <2>2, <2>3 DEF Wants
  <2> QED
    BY <1>3, <2>4
<1>5. ASSUME NEW d \in S, tx[d].step = "employee" PROVE FALSE
  <2>1. PICK e \in S : e \in Blockers(d)
    BY <1>1
  <2>2. Wants(d) = {<<"employee">>}
    BY <1>5 DEF Wants
  <2>3. holder[<<"employee">>] = e /\ <<"employee">> \in Lock
    BY <1>5, <2>1, <2>2 DEF Blockers, Lock
  <2>4. <<"employee">> \in MayHold(tx[e])
    BY <1>1, <2>3 DEF LockInvariant, Guarded
  <2> QED
    BY <1>1, <1>3, <1>4, <2>4 DEF MayHold
<1>6. ASSUME NEW d \in S, tx[d].step = "own" PROVE FALSE
  <2>1. PICK e \in S : e \in Blockers(d)
    BY <1>1
  <2>2. PICK a \in Action : a = tx[d].action
    BY <1>2, <1>6 DEF Transaction
  <2>3. Wants(d) = {<<"challenge", a>>}
    BY <1>6, <2>2 DEF Wants
  <2>4. holder[<<"challenge", a>>] = e /\ <<"challenge", a>> \in Lock
    BY <1>6, <2>1, <2>3, <2>2, LockIsLock DEF Blockers
  <2>5. <<"challenge", a>> \in MayHold(tx[e])
    BY <1>1, <2>4 DEF LockInvariant, Guarded
  <2>6. tx[e].step = "named" /\ tx[e].action = a
    BY <1>1, <2>5 DEF MayHold
  <2>7. HoldsRevision(d) /\ HoldsRevision(e)
    BY <1>1, <1>6, <2>6 DEF LockInvariant, Guarded, Decided, Fresh
  <2>8. d = e
    BY <2>2, <2>6, <2>7 DEF HoldsRevision
  <2> QED
    BY <1>6, <2>6, <2>8
<1>7. \A d \in S : tx[d].step = "named"
  BY <1>1, <1>3, <1>4, <1>5, <1>6
<1>8. PICK a, n \in Action : a = tx[c].action /\ n = tx[c].named
  BY <1>2 DEF Transaction
<1>9. PICK e \in S : c \in Blockers(e)
  BY <1>1
<1>10. PICK m \in Action : m = tx[e].named
  BY <1>2 DEF Transaction
<1>11. Wants(e) = {<<"challenge", m>>}
  BY <1>7, <1>10 DEF Wants
<1>12. holder[<<"challenge", m>>] = c /\ <<"challenge", m>> \in Lock
  BY <1>7, <1>9, <1>10, <1>11, LockIsLock DEF Blockers
<1>13. <<"challenge", m>> \in MayHold(tx[c])
  BY <1>1, <1>12 DEF LockInvariant, Guarded
<1>14. tx[c].late /\ m = a
  BY <1>7, <1>8, <1>13 DEF MayHold
<1>15. n # a
  <2>1. PICK b \in S : b \in Blockers(c)
    BY <1>1
  <2>2. Wants(c) = {<<"challenge", n>>}
    BY <1>7, <1>8 DEF Wants
  <2>3. holder[<<"challenge", n>>] = b /\ b # c
    BY <1>7, <2>1, <2>2 DEF Blockers
  <2> QED
    BY <1>12, <1>14, <2>3
<1>16. tx[c].kind = "confirm"
  BY <1>1, <1>7 DEF LockInvariant, Guarded
<1> QED
  BY <1>8, <1>14, <1>15, <1>16

(* No deadlock but one: whoever waits in a circle is a confirmation of a   *)
(* lapsed action that named the challenge of another one.  Every other     *)
(* transaction asks for its locks in one order, and one that waits for the *)
(* workflow, for the unique index or for the occupant holds nothing yet.   *)
THEOREM OnlyConfirmationsDeadlock == Spec => []OnlyCrossedConfirmations
<1>1. LockInvariant => OnlyCrossedConfirmations
  BY CycleOfConfirmations DEF OnlyCrossedConfirmations
<1> QED
  BY <1>1, LocksHold, PTL
=============================================================================
