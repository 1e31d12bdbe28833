------------------------- MODULE MutationWindowProofs -------------------------
(***************************************************************************)
(* Proofs about MutationWindow: nothing outlives the revision it refers    *)
(* to, and the reset, seen by everyone else, is one step.  Both rest on    *)
(* WindowInvariant: the exclusive lock keeps requests and the worker out   *)
(* of the reset's transaction, row locks keep the readers off the rows it  *)
(* deleted, and each DELETE finds what the one before it left.             *)
(***************************************************************************)
EXTENDS MutationWindow, TLAPS

States == {"NONE", "AWAITING", "CONFIRMED", "CANCELLED", "SUCCEEDED", "EXPIRED"}
ChallengeStates == {"NONE", "ACTIVE", "CONSUMED", "SUPERSEDED"}

Call == [phase : {"pool", "lock", "active", "metered", "handling"},
         kind : Kinds, action : Actions]
ReadCall == [phase : {"pool", "open", "workflow", "revision", "expired"},
             action : Actions, superseded : BOOLEAN]

WindowTypeOK ==
  /\ maintenance \in BOOLEAN
  /\ state \in [Actions -> States]
  /\ challenge \in [Actions -> ChallengeStates]
  /\ lapsed \subseteq Actions /\ audit \subseteq Actions /\ business \subseteq Actions
  /\ request \in [Requests -> Call \cup {Idle}]
  /\ reader \in [Readers -> ReadCall \cup {Idle}]
  /\ worker \in {"idle", "window"}
  /\ reset \in ResetPhases
  /\ wiped \in [challenges : SUBSET Actions, revisions : SUBSET Actions,
                workflows : SUBSET Actions]
  /\ undo \in [business : SUBSET Actions, audit : SUBSET Actions]

(* Whoever changes business data and the reset exclude each other, and the *)
(* reset works under maintenance.                                          *)
ResetIsAlone ==
  /\ Exclusive => SharedHolders = {} /\ worker = "idle"
  /\ reset # "idle" => maintenance
  /\ ~Exclusive => wiped = NothingWiped /\ undo = NothingUndone

(* A row a reader has locked is not deleted, and has one such reader.      *)
ReadersHoldRows ==
  \A g \in Readers :
    LET a == reader[g].action
    IN  /\ reader[g].phase \in {"workflow", "revision", "expired"} =>
             /\ a \in Stored
             /\ a \notin wiped.workflows
             /\ \A h \in HoldsWorkflow(a) : h = g
        /\ reader[g].phase \in {"revision", "expired"} => a \notin wiped.revisions
        /\ reader[g].phase = "expired" =>
             /\ state[a] = "AWAITING"
             /\ reader[g].superseded =>
                  challenge[a] # "NONE" /\ a \notin wiped.challenges

(* What each statement of the reset's transaction leaves to the next.      *)
StatementsInOrder ==
  /\ reset = "business" => undo = NothingUndone
  /\ reset = "audits" => undo.audit = {}
  /\ undo.audit \subseteq Stored
  /\ Exclusive /\ reset # "business" => business = {}
  /\ reset \in {"revisions", "workflows", "verify", "commit"} =>
       WithChallenge \subseteq wiped.challenges
  /\ reset \in {"workflows", "verify", "commit"} => Stored \subseteq wiped.revisions
  /\ reset \in {"verify", "commit"} => Stored \subseteq wiped.workflows
  /\ wiped.revisions # {} => reset \in {"revisions", "workflows", "verify", "commit"}
  /\ wiped.revisions \cap audit = {}

WindowInvariant ==
  WindowTypeOK /\ ResetIsAlone /\ ReadersHoldRows /\ StatementsInOrder /\ NoOrphan
-----------------------------------------------------------------------------
(* Where a request can stand, and what a request that stands somewhere is. *)
LEMMA RequestIsCall ==
  ASSUME WindowTypeOK, NEW r \in Requests, request[r].phase # "idle"
  PROVE  request[r] \in Call
BY DEF WindowTypeOK, Idle

(* A reader inside a call has a call record.                               *)
LEMMA ReaderIsCall ==
  ASSUME WindowTypeOK, NEW g \in Readers, reader[g].phase # "idle"
  PROVE  reader[g] \in ReadCall
BY DEF WindowTypeOK, Idle

(* The demo starts empty and nobody is inside.                             *)
LEMMA WindowInit == Init => WindowInvariant
<1> SUFFICES ASSUME Init PROVE WindowInvariant
  OBVIOUS
<1> USE DEF Init, Idle, NothingWiped, NothingUndone
<1>1. WindowTypeOK
  BY DEF WindowTypeOK, States, ChallengeStates, ResetPhases
<1>2. ResetIsAlone
  BY DEF ResetIsAlone, Exclusive
<1>3. ReadersHoldRows
  BY DEF ReadersHoldRows
<1>4. StatementsInOrder
  BY DEF StatementsInOrder, Exclusive
<1>5. NoOrphan
  BY DEF NoOrphan, WithChallenge, Stored
<1> QED
  BY <1>1, <1>2, <1>3, <1>4, <1>5 DEF WindowInvariant

-----------------------------------------------------------------------------
(* Steps of one request that touch nothing else: it does not join the      *)
(* holders of the shared lock while the reset has the exclusive one.       *)
Inside == {"active", "metered", "handling"}

(* A step of one request that leaves the tables alone keeps the invariant  *)
(* when it keeps that request's part.                                      *)
LEMMA RequestMoves ==
  ASSUME WindowInvariant, NEW r \in Requests, NEW c \in Call \cup {Idle},
         request' = [request EXCEPT ![r] = c],
         Exclusive => c.phase \notin Inside,
         UNCHANGED <<maintenance, tables, reader, worker, resetVars>>
  PROVE  WindowInvariant'
<1> USE DEF tables, resetVars
<1>1. WindowTypeOK'
  BY DEF WindowInvariant, WindowTypeOK
<1>2. ResetIsAlone'
  <2>1. Exclusive' => SharedHolders' = {}
    <3> SUFFICES ASSUME Exclusive', NEW s \in SharedHolders' PROVE FALSE
      OBVIOUS
    <3>1. Exclusive /\ SharedHolders = {}
      BY DEF WindowInvariant, ResetIsAlone, Exclusive
    <3>2. s # r
      BY <3>1 DEF SharedHolders, Inside, WindowInvariant, WindowTypeOK
    <3>3. request'[s] = request[s]
      BY <3>2 DEF SharedHolders
    <3> QED
      BY <3>1, <3>3 DEF SharedHolders
  <2> QED
    BY <2>1 DEF WindowInvariant, ResetIsAlone, Exclusive
<1>3. ReadersHoldRows'
  BY DEF WindowInvariant, ReadersHoldRows, HoldsWorkflow, Stored
<1>4. StatementsInOrder'
  BY DEF WindowInvariant, StatementsInOrder, Exclusive, Stored, WithChallenge
<1>5. NoOrphan'
  BY DEF WindowInvariant, NoOrphan, Stored, WithChallenge
<1> QED
  BY <1>1, <1>2, <1>3, <1>4, <1>5 DEF WindowInvariant

(* Every step of a request but its handler's transaction.                  *)
LEMMA RequestStepsKeep ==
  ASSUME WindowInvariant, NEW r \in Requests,
         \/ \E kind \in Offered, a \in Actions : Arrive(r, kind, a)
         \/ OpenGuard(r) \/ EnterWindow(r) \/ Meter(r) \/ OpenHandler(r)
         \/ CheckoutTimeout(r)
  PROVE  WindowInvariant'
<1>1. WindowTypeOK
  BY DEF WindowInvariant
<1>2. CASE \E kind \in Offered, a \in Actions : Arrive(r, kind, a)
  <2>1. PICK kind \in Offered : \E a \in Actions : Arrive(r, kind, a)
    BY <1>2
  <2>2. PICK a \in Actions : Arrive(r, kind, a)
    BY <2>1
  <2> DEFINE c == [phase |-> "pool", kind |-> kind, action |-> a]
  <2>3. c \in Call
    BY OfferedAssumption DEF Call
  <2> QED
    BY <2>2, <2>3, RequestMoves DEF Arrive, Inside
<1>3. ASSUME NEW phase \in {"lock", "active", "metered", "handling"}, Goto(r, phase),
             request[r].phase # "idle",
             Exclusive => phase \notin Inside
      PROVE  WindowInvariant'
  <2> DEFINE c == [request[r] EXCEPT !.phase = phase]
  <2>1. c \in Call /\ c.phase = phase
    BY <1>1, <1>3, RequestIsCall DEF Call
  <2>2. request' = [request EXCEPT ![r] = c]
    BY <1>3 DEF Goto
  <2> HIDE DEF c
  <2> QED
    BY <1>3, <2>1, <2>2, RequestMoves DEF Goto
<1>4. ASSUME Leave(r) PROVE WindowInvariant'
  BY <1>4, RequestMoves DEF Leave, Idle, Inside
<1>5. Exclusive => request[r].phase \notin Inside
  BY DEF WindowInvariant, ResetIsAlone, SharedHolders, Inside
<1>6. CASE OpenGuard(r)
  BY <1>3, <1>6 DEF OpenGuard, Inside
<1>7. CASE EnterWindow(r)
  BY <1>3, <1>4, <1>7 DEF EnterWindow, SharedGranted, Exclusive
<1>8. CASE Meter(r)
  BY <1>3, <1>4, <1>5, <1>8 DEF Meter, Inside
<1>9. CASE OpenHandler(r)
  BY <1>3, <1>5, <1>9 DEF OpenHandler, Inside
<1>10. CASE CheckoutTimeout(r)
  BY <1>4, <1>10 DEF CheckoutTimeout
<1> QED
  BY <1>2, <1>6, <1>7, <1>8, <1>9, <1>10
-----------------------------------------------------------------------------
(* Steps of one reader that touch nothing else: the rows it then holds are *)
(* stored, not deleted, and held by no other reader.                       *)
Holding == {"workflow", "revision", "expired"}

(* The same for a reader that leaves the tables alone.                     *)
LEMMA ReaderMoves ==
  ASSUME WindowInvariant, NEW g \in Readers, NEW c \in ReadCall \cup {Idle},
         reader' = [reader EXCEPT ![g] = c],
         UNCHANGED <<maintenance, tables, request, worker, resetVars>>,
         c.phase \in Holding =>
           /\ c.action \in Stored /\ c.action \notin wiped.workflows
           /\ HoldsWorkflow(c.action) \subseteq {g},
         c.phase \in {"revision", "expired"} => c.action \notin wiped.revisions,
         c.phase = "expired" =>
           /\ state[c.action] = "AWAITING"
           /\ c.superseded => challenge[c.action] # "NONE" /\ c.action \notin wiped.challenges
  PROVE  WindowInvariant'
<1> USE DEF tables, resetVars
<1>1. WindowTypeOK'
  BY DEF WindowInvariant, WindowTypeOK
<1>2. ResetIsAlone'
  BY DEF WindowInvariant, ResetIsAlone, Exclusive, SharedHolders
<1>3. reader'[g] = c /\ \A h \in Readers \ {g} : reader'[h] = reader[h]
  BY DEF WindowInvariant, WindowTypeOK
<1>4. ReadersHoldRows'
  <2> SUFFICES ASSUME NEW h \in Readers
               PROVE  LET a == reader'[h].action
                      IN  /\ reader'[h].phase \in Holding =>
                               /\ a \in Stored
                               /\ a \notin wiped.workflows
                               /\ \A k \in Readers :
                                    reader'[k].phase \in Holding /\ reader'[k].action = a => k = h
                          /\ reader'[h].phase \in {"revision", "expired"} => a \notin wiped.revisions
                          /\ reader'[h].phase = "expired" =>
                               /\ state[a] = "AWAITING"
                               /\ reader'[h].superseded =>
                                    challenge[a] # "NONE" /\ a \notin wiped.challenges
    BY DEF ReadersHoldRows, HoldsWorkflow, Stored, Holding
  <2>1. CASE h = g
    BY <1>3, <2>1 DEF HoldsWorkflow, Holding
  <2>2. CASE h # g
    <3>1. \A k \in Readers \ {g} :
            reader[k].phase \in Holding /\ reader[k].action = reader[h].action
            /\ reader[h].phase \in Holding => k = h
      BY <2>2 DEF WindowInvariant, ReadersHoldRows, HoldsWorkflow, Holding
    <3>2. c.phase \in Holding /\ reader[h].phase \in Holding => c.action # reader[h].action
      BY <2>2 DEF HoldsWorkflow, Holding
    <3> QED
      BY <1>3, <2>2, <3>1, <3>2 DEF WindowInvariant, ReadersHoldRows, Holding
  <2> QED
    BY <2>1, <2>2
<1>5. StatementsInOrder'
  BY DEF WindowInvariant, StatementsInOrder, Exclusive, Stored, WithChallenge
<1>6. NoOrphan'
  BY <1>3 DEF WindowInvariant, NoOrphan, Stored, WithChallenge, Holding
<1> QED
  BY <1>1, <1>2, <1>4, <1>5, <1>6 DEF WindowInvariant

(* Every step of a reader but the commit of an expiry.                     *)
LEMMA ReaderStepsKeep ==
  ASSUME WindowInvariant, NEW g \in Readers,
         \/ \E a \in Actions : Get(g, a)
         \/ OpenRead(g) \/ ReadTimeout(g) \/ LockWorkflow(g) \/ LockRevision(g)
         \/ WriteExpiry(g) \/ DeadlockVictim(g)
         \/ reader[g].phase = "revision" /\ Gone(g)
  PROVE  WindowInvariant'
<1>1. WindowTypeOK
  BY DEF WindowInvariant
<1>2. CASE \E a \in Actions : Get(g, a)
  <2>1. PICK a \in Actions : Get(g, a)
    BY <1>2
  <2> DEFINE c == [phase |-> "pool", action |-> a, superseded |-> FALSE]
  <2>2. c \in ReadCall
    BY DEF ReadCall
  <2> QED
    BY <2>1, <2>2, ReaderMoves DEF Get, Holding
<1>3. ASSUME Gone(g) PROVE WindowInvariant'
  BY <1>3, ReaderMoves DEF Gone, Idle, Holding
<1>4. CASE OpenRead(g)
  <2> DEFINE c == [reader[g] EXCEPT !.phase = "open"]
  <2>1. c \in ReadCall /\ c.phase = "open"
    BY <1>1, <1>4, ReaderIsCall DEF OpenRead, ReadCall
  <2>2. reader' = [reader EXCEPT ![g] = c]
    BY <1>4 DEF OpenRead, Step
  <2> HIDE DEF c
  <2> QED
    BY <1>4, <2>1, <2>2, ReaderMoves DEF OpenRead, Step, Holding
<1>5. CASE LockWorkflow(g)
  <2>1. CASE Gone(g)
    BY <1>3, <2>1
  <2>2. CASE Step(g, "workflow") /\ state[reader[g].action] # "NONE"
    <3> DEFINE c == [reader[g] EXCEPT !.phase = "workflow"]
    <3>1. reader[g] \in ReadCall
      BY <1>1, <1>5, ReaderIsCall DEF LockWorkflow
    <3>2. c \in ReadCall /\ c.phase = "workflow" /\ c.action = reader[g].action
      BY <3>1 DEF ReadCall
    <3>3. reader' = [reader EXCEPT ![g] = c]
      BY <2>2 DEF Step
    <3>4. c.action \in Stored /\ c.action \notin wiped.workflows /\ HoldsWorkflow(c.action) = {}
      BY <1>5, <2>2, <3>1, <3>2 DEF LockWorkflow, Stored, ReadCall
    <3> HIDE DEF c
    <3> QED
      BY <2>2, <3>2, <3>3, <3>4, ReaderMoves DEF Step
  <2> QED
    BY <1>5, <2>1, <2>2 DEF LockWorkflow
<1>6. ASSUME reader[g].phase \in Holding
      PROVE  /\ reader[g] \in ReadCall
             /\ reader[g].action \in Stored
             /\ reader[g].action \notin wiped.workflows
             /\ HoldsWorkflow(reader[g].action) \subseteq {g}
  BY <1>1, <1>6, ReaderIsCall DEF WindowInvariant, ReadersHoldRows, Holding
<1>7. CASE LockRevision(g)
  <2> DEFINE c == [reader[g] EXCEPT !.phase = "revision"]
  <2>1. reader[g].phase \in Holding
    BY <1>7 DEF LockRevision, Holding
  <2>2. c \in ReadCall /\ c.phase = "revision" /\ c.action = reader[g].action
    BY <1>6, <2>1 DEF ReadCall
  <2>3. reader' = [reader EXCEPT ![g] = c]
    BY <1>7 DEF LockRevision, Step
  <2> HIDE DEF c
  <2> QED
    BY <1>6, <1>7, <2>1, <2>2, <2>3, ReaderMoves DEF LockRevision, Step
<1>8. CASE WriteExpiry(g)
  <2> DEFINE a == reader[g].action
             u == challenge[a] = "ACTIVE"
             c == [phase |-> "expired", action |-> a, superseded |-> u]
  <2>1. reader[g].phase \in Holding
    BY <1>8 DEF WriteExpiry, Holding
  <2>2. c \in ReadCall
    BY <1>6, <2>1 DEF ReadCall
  <2>3. state[a] = "AWAITING" /\ (u => challenge[a] # "NONE" /\ a \notin wiped.challenges)
    BY <1>8 DEF WriteExpiry, Expires
  <2>4. a \notin wiped.revisions
    BY <1>8 DEF WriteExpiry, WindowInvariant, ReadersHoldRows
  <2>5. /\ reader' = [reader EXCEPT ![g] = c]
        /\ UNCHANGED <<maintenance, tables, request, worker, resetVars>>
    BY <1>8 DEF WriteExpiry
  <2>6. c.phase = "expired" /\ c.action = a /\ c.superseded = u
    OBVIOUS
  <2>7. a \in Stored /\ a \notin wiped.workflows /\ HoldsWorkflow(a) \subseteq {g}
    BY <1>6, <2>1
  <2> HIDE DEF c, a, u
  <2> QED
    BY <2>2, <2>3, <2>4, <2>5, <2>6, <2>7, ReaderMoves
<1> QED
  BY <1>2, <1>3, <1>4, <1>5, <1>7, <1>8 DEF ReadTimeout, DeadlockVictim

-----------------------------------------------------------------------------
(* What a handler does to its action: one legal move, and a challenge only *)
(* where there is a revision.                                              *)
LEMMA EffectMoves ==
  ASSUME WindowTypeOK, NEW a \in Actions, NEW kind \in Kinds, Effect(kind, a)
  PROVE  /\ \E s \in States :
              /\ state' = [state EXCEPT ![a] = s]
              /\ s = state[a] \/ <<state[a], s>> \in Life!Forward
         /\ \E c \in ChallengeStates : challenge' = [challenge EXCEPT ![a] = c]
         /\ <<state, challenge>>' # <<state, challenge>> => state'[a] # "NONE"
         /\ state[a] # "NONE" => state'[a] # "NONE"
<1> USE DEF WindowTypeOK, States, ChallengeStates, Live
<1>1. CASE kind = "query" /\ state[a] = "NONE"
  <2>1. state' = [state EXCEPT ![a] = "AWAITING"] /\ challenge' = challenge
    BY <1>1 DEF Effect
  <2> QED
    BY <1>1, <2>1 DEF Life!Forward
<1>2. CASE kind = "challenge" /\ Live(a)
  <2>1. challenge' = [challenge EXCEPT ![a] = "ACTIVE"] /\ state' = state
    BY <1>2 DEF Effect
  <2> QED
    BY <1>2, <2>1
<1>3. CASE kind = "confirm" /\ Live(a) /\ challenge[a] = "ACTIVE"
  <2>1. /\ state' = [state EXCEPT ![a] = "CONFIRMED"]
        /\ challenge' = [challenge EXCEPT ![a] = "CONSUMED"]
    BY <1>3 DEF Effect
  <2> QED
    BY <1>3, <2>1 DEF Life!Forward
<1>4. CASE kind = "cancel" /\ Live(a)
  <2> DEFINE c == IF challenge[a] = "ACTIVE" THEN "SUPERSEDED" ELSE challenge[a]
  <2>1. state' = [state EXCEPT ![a] = "CANCELLED"] /\ challenge' = [challenge EXCEPT ![a] = c]
    BY <1>4 DEF Effect
  <2>2. c \in ChallengeStates
    OBVIOUS
  <2> QED
    BY <1>4, <2>1, <2>2 DEF Life!Forward
<1>5. CASE /\ ~(kind = "query" /\ state[a] = "NONE") /\ ~(kind = "challenge" /\ Live(a))
           /\ ~(kind = "confirm" /\ Live(a) /\ challenge[a] = "ACTIVE")
           /\ ~(kind = "cancel" /\ Live(a))
  <2>1. state' = state /\ challenge' = challenge
    BY <1>5 DEF Effect
  <2> QED
    BY <2>1
<1> QED
  BY <1>1, <1>2, <1>3, <1>4, <1>5
-----------------------------------------------------------------------------
(* Work done under the shared lock moves one action that no reader holds.  *)
LEMMA OneActionMoves ==
  ASSUME WindowInvariant, ~Exclusive, NEW a \in Actions, HoldsWorkflow(a) = {},
         NEW s \in States, state' = [state EXCEPT ![a] = s],
         NEW c \in ChallengeStates, challenge' = [challenge EXCEPT ![a] = c],
         s = "NONE" => state[a] = "NONE" /\ c = challenge[a] /\ audit' = audit,
         audit' \in {audit, audit \cup {a}},
         business' \in {business, business \cup {a}},
         request' \in [Requests -> Call \cup {Idle}],
         worker' \in {"idle", "window"},
         UNCHANGED <<maintenance, lapsed, reader, resetVars>>
  PROVE  WindowInvariant'
<1> USE DEF resetVars
<1>1. WindowTypeOK'
  BY DEF WindowInvariant, WindowTypeOK
<1>2. ResetIsAlone'
  BY DEF WindowInvariant, ResetIsAlone, Exclusive
<1>3. /\ \A b \in Actions \ {a} : state'[b] = state[b] /\ challenge'[b] = challenge[b]
      /\ state'[a] = s /\ challenge'[a] = c
      /\ Stored \subseteq Stored' /\ (s # "NONE" => a \in Stored')
  BY DEF WindowInvariant, WindowTypeOK, Stored
<1>4. NoOrphan'
  <2>1. audit' \subseteq Stored'
    BY <1>3 DEF WindowInvariant, NoOrphan
  <2>2. WithChallenge' \subseteq Stored'
    BY <1>3 DEF WindowInvariant, NoOrphan, WithChallenge, Stored
  <2>3. \A g \in Readers : reader'[g].phase \in {"workflow", "revision", "expired"} =>
          reader'[g].action \in Stored'
    BY <1>3 DEF WindowInvariant, NoOrphan
  <2> QED
    BY <2>1, <2>2, <2>3 DEF NoOrphan
<1>5. ReadersHoldRows'
  <2>1. \A g \in Readers : reader[g].phase \in {"workflow", "revision", "expired"} =>
          /\ reader[g].action \in Actions \ {a}
          /\ reader[g].action \in Stored'
    BY <1>3 DEF HoldsWorkflow, WindowInvariant, NoOrphan, Stored
  <2> QED
    BY <1>3, <2>1 DEF WindowInvariant, ReadersHoldRows, HoldsWorkflow
<1>6. StatementsInOrder'
  <2>1. wiped = NothingWiped /\ undo = NothingUndone
    BY DEF WindowInvariant, ResetIsAlone
  <2>2. ~Exclusive'
    BY DEF Exclusive
  <2> QED
    BY <2>1, <2>2 DEF StatementsInOrder, Exclusive, NothingWiped, NothingUndone
<1> QED
  BY <1>1, <1>2, <1>4, <1>5, <1>6 DEF WindowInvariant

LEMMA HandleKeeps ==
  ASSUME WindowInvariant, NEW r \in Requests, Handle(r)
  PROVE  WindowInvariant'
<1> DEFINE a == request[r].action
           kind == request[r].kind
<1>1. request[r] \in Call /\ a \in Actions /\ kind \in Kinds
  BY RequestIsCall DEF WindowInvariant, Handle, Call
<1>2. ~Exclusive
  BY DEF WindowInvariant, ResetIsAlone, SharedHolders, Handle
<1>3. /\ Effect(kind, a) /\ HoldsWorkflow(a) = {}
      /\ audit' = IF <<state, challenge>>' = <<state, challenge>> THEN audit ELSE audit \cup {a}
      /\ request' = [request EXCEPT ![r] = Idle]
      /\ UNCHANGED <<maintenance, lapsed, business, reader, worker, resetVars>>
  BY DEF Handle
<1>4. WindowTypeOK
  BY DEF WindowInvariant
<1> HIDE DEF a, kind
<1>5. /\ \E s \in States : state' = [state EXCEPT ![a] = s]
      /\ \E c \in ChallengeStates : challenge' = [challenge EXCEPT ![a] = c]
      /\ <<state, challenge>>' # <<state, challenge>> => state'[a] # "NONE"
      /\ state[a] # "NONE" => state'[a] # "NONE"
  BY <1>1, <1>3, <1>4, EffectMoves
<1>6. PICK s \in States : state' = [state EXCEPT ![a] = s]
  BY <1>5
<1>7. PICK c \in ChallengeStates : challenge' = [challenge EXCEPT ![a] = c]
  BY <1>5
<1>8. state'[a] = s /\ challenge'[a] = c
  BY <1>1, <1>4, <1>6, <1>7 DEF WindowTypeOK
<1>9. s = "NONE" => state[a] = "NONE" /\ c = challenge[a] /\ audit' = audit
  BY <1>3, <1>5, <1>8
<1>10. request' \in [Requests -> Call \cup {Idle}] /\ worker' \in {"idle", "window"}
  BY <1>3, <1>4 DEF WindowTypeOK
<1> QED
  BY <1>1, <1>2, <1>3, <1>6, <1>7, <1>9, <1>10, OneActionMoves

(* A worker's step that writes nothing.                                    *)
LEMMA WorkerMoves ==
  ASSUME WindowInvariant, worker' \in {"idle", "window"},
         Exclusive => worker' = "idle",
         UNCHANGED <<maintenance, tables, request, reader, resetVars>>
  PROVE  WindowInvariant'
<1> USE DEF tables, resetVars
<1>1. WindowTypeOK'
  BY DEF WindowInvariant, WindowTypeOK
<1>2. ResetIsAlone'
  BY DEF WindowInvariant, ResetIsAlone, Exclusive, SharedHolders
<1>3. ReadersHoldRows'
  BY DEF WindowInvariant, ReadersHoldRows, HoldsWorkflow, Stored
<1>4. StatementsInOrder'
  BY DEF WindowInvariant, StatementsInOrder, Exclusive, Stored, WithChallenge
<1>5. NoOrphan'
  BY DEF WindowInvariant, NoOrphan, Stored, WithChallenge
<1> QED
  BY <1>1, <1>2, <1>3, <1>4, <1>5 DEF WindowInvariant

LEMMA WorkerKeeps ==
  ASSUME WindowInvariant, WorkerStep
  PROVE  WindowInvariant'
<1>1. CASE WorkerGuard
  BY <1>1, WorkerMoves DEF WorkerGuard, Worker, SharedGranted, Exclusive
<1>2. CASE RunOnce
  <2>1. /\ worker = "window" /\ worker' = "idle"
        /\ UNCHANGED <<maintenance, request, reader, resetVars>>
    BY <1>2 DEF RunOnce, Worker
  <2>2. ~Exclusive
    BY <2>1 DEF WindowInvariant, ResetIsAlone
  <2>3. CASE UNCHANGED tables
    BY <2>1, <2>3, WorkerMoves
  <2>4. CASE \E a \in Actions :
               /\ state[a] = "CONFIRMED" /\ HoldsWorkflow(a) = {}
               /\ state' = [state EXCEPT ![a] = "SUCCEEDED"]
               /\ business' = business \cup {a} /\ audit' = audit \cup {a}
               /\ UNCHANGED <<lapsed, challenge>>
    <3>1. PICK a \in Actions :
               /\ HoldsWorkflow(a) = {}
               /\ state' = [state EXCEPT ![a] = "SUCCEEDED"]
               /\ business' = business \cup {a} /\ audit' = audit \cup {a}
               /\ UNCHANGED <<lapsed, challenge>>
      BY <2>4
    <3>2. challenge[a] \in ChallengeStates /\ challenge' = [challenge EXCEPT ![a] = challenge[a]]
      BY <3>1 DEF WindowInvariant, WindowTypeOK
    <3>3. "SUCCEEDED" \in States
      BY DEF States
    <3>4. request' \in [Requests -> Call \cup {Idle}]
      BY <2>1 DEF WindowInvariant, WindowTypeOK
    <3> QED
      BY <2>1, <2>2, <3>1, <3>2, <3>3, <3>4, OneActionMoves
  <2> QED
    BY <1>2, <2>3, <2>4 DEF RunOnce
<1> QED
  BY <1>1, <1>2 DEF WorkerStep

LEMMA LapseKeeps ==
  ASSUME WindowInvariant, NEW a \in Actions, Lapse(a)
  PROVE  WindowInvariant'
<1> USE DEF Lapse, resetVars
<1>1. WindowTypeOK'
  BY DEF WindowInvariant, WindowTypeOK
<1>2. ResetIsAlone'
  BY DEF WindowInvariant, ResetIsAlone, Exclusive, SharedHolders
<1>3. ReadersHoldRows'
  BY DEF WindowInvariant, ReadersHoldRows, HoldsWorkflow, Stored
<1>4. StatementsInOrder'
  BY DEF WindowInvariant, StatementsInOrder, Exclusive, Stored, WithChallenge
<1>5. NoOrphan'
  BY DEF WindowInvariant, NoOrphan, Stored, WithChallenge
<1> QED
  BY <1>1, <1>2, <1>3, <1>4, <1>5 DEF WindowInvariant

(* The commit of a read that found its action lapsed: this reader alone    *)
(* holds the action, whose revision no open delete has touched.            *)
LEMMA ExpiryKeeps ==
  ASSUME WindowInvariant, NEW g \in Readers, reader[g].phase = "expired", CommitRead(g)
  PROVE  WindowInvariant'
<1> DEFINE a == reader[g].action
<1>1. /\ state' = [state EXCEPT ![a] = "EXPIRED"]
      /\ challenge' = IF reader[g].superseded
                      THEN [challenge EXCEPT ![a] = "SUPERSEDED"] ELSE challenge
      /\ audit' = audit \cup {a}
      /\ reader' = [reader EXCEPT ![g] = Idle]
      /\ UNCHANGED <<maintenance, lapsed, business, request, worker, resetVars>>
  BY DEF CommitRead
<1>2. a \in Stored /\ a \notin wiped.revisions /\ state[a] = "AWAITING"
      /\ (reader[g].superseded => a \in WithChallenge)
      /\ \A h \in HoldsWorkflow(a) : h = g
  BY DEF WindowInvariant, ReadersHoldRows, Stored, WithChallenge
<1>3. WindowTypeOK'
  <2>1. state' \in [Actions -> States]
    BY <1>1 DEF WindowInvariant, WindowTypeOK, States
  <2>2. challenge' \in [Actions -> ChallengeStates]
    BY <1>1 DEF WindowInvariant, WindowTypeOK, ChallengeStates
  <2>3. audit' \subseteq Actions
    BY <1>1, <1>2 DEF WindowInvariant, WindowTypeOK, Stored
  <2>4. reader' \in [Readers -> ReadCall \cup {Idle}]
    BY <1>1 DEF WindowInvariant, WindowTypeOK
  <2> QED
    BY <1>1, <2>1, <2>2, <2>3, <2>4 DEF WindowInvariant, WindowTypeOK, resetVars
<1>4. Stored' = Stored /\ WithChallenge' = WithChallenge
  <2>1. Stored' = Stored
    BY <1>1, <1>2 DEF WindowInvariant, WindowTypeOK, Stored
  <2>2. WithChallenge' = WithChallenge
    BY <1>1, <1>2 DEF WindowInvariant, WindowTypeOK, WithChallenge
  <2> QED
    BY <2>1, <2>2
<1>5. \A h \in Readers : reader'[h].phase # "idle" => h # g /\ reader'[h] = reader[h]
  BY <1>1 DEF WindowInvariant, WindowTypeOK, Idle
<1>6. NoOrphan'
  BY <1>1, <1>2, <1>4, <1>5 DEF WindowInvariant, NoOrphan
<1>7. ReadersHoldRows'
  <2> SUFFICES ASSUME NEW h \in Readers, reader'[h].phase \in Holding
               PROVE  LET b == reader'[h].action
                      IN  /\ b \in Stored' /\ b \notin wiped'.workflows
                          /\ \A k \in Readers :
                               reader'[k].phase \in Holding /\ reader'[k].action = b => k = h
                          /\ reader'[h].phase \in {"revision", "expired"} => b \notin wiped'.revisions
                          /\ reader'[h].phase = "expired" =>
                               /\ state'[b] = "AWAITING"
                               /\ reader'[h].superseded =>
                                    challenge'[b] # "NONE" /\ b \notin wiped'.challenges
    BY DEF ReadersHoldRows, HoldsWorkflow, Holding
  <2> DEFINE b == reader[h].action
  <2>1. h # g /\ reader'[h] = reader[h]
    BY <1>5 DEF Holding
  <2>2. b # a /\ b \in Stored
    BY <1>2, <2>1 DEF Holding, HoldsWorkflow, WindowInvariant, NoOrphan
  <2>3. state'[b] = state[b] /\ challenge'[b] = challenge[b]
    BY <1>1, <2>2 DEF WindowInvariant, WindowTypeOK, Stored
  <2>4. \A k \in Readers : reader'[k].phase \in Holding /\ reader'[k].action = b => k = h
    BY <1>5, <2>1 DEF Holding, HoldsWorkflow, WindowInvariant, ReadersHoldRows
  <2> QED
    BY <1>1, <1>4, <2>1, <2>2, <2>3, <2>4 DEF WindowInvariant, ReadersHoldRows, Holding, resetVars
<1>8. StatementsInOrder'
  BY <1>1, <1>2, <1>4 DEF WindowInvariant, StatementsInOrder, Exclusive, resetVars
<1>9. ResetIsAlone'
  BY <1>1 DEF WindowInvariant, ResetIsAlone, Exclusive, SharedHolders, resetVars
<1> QED
  BY <1>3, <1>6, <1>7, <1>8, <1>9 DEF WindowInvariant
-----------------------------------------------------------------------------
(* The reset.  What is stored, and what readers do, stands still while it  *)
(* takes its lock and deletes.                                             *)
LEMMA PhaseNames ==
  "idle" \in ResetPhases /\ "flagged" \in ResetPhases /\ "business" \in ResetPhases
BY DEF ResetPhases, DeleteOrder

(* What the reset has deleted, and would put back, are sets of actions.    *)
LEMMA ResetTypes ==
  WindowTypeOK => /\ wiped.challenges \subseteq Actions
                  /\ wiped.revisions \subseteq Actions
                  /\ wiped.workflows \subseteq Actions
                  /\ undo.business \subseteq Actions /\ undo.audit \subseteq Actions
BY DEF WindowTypeOK

LEMMA StartKeeps ==
  ASSUME WindowInvariant, StartReset \/ TakeExclusive
  PROVE  WindowInvariant'
<1> USE DEF StartReset, TakeExclusive, tables
<1>1. WindowTypeOK'
  <2>1. reset' \in ResetPhases
    BY PhaseNames
  <2>2. maintenance' \in BOOLEAN
    BY DEF WindowInvariant, WindowTypeOK
  <2> QED
    BY <2>1, <2>2 DEF WindowInvariant, WindowTypeOK
<1>2. ResetIsAlone'
  BY DEF WindowInvariant, WindowTypeOK, ResetIsAlone, Exclusive, SharedHolders
<1>3. ReadersHoldRows'
  BY DEF WindowInvariant, ReadersHoldRows, HoldsWorkflow, Stored
<1>4. StatementsInOrder'
  <2>1. wiped' = NothingWiped /\ undo' = NothingUndone
    BY DEF WindowInvariant, ResetIsAlone, Exclusive
  <2>2. reset' \in {"flagged", "business"}
    OBVIOUS
  <2> QED
    BY <2>1, <2>2 DEF StatementsInOrder, NothingWiped, NothingUndone, Exclusive
<1>5. NoOrphan'
  BY DEF WindowInvariant, NoOrphan, Stored, WithChallenge
<1> QED
  BY <1>1, <1>2, <1>3, <1>4, <1>5 DEF WindowInvariant

LEMMA DeleteUnlockedKeeps ==
  ASSUME WindowInvariant, DeleteUnlocked
  PROVE  WindowInvariant'
<1>1. Exclusive /\ Exclusive' /\ reset \in {"business", "audits"}
  BY DEF DeleteUnlocked, Exclusive
<1>2. /\ UNCHANGED <<maintenance, state, lapsed, challenge, request, reader, worker, wiped, resets>>
      /\ audit' \subseteq audit
  BY DEF DeleteUnlocked
<1>3. WindowTypeOK'
  <2>1. undo' \in [business : SUBSET Actions, audit : SUBSET Actions]
    BY DEF DeleteUnlocked, WindowInvariant, WindowTypeOK
  <2>2. business' \subseteq Actions /\ audit' \subseteq Actions /\ reset' \in ResetPhases
    BY DEF DeleteUnlocked, WindowInvariant, WindowTypeOK, ResetPhases, DeleteOrder
  <2> QED
    BY <1>2, <2>1, <2>2 DEF WindowInvariant, WindowTypeOK
<1>4. ResetIsAlone'
  BY <1>1, <1>2 DEF WindowInvariant, ResetIsAlone, SharedHolders, Exclusive
<1>5. ReadersHoldRows'
  BY <1>2 DEF WindowInvariant, ReadersHoldRows, HoldsWorkflow, Stored
<1>6. NoOrphan'
  BY <1>2 DEF WindowInvariant, NoOrphan, Stored, WithChallenge
<1>7. StatementsInOrder'
  <2>1. Stored' = Stored /\ WithChallenge' = WithChallenge
    BY <1>2 DEF Stored, WithChallenge
  <2>2. wiped.revisions = {}
    BY <1>1 DEF WindowInvariant, StatementsInOrder
  <2>3. CASE reset = "business"
    <3>1. undo = NothingUndone /\ undo' = [undo EXCEPT !.business = business] /\ reset' = "audits"
          /\ business' = {}
      BY <2>3 DEF DeleteUnlocked, WindowInvariant, StatementsInOrder
    <3>2. undo'.audit = {}
      BY <3>1 DEF NothingUndone
    <3> QED
      BY <1>2, <2>1, <2>2, <3>1, <3>2 DEF StatementsInOrder
  <2>4. CASE reset = "audits"
    <3>1. undo' = [undo EXCEPT !.audit = audit] /\ reset' = "challenges" /\ business' = business
      BY <2>4 DEF DeleteUnlocked
    <3>2. undo'.audit = audit /\ business = {} /\ audit \subseteq Stored
      BY <1>1, <2>4, <3>1 DEF WindowInvariant, WindowTypeOK, StatementsInOrder, NoOrphan
    <3> QED
      BY <1>2, <2>1, <2>2, <3>1, <3>2 DEF StatementsInOrder
  <2> QED
    BY <1>1, <2>3, <2>4
<1> QED
  BY <1>3, <1>4, <1>5, <1>6, <1>7 DEF WindowInvariant

(* One more row of one table is deleted.                                   *)
LEMMA WipeKeeps ==
  ASSUME WindowInvariant, DeleteRow
  PROVE  WindowInvariant'
<1>1. PICK table \in {"challenges", "revisions", "workflows"}, a \in Actions :
        /\ reset = table /\ Wipe(table, a)
        /\ table = "challenges" => HoldsChallenge(a) = {}
        /\ table = "revisions" => HoldsRevision(a) = {} /\ a \notin audit
        /\ table = "workflows" => HoldsWorkflow(a) = {}
  BY DEF DeleteRow, Stored, WithChallenge
<1>2. /\ wiped' = [wiped EXCEPT ![table] = @ \cup {a}]
      /\ UNCHANGED <<maintenance, tables, request, reader, worker, reset, undo, resets>>
  BY <1>1 DEF Wipe
<1>3. /\ wiped'.challenges = wiped.challenges \cup (IF table = "challenges" THEN {a} ELSE {})
      /\ wiped'.revisions = wiped.revisions \cup (IF table = "revisions" THEN {a} ELSE {})
      /\ wiped'.workflows = wiped.workflows \cup (IF table = "workflows" THEN {a} ELSE {})
  BY <1>2 DEF WindowInvariant, WindowTypeOK
<1> USE DEF tables
<1>4. WindowTypeOK'
  <2>1. wiped' \in [challenges : SUBSET Actions, revisions : SUBSET Actions,
                    workflows : SUBSET Actions]
    BY <1>1, <1>2 DEF WindowInvariant, WindowTypeOK
  <2> QED
    BY <1>2, <2>1 DEF WindowInvariant, WindowTypeOK
<1>5. ResetIsAlone'
  <2>1. Exclusive
    BY <1>1 DEF Exclusive
  <2> QED
    BY <1>2, <2>1 DEF WindowInvariant, ResetIsAlone, SharedHolders, Exclusive
<1>6. Stored' = Stored /\ WithChallenge' = WithChallenge
  BY <1>2 DEF Stored, WithChallenge
<1>7. ReadersHoldRows'
  <2>1. \A g \in Readers :
          /\ g \notin HoldsWorkflow(a) => ~(reader[g].phase \in Holding /\ reader[g].action = a)
          /\ g \notin HoldsRevision(a) =>
               ~(reader[g].phase \in {"revision", "expired"} /\ reader[g].action = a)
          /\ g \notin HoldsChallenge(a) =>
               ~(reader[g].phase = "expired" /\ reader[g].action = a /\ reader[g].superseded)
    BY DEF Holding, HoldsWorkflow, HoldsRevision, HoldsChallenge
  <2> QED
    BY <1>1, <1>2, <1>3, <1>6, <2>1 DEF WindowInvariant, ReadersHoldRows, HoldsWorkflow, Holding
<1>8. StatementsInOrder'
  BY <1>1, <1>2, <1>3, <1>6 DEF WindowInvariant, StatementsInOrder, Exclusive
<1>9. NoOrphan'
  BY <1>2, <1>6 DEF WindowInvariant, NoOrphan
<1> QED
  BY <1>4, <1>5, <1>7, <1>8, <1>9 DEF WindowInvariant

LEMMA StatementDoneKeeps ==
  ASSUME WindowInvariant, StatementDone
  PROVE  WindowInvariant'
<1>1. /\ \/ reset = "challenges" /\ wiped.challenges = WithChallenge /\ reset' = "revisions"
         \/ reset = "revisions" /\ wiped.revisions = Stored /\ reset' = "workflows"
         \/ reset = "workflows" /\ wiped.workflows = Stored /\ reset' = "verify"
         \/ reset = "verify" /\ Stored = wiped.workflows /\ reset' = "commit"
      /\ UNCHANGED <<maintenance, tables, request, reader, worker, wiped, undo, resets>>
  BY DEF StatementDone
<1> USE DEF tables
<1>2. WindowTypeOK'
  BY <1>1 DEF WindowInvariant, WindowTypeOK, ResetPhases, DeleteOrder
<1>3. ResetIsAlone'
  BY <1>1 DEF WindowInvariant, ResetIsAlone, SharedHolders, Exclusive
<1>4. ReadersHoldRows'
  BY <1>1 DEF WindowInvariant, ReadersHoldRows, HoldsWorkflow, Stored
<1>5. StatementsInOrder'
  BY <1>1 DEF WindowInvariant, StatementsInOrder, Exclusive, Stored, WithChallenge
<1>6. NoOrphan'
  BY <1>1 DEF WindowInvariant, NoOrphan, Stored, WithChallenge
<1> QED
  BY <1>2, <1>3, <1>4, <1>5, <1>6 DEF WindowInvariant

(* At the commit every stored row is deleted, so no reader holds one and   *)
(* no audit event is left.                                                 *)
LEMMA CommitIsComplete ==
  ASSUME WindowInvariant, FinishReset
  PROVE  /\ state' = [a \in Actions |-> "NONE"] /\ challenge' = [a \in Actions |-> "NONE"]
         /\ audit = {} /\ business = {}
         /\ \A g \in Readers : reader[g].phase \notin Holding
         /\ Exclusive /\ maintenance /\ SharedHolders = {} /\ worker = "idle"
<1>1. reset = "commit" /\ Exclusive
  BY DEF FinishReset, Exclusive
<1>2. /\ Stored \subseteq wiped.revisions /\ Stored \subseteq wiped.workflows
      /\ WithChallenge \subseteq wiped.challenges
      /\ wiped.revisions \cap audit = {} /\ business = {}
  BY <1>1 DEF WindowInvariant, StatementsInOrder
<1>3. audit = {}
  BY <1>2 DEF WindowInvariant, NoOrphan
<1>4. \A g \in Readers : reader[g].phase \notin Holding
  BY <1>2 DEF WindowInvariant, ReadersHoldRows, Holding
<1>5. state' = [a \in Actions |-> "NONE"] /\ challenge' = [a \in Actions |-> "NONE"]
  BY <1>2 DEF FinishReset, Stored, WithChallenge
<1> QED
  BY <1>1, <1>2, <1>3, <1>4, <1>5 DEF WindowInvariant, ResetIsAlone

LEMMA FinishKeeps ==
  ASSUME WindowInvariant, FinishReset
  PROVE  WindowInvariant'
<1>1. /\ state' = [a \in Actions |-> "NONE"] /\ challenge' = [a \in Actions |-> "NONE"]
      /\ audit = {} /\ business = {}
      /\ \A g \in Readers : reader[g].phase \notin Holding
  BY CommitIsComplete
<1>2. /\ lapsed' = lapsed \ wiped.revisions /\ maintenance' = FALSE /\ reset' = "idle"
      /\ wiped' = NothingWiped /\ undo' = NothingUndone
      /\ UNCHANGED <<audit, business, request, reader, worker, resets>>
  BY DEF FinishReset
<1>3. WindowTypeOK'
  <2>1. state' \in [Actions -> States] /\ challenge' \in [Actions -> ChallengeStates]
    BY <1>1 DEF States, ChallengeStates
  <2>2. /\ wiped' \in [challenges : SUBSET Actions, revisions : SUBSET Actions,
                       workflows : SUBSET Actions]
        /\ undo' \in [business : SUBSET Actions, audit : SUBSET Actions]
    BY <1>2 DEF NothingWiped, NothingUndone
  <2> QED
    BY <1>2, <2>1, <2>2 DEF WindowInvariant, WindowTypeOK, ResetPhases
<1>4. ResetIsAlone'
  BY <1>2 DEF ResetIsAlone, Exclusive, NothingWiped, NothingUndone
<1>5. ReadersHoldRows'
  BY <1>1, <1>2 DEF ReadersHoldRows, Holding
<1>6. StatementsInOrder'
  BY <1>2 DEF StatementsInOrder, Exclusive, NothingWiped, NothingUndone
<1>7. NoOrphan'
  BY <1>1, <1>2 DEF NoOrphan, WithChallenge, Holding
<1> QED
  BY <1>3, <1>4, <1>5, <1>6, <1>7 DEF WindowInvariant

LEMMA FailKeeps ==
  ASSUME WindowInvariant, FailReset
  PROVE  WindowInvariant'
<1>1. /\ reset' = "idle" /\ wiped' = NothingWiped /\ undo' = NothingUndone
      /\ business' = business \cup undo.business /\ audit' = audit \cup undo.audit
      /\ UNCHANGED <<maintenance, state, lapsed, challenge, request, reader, worker, resets>>
  BY DEF FailReset, Rollback
<1>2. WindowTypeOK'
  <2>1. /\ wiped' \in [challenges : SUBSET Actions, revisions : SUBSET Actions,
                       workflows : SUBSET Actions]
        /\ undo' \in [business : SUBSET Actions, audit : SUBSET Actions]
    BY <1>1 DEF NothingWiped, NothingUndone
  <2> QED
    BY <1>1, <2>1, ResetTypes DEF WindowInvariant, WindowTypeOK, ResetPhases
<1>3. ResetIsAlone'
  BY <1>1 DEF ResetIsAlone, Exclusive, NothingWiped, NothingUndone
<1>4. ReadersHoldRows'
  BY <1>1 DEF WindowInvariant, ReadersHoldRows, HoldsWorkflow, Stored, NothingWiped
<1>5. StatementsInOrder'
  BY <1>1 DEF StatementsInOrder, Exclusive, NothingWiped, NothingUndone
<1>6. NoOrphan'
  BY <1>1 DEF WindowInvariant, NoOrphan, StatementsInOrder, Stored, WithChallenge
<1> QED
  BY <1>2, <1>3, <1>4, <1>5, <1>6 DEF WindowInvariant
-----------------------------------------------------------------------------
LEMMA WindowStutters ==
  ASSUME WindowInvariant, UNCHANGED vars
  PROVE  WindowInvariant'
<1> USE DEF vars, tables, resetVars
<1>1. WindowTypeOK'
  BY DEF WindowInvariant, WindowTypeOK
<1>2. ResetIsAlone'
  BY DEF WindowInvariant, ResetIsAlone, Exclusive, SharedHolders
<1>3. ReadersHoldRows'
  BY DEF WindowInvariant, ReadersHoldRows, HoldsWorkflow, Stored
<1>4. StatementsInOrder'
  BY DEF WindowInvariant, StatementsInOrder, Exclusive, Stored, WithChallenge
<1>5. NoOrphan'
  BY DEF WindowInvariant, NoOrphan, Stored, WithChallenge
<1> QED
  BY <1>1, <1>2, <1>3, <1>4, <1>5 DEF WindowInvariant

LEMMA WindowStep ==
  ASSUME WindowInvariant, [Next]_vars
  PROVE  WindowInvariant'
<1>1. CASE \E r \in Requests, kind \in Offered, a \in Actions : Arrive(r, kind, a)
  BY <1>1, RequestStepsKeep
<1>2. CASE \E r \in Requests : RequestStep(r)
  BY <1>2, RequestStepsKeep, HandleKeeps DEF RequestStep
<1>3. CASE \E g \in Readers, a \in Actions : Get(g, a)
  BY <1>3, ReaderStepsKeep
<1>4. CASE \E g \in Readers : ReaderStep(g)
  <2>1. PICK g \in Readers : ReaderStep(g)
    BY <1>4
  <2>2. CASE CommitRead(g)
    BY <2>2, ReaderStepsKeep, ExpiryKeeps DEF CommitRead
  <2>3. CASE ~CommitRead(g)
    BY <2>1, <2>3, ReaderStepsKeep DEF ReaderStep
  <2> QED
    BY <2>2, <2>3
<1>5. CASE \E a \in Actions : Lapse(a)
  BY <1>5, LapseKeeps
<1>6. CASE WorkerStep
  BY <1>6, WorkerKeeps
<1>7. CASE StartReset
  BY <1>7, StartKeeps
<1>8. CASE ResetStep
  BY <1>8, StartKeeps, DeleteUnlockedKeeps, WipeKeeps, StatementDoneKeeps, FinishKeeps DEF ResetStep
<1>9. CASE FailReset
  BY <1>9, FailKeeps
<1>10. CASE UNCHANGED vars
  BY <1>10, WindowStutters
<1> QED
  BY <1>1, <1>2, <1>3, <1>4, <1>5, <1>6, <1>7, <1>8, <1>9, <1>10 DEF Next

(* For any number of actions, requests, readers and resets: requests and   *)
(* worker are outside while the reset deletes, no reader holds a row the   *)
(* reset has deleted, and each DELETE runs on what the last one left.      *)
THEOREM WindowHolds == Spec => []WindowInvariant
<1>1. Init => WindowInvariant
  BY WindowInit
<1>2. WindowInvariant /\ [Next]_vars => WindowInvariant'
  BY WindowStep
<1> QED
  BY <1>1, <1>2, PTL DEF Spec

(* No audit event or challenge outlives its revision, and what a reader    *)
(* has locked is there, though the reset deletes referred and referring    *)
(* rows in separate statements (src/app/demo/service.py).                  *)
THEOREM NothingIsOrphaned == Spec => []NoOrphan
<1>1. WindowInvariant => NoOrphan
  BY DEF WindowInvariant
<1> QED
  BY <1>1, WindowHolds, PTL

-----------------------------------------------------------------------------
(* The refinement: each step of the window is a step of DemoLife, or none  *)
(* that anyone else sees.                                                  *)
Recorded == audit \cup undo.audit \cup business \cup undo.business

(* Arriving, entering the window, metering and opening a handler touch no  *)
(* table.                                                                  *)
LEMMA RequestsRefine ==
  ASSUME WindowInvariant, NEW r \in Requests,
         \/ \E kind \in Offered, a \in Actions : Arrive(r, kind, a)
         \/ OpenGuard(r) \/ EnterWindow(r) \/ Meter(r) \/ OpenHandler(r)
         \/ CheckoutTimeout(r)
  PROVE  [Life!LifeNext]_(Life!lifeVars)
<1>1. /\ UNCHANGED <<maintenance, tables, worker, resetVars>>
      /\ \E c : request' = [request EXCEPT ![r] = c]
  <2>1. ASSUME NEW phase, Goto(r, phase) PROVE \E c : request' = [request EXCEPT ![r] = c]
    <3>1. request' = [request EXCEPT ![r] = [request[r] EXCEPT !.phase = phase]]
      BY <2>1 DEF Goto
    <3> QED
      BY <3>1
  <2>2. Leave(r) => \E c : request' = [request EXCEPT ![r] = c]
    BY DEF Leave
  <2>3. CASE \E kind \in Offered, a \in Actions : Arrive(r, kind, a)
    BY <2>3 DEF Arrive
  <2>4. CASE \/ OpenGuard(r) \/ EnterWindow(r) \/ Meter(r) \/ OpenHandler(r)
             \/ CheckoutTimeout(r)
    <3>1. (\E phase : Goto(r, phase)) \/ Leave(r)
      BY <2>4 DEF OpenGuard, EnterWindow, Meter, OpenHandler, CheckoutTimeout
    <3> QED
      BY <3>1, <2>1, <2>2 DEF Goto, Leave
  <2> QED
    BY <2>3, <2>4
<1>2. UNCHANGED <<maintenance, state, Recorded>>
  BY <1>1 DEF tables, resetVars, Recorded
<1>3. CASE Admitted
  <2>1. Life!Leave
    BY <1>2, <1>3 DEF Life!Leave, Recorded
  <2> QED
    BY <2>1 DEF Life!LifeNext
<1>4. CASE ~Admitted /\ ~Admitted'
  BY <1>2, <1>4 DEF Life!lifeVars, Recorded, Admitted
<1>5. CASE ~Admitted /\ Admitted'
  <2>1. PICK c : request' = [request EXCEPT ![r] = c]
    BY <1>1
  <2>2. \A s \in Requests \ {r} : request'[s] = request[s]
    BY <2>1 DEF WindowInvariant, WindowTypeOK
  <2>3. request[r].phase \notin Inside /\ request'[r].phase \in Inside
    BY <1>1, <1>5, <2>2 DEF Admitted, SharedHolders, Inside
  <2>4. EnterWindow(r) /\ ~maintenance
    <3>1. ASSUME NEW phase, Goto(r, phase) PROVE request'[r].phase = phase
      BY <3>1, RequestIsCall DEF Goto, WindowInvariant, WindowTypeOK, Idle, Call
    <3>2. ~Leave(r)
      BY <2>3 DEF Leave, WindowInvariant, WindowTypeOK, Idle, Inside
    <3>3. ~\E kind \in Offered, a \in Actions : Arrive(r, kind, a)
      BY <2>3 DEF Arrive, WindowInvariant, WindowTypeOK, Inside
    <3> QED
      BY <2>3, <3>1, <3>2, <3>3 DEF OpenGuard, EnterWindow, Meter, OpenHandler, CheckoutTimeout, Inside
  <2>5. Life!Admit
    BY <1>2, <1>5, <2>4 DEF Life!Admit, Recorded
  <2> QED
    BY <2>5 DEF Life!LifeNext
<1> QED
  BY <1>3, <1>4, <1>5

(* A handler is one forward move of one action, inside the window, or      *)
(* changes nothing.                                                        *)
LEMMA HandleRefines ==
  ASSUME WindowInvariant, NEW r \in Requests, Handle(r)
  PROVE  [Life!LifeNext]_(Life!lifeVars)
<1> DEFINE a == request[r].action
           kind == request[r].kind
<1>1. request[r] \in Call /\ a \in Actions /\ kind \in Kinds
  BY RequestIsCall DEF WindowInvariant, Handle, Call
<1>2. Admitted
  BY DEF Admitted, SharedHolders, Handle
<1>3. /\ Effect(kind, a)
      /\ audit' = IF <<state, challenge>>' = <<state, challenge>> THEN audit ELSE audit \cup {a}
      /\ UNCHANGED <<maintenance, business, undo>>
  BY DEF Handle, resetVars
<1>4. WindowTypeOK
  BY DEF WindowInvariant
<1> HIDE DEF a, kind
<1>5. CASE <<state, challenge>>' = <<state, challenge>>
  <2>1. Life!Leave
    BY <1>2, <1>3, <1>5 DEF Life!Leave
  <2> QED
    BY <2>1 DEF Life!LifeNext
<1>6. CASE <<state, challenge>>' # <<state, challenge>>
  <2>1. PICK s \in States : /\ state' = [state EXCEPT ![a] = s]
                            /\ s = state[a] \/ <<state[a], s>> \in Life!Forward
    BY <1>1, <1>3, <1>4, EffectMoves
  <2>2. state[a] = s => state' = state
    BY <1>1, <1>4, <2>1 DEF WindowTypeOK
  <2>3. <<state[a], s>> \in Life!Forward => s \in {"AWAITING", "CONFIRMED", "CANCELLED", "SUCCEEDED"}
    BY DEF Life!Forward
  <2>4. Recorded' = Recorded \cup {a}
    BY <1>3, <1>6 DEF Recorded
  <2>5. Life!Move(a)
    BY <1>2, <1>3, <2>1, <2>2, <2>3, <2>4 DEF Life!Move, Recorded
  <2> QED
    BY <1>1, <2>5 DEF Life!LifeNext
<1> QED
  BY <1>5, <1>6

(* A reader changes only an action that has lapsed, and only by closing it *)
(* when it commits.                                                        *)
LEMMA ReadersRefine ==
  ASSUME WindowInvariant, NEW g \in Readers,
         ReaderStep(g) \/ \E a \in Actions : Get(g, a)
  PROVE  [Life!LifeNext]_(Life!lifeVars)
<1>1. CASE reader[g].phase = "expired" /\ CommitRead(g)
  <2> DEFINE a == reader[g].action
  <2>1. a \in Actions /\ state[a] = "AWAITING"
    BY <1>1 DEF WindowInvariant, ReadersHoldRows, Stored
  <2>2. /\ state' = [state EXCEPT ![a] = "EXPIRED"] /\ audit' = audit \cup {a}
        /\ UNCHANGED <<maintenance, business, undo, request, worker>>
    BY <1>1 DEF CommitRead, resetVars
  <2>3. Admitted' = Admitted /\ Recorded' = Recorded \cup {a}
    BY <2>2 DEF Admitted, SharedHolders, Recorded
  <2> HIDE DEF a
  <2>4. Life!Expire(a)
    BY <2>1, <2>2, <2>3 DEF Life!Expire, Recorded
  <2> QED
    BY <2>1, <2>4 DEF Life!LifeNext
<1>2. CASE ~(reader[g].phase = "expired" /\ CommitRead(g))
  <2>1. UNCHANGED <<maintenance, tables, request, worker, resetVars>>
    BY <1>2 DEF ReaderStep, Get, OpenRead, ReadTimeout, LockWorkflow, LockRevision,
                WriteExpiry, CommitRead, DeadlockVictim, Gone, Step
  <2> QED
    BY <2>1 DEF Life!lifeVars, Admitted, SharedHolders, tables, resetVars
<1> QED
  BY <1>1, <1>2

(* A worker's step moves one action forward or is seen by nobody.          *)
LEMMA WorkerRefines ==
  ASSUME WindowInvariant, WorkerStep
  PROVE  [Life!LifeNext]_(Life!lifeVars)
<1>1. CASE WorkerGuard
  <2>1. /\ UNCHANGED <<maintenance, request, tables, resetVars>>
        /\ worker = "idle" /\ worker' = IF maintenance THEN "idle" ELSE "window"
    BY <1>1 DEF WorkerGuard, Worker
  <2>2. CASE maintenance
    BY <2>1, <2>2 DEF Life!lifeVars, Admitted, SharedHolders, tables, resetVars
  <2>3. CASE ~maintenance
    <3>1. Life!Admit
      BY <2>1, <2>3 DEF Life!Admit, Admitted, tables, resetVars
    <3> QED
      BY <3>1 DEF Life!LifeNext
  <2> QED
    BY <2>2, <2>3
<1>2. CASE RunOnce
  <2>1. /\ Admitted /\ UNCHANGED <<maintenance, resetVars>>
    BY <1>2 DEF RunOnce, Worker, Admitted
  <2>2. CASE UNCHANGED tables
    <3>1. Life!Leave
      BY <2>1, <2>2 DEF Life!Leave, tables, resetVars
    <3> QED
      BY <3>1 DEF Life!LifeNext
  <2>3. CASE ~UNCHANGED tables
    <3>1. PICK a \in Actions :
            /\ state[a] = "CONFIRMED"
            /\ state' = [state EXCEPT ![a] = "SUCCEEDED"]
            /\ business' = business \cup {a} /\ audit' = audit \cup {a}
      BY <1>2, <2>3 DEF RunOnce
    <3>2. Recorded' = Recorded \cup {a}
      BY <2>1, <3>1 DEF Recorded, resetVars
    <3>3. <<state[a], "SUCCEEDED">> \in Life!Forward
      BY <3>1 DEF Life!Forward
    <3>4. Life!Move(a)
      BY <2>1, <3>1, <3>2, <3>3 DEF Life!Move, Recorded
    <3> QED
      BY <3>4 DEF Life!LifeNext
  <2> QED
    BY <2>2, <2>3
<1> QED
  BY <1>1, <1>2 DEF WorkerStep

(* The statements of the reset are stutters until its last commit, which   *)
(* replaces everything at once.                                            *)
LEMMA ResetRefines ==
  ASSUME WindowInvariant, StartReset \/ ResetStep \/ FailReset
  PROVE  [Life!LifeNext]_(Life!lifeVars)
<1>1. CASE StartReset
  <2>1. Life!StopServing
    BY <1>1 DEF StartReset, Life!StopServing, Admitted, SharedHolders, tables
  <2> QED
    BY <2>1 DEF Life!LifeNext
<1>2. ASSUME UNCHANGED <<maintenance, state, request, worker, Recorded>>
      PROVE  UNCHANGED Life!lifeVars
  BY <1>2 DEF Life!lifeVars, Admitted, SharedHolders, Recorded
<1>3. CASE TakeExclusive \/ DeleteRow \/ StatementDone
  <2>1. UNCHANGED <<maintenance, tables, request, worker, undo>>
    BY <1>3 DEF TakeExclusive, DeleteRow, StatementDone, Wipe
  <2> QED
    BY <1>2, <2>1 DEF tables, Recorded
<1>4. CASE DeleteUnlocked
  <2>1. UNCHANGED <<maintenance, state, request, worker>>
    BY <1>4 DEF DeleteUnlocked
  <2>2. CASE reset = "business"
    <3>1. /\ undo = NothingUndone /\ undo' = [undo EXCEPT !.business = business]
          /\ business' = {} /\ audit' = audit
      BY <1>4, <2>2 DEF DeleteUnlocked, WindowInvariant, StatementsInOrder
    <3>2. undo.business = {} /\ undo'.business = business /\ undo'.audit = undo.audit
      BY <3>1 DEF NothingUndone
    <3> QED
      BY <1>2, <2>1, <3>1, <3>2 DEF Recorded
  <2>3. CASE reset = "audits"
    <3>1. /\ undo.audit = {} /\ undo' = [undo EXCEPT !.audit = audit]
          /\ audit' = {} /\ business' = business
      BY <1>4, <2>3 DEF DeleteUnlocked, WindowInvariant, StatementsInOrder
    <3>2. undo'.audit = audit /\ undo'.business = undo.business
      BY <3>1 DEF WindowInvariant, WindowTypeOK
    <3> QED
      BY <1>2, <2>1, <3>1, <3>2 DEF Recorded
  <2> QED
    BY <1>4, <2>2, <2>3 DEF DeleteUnlocked
<1>5. CASE FinishReset
  <2>1. /\ state' = [a \in Actions |-> "NONE"] /\ audit = {} /\ business = {}
        /\ maintenance /\ SharedHolders = {} /\ worker = "idle"
    BY <1>5, CommitIsComplete
  <2>2. /\ maintenance' = FALSE /\ undo' = NothingUndone
        /\ UNCHANGED <<audit, business, request, worker>>
    BY <1>5 DEF FinishReset
  <2>3. Recorded' = {}
    BY <2>1, <2>2 DEF Recorded, NothingUndone
  <2>4. ~Admitted /\ ~Admitted'
    BY <2>1, <2>2 DEF Admitted, SharedHolders
  <2>5. ((~maintenance)' = TRUE) /\ ~~maintenance
    BY <2>1, <2>2
  <2>6. UNCHANGED Admitted
    BY <2>2 DEF Admitted, SharedHolders
  <2>7. Life!Restore
    BY <2>1, <2>3, <2>4, <2>5, <2>6, Zenon DEF Life!Restore, Recorded
  <2> QED
    BY <2>7 DEF Life!LifeNext
<1>6. CASE FailReset
  <2>1. /\ undo' = NothingUndone
        /\ business' = business \cup undo.business /\ audit' = audit \cup undo.audit
        /\ UNCHANGED <<maintenance, state, request, worker>>
    BY <1>6 DEF FailReset, Rollback
  <2>2. Recorded' = Recorded
    BY <2>1 DEF Recorded, NothingUndone
  <2> QED
    BY <1>2, <2>1, <2>2
<1> QED
  BY <1>1, <1>3, <1>4, <1>5, <1>6 DEF ResetStep

(* To everyone else the reset is one step, or none: work is admitted only  *)
(* while the demo serves, and when it serves again no action, no audit     *)
(* event and no business row of before is left (src/app/demo/service.py,   *)
(* src/app/api/demo.py), however requests, reads, the worker, failures of  *)
(* the reset and retries interleave.                                       *)
THEOREM ResetIsAtomic == Spec => ResetIsOneStep
<1>1. Init => Life!LifeInit
  BY DEF Init, Life!LifeInit, Admitted, SharedHolders, Idle
<1>2. WindowInvariant /\ [Next]_vars => [Life!LifeNext]_(Life!lifeVars)
  <2> SUFFICES ASSUME WindowInvariant, [Next]_vars
               PROVE  [Life!LifeNext]_(Life!lifeVars)
    OBVIOUS
  <2>1. CASE \E r \in Requests, kind \in Offered, a \in Actions : Arrive(r, kind, a)
    BY <2>1, RequestsRefine
  <2>2. CASE \E r \in Requests : RequestStep(r)
    BY <2>2, RequestsRefine, HandleRefines DEF RequestStep
  <2>3. CASE \/ \E g \in Readers, a \in Actions : Get(g, a)
             \/ \E g \in Readers : ReaderStep(g)
    BY <2>3, ReadersRefine
  <2>4. CASE \E a \in Actions : Lapse(a)
    BY <2>4 DEF Lapse, Life!lifeVars, Admitted, SharedHolders, resetVars
  <2>5. CASE WorkerStep
    BY <2>5, WorkerRefines
  <2>6. CASE StartReset \/ ResetStep \/ FailReset
    BY <2>6, ResetRefines
  <2>7. CASE UNCHANGED vars
    BY <2>7 DEF vars, tables, resetVars, Life!lifeVars, Admitted, SharedHolders
  <2> QED
    BY <2>1, <2>2, <2>3, <2>4, <2>5, <2>6, <2>7 DEF Next
<1> QED
  BY <1>1, <1>2, WindowHolds, PTL DEF Spec, ResetIsOneStep, Life!LifeSpec
=============================================================================
