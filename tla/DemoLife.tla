------------------------------ MODULE DemoLife ------------------------------
(***************************************************************************)
(* What the public demo promises about its data, without locks, tables,    *)
(* connections or a worker: while it serves, work is admitted and moves    *)
(* actions forward; once it stops serving only what was admitted finishes, *)
(* and it serves again from the baseline, which replaces everything in one *)
(* step.  An action may expire at any time.                                *)
(***************************************************************************)
CONSTANT Actions

VARIABLES
  serving,    \* the demo takes work
  admitted,   \* some work is inside
  fate,       \* the state of each action
  recorded    \* the actions the audit trail and the business rows speak of

lifeVars == <<serving, admitted, fate, recorded>>

Forward == {<<"NONE", "AWAITING">>, <<"AWAITING", "CONFIRMED">>,
            <<"AWAITING", "CANCELLED">>, <<"CONFIRMED", "SUCCEEDED">>}

LifeInit ==
  /\ serving = TRUE /\ admitted = FALSE
  /\ fate = [a \in Actions |-> "NONE"]
  /\ recorded = {}

Admit ==
  /\ serving
  /\ admitted' = TRUE
  /\ UNCHANGED <<serving, fate, recorded>>

(* Work that ends may be the last inside.                                  *)
Leave == admitted /\ UNCHANGED <<serving, fate, recorded>>

Move(a) ==
  /\ admitted
  /\ \/ UNCHANGED fate
     \/ \E s \in {"AWAITING", "CONFIRMED", "CANCELLED", "SUCCEEDED"} :
          <<fate[a], s>> \in Forward /\ fate' = [fate EXCEPT ![a] = s]
  /\ recorded' = recorded \union {a}
  /\ UNCHANGED serving

Expire(a) ==
  /\ fate[a] = "AWAITING"
  /\ fate' = [fate EXCEPT ![a] = "EXPIRED"]
  /\ recorded' = recorded \union {a}
  /\ UNCHANGED <<serving, admitted>>

StopServing == serving' = FALSE /\ UNCHANGED <<admitted, fate, recorded>>

Restore ==
  /\ ~serving /\ ~admitted
  /\ serving' = TRUE
  /\ fate' = [a \in Actions |-> "NONE"]
  /\ recorded' = {}
  /\ UNCHANGED admitted

LifeNext ==
  \/ Admit \/ Leave \/ StopServing \/ Restore
  \/ \E a \in Actions : Move(a) \/ Expire(a)

LifeSpec == LifeInit /\ [][LifeNext]_lifeVars
=============================================================================
