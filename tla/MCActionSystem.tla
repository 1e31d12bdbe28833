---------------------------- MODULE MCActionSystem ----------------------------
(***************************************************************************)
(* Instances of ActionSystem for TLC.  emp owns every request: l1, l2 and  *)
(* l3 are leave requests, t1 is an IT ticket request.                      *)
(***************************************************************************)
EXTENDS ActionSystem, TLC

CONSTANTS l1, l2, emp

MCKeyOwner == [k \in RequestKey |-> emp]
MCSessionOwner == [s \in Session |-> emp]

(* l1 and l2 share a day, l3 shares none but asks for as many hours as the *)
(* balance holds; the last authority prices every request higher.          *)
MCDays ==
  [k \in LeaveKey |-> CASE k = l1 -> {1, 2} [] k = l2 -> {2, 3} [] OTHER -> {4, 5, 6}]
MCHours ==
  [k \in LeaveKey |-> [v \in 0 .. MaxAuthority |->
     (CASE k = l1 -> 1 [] k = l2 -> 2 [] OTHER -> 3) + v]]
MCBalance == [e \in Owner |-> 3]

MCSymmetry ==
  Permutations(ActionId) \cup Permutations(ChallengeId)
    \cup Permutations(Worker) \cup Permutations(Preparer)
    \cup Permutations(Content)
=============================================================================
