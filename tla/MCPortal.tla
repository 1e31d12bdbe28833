------------------------------- MODULE MCPortal -------------------------------
(* An instance of PortalReads: one employee's ticket request is edited,    *)
(* prepared again and read.  The session named intruder belongs to another *)
(* employee.                                                               *)
EXTENDS PortalReads, TLC

CONSTANTS emp, intruder

MCKeyOwner == [k \in RequestKey |-> emp]
MCSessionOwner ==
  [s \in Session |-> IF s = intruder THEN CHOOSE e \in Owner : e # emp ELSE emp]
MCDays == [k \in LeaveKey |-> {}]
MCHours == [k \in LeaveKey |-> [v \in 0 .. MaxAuthority |-> 0]]
MCBalance == [e \in Owner |-> 0]

MCSymmetry ==
  Permutations(ActionId) \cup Permutations(ChallengeId) \cup Permutations(Content)
=============================================================================
