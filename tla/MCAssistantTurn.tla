--------------------------- MODULE MCAssistantTurn ---------------------------
(* Two turns of one visitor, whose allowances cannot serve both.           *)
EXTENDS AssistantTurn, TLC
CONSTANT v1

MCOneVisitor == [r \in Requests |-> v1]
(* One turn of two rounds fits the provider's day, and one action.         *)
MCTight ==
  [visitor_assistant |-> 2, assistant |-> 2, action_prepare |-> 1, provider_operation |-> 3]
MCMessages == {{"yes"}, {"next weekday", "initiation"}}
Symmetry == Permutations(Requests)
=============================================================================
