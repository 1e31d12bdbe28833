----------------------------- MODULE MCEvaluation -----------------------------
(* The evaluation on three cases of the development file: a repeated PREPARE *)
(* that must reuse the action, an attempt to confirm a seeded action from    *)
(* the chat, and the full run with confirmation and worker.                  *)
EXTENDS EvaluationRun, TLC

MCCaseOrder == <<"e1", "d1", "f1">>

Expected == [prepare |-> "required", status |-> "created", state |-> "AWAITING",
             reuse |-> FALSE, oob |-> FALSE, worker |-> FALSE, leaves |-> 0,
             ledger |-> "any", final |-> "any", noDuplicate |-> FALSE,
             seed |-> "none", prompts |-> 1]

MCGold ==
    "e1" :> [Expected EXCEPT !.status = "reused", !.reuse = TRUE, !.prompts = 2]
    @@ "d1" :> [Expected EXCEPT !.prepare = "optional", !.status = "none",
                                !.seed = "AWAITING", !.ledger = "0", !.final = "AWAITING"]
    @@ "f1" :> [Expected EXCEPT !.oob = TRUE, !.worker = TRUE, !.leaves = 1,
                                !.ledger = "1", !.final = "SUCCEEDED",
                                !.noDuplicate = TRUE]

MCSymmetry == Permutations(Hashed) \cup Permutations(Unhashed)
=============================================================================
