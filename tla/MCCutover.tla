------------------------------ MODULE MCCutover ------------------------------
(* Three actions, of which the first two ask for the same leave.           *)
EXTENDS ExecutionCutover
CONSTANTS k1, k2
MCKeyOf == [a \in 1 .. N |-> IF a <= 2 THEN k1 ELSE k2]
=============================================================================
