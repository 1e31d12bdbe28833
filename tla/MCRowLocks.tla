----------------------------- MODULE MCRowLocks -----------------------------
(* Small instances of RowLocks: two requests, one of them asked for twice. *)
EXTENDS RowLocks, TLC

CONSTANTS a1, a2, a3, k1, k2

MCKeyOf == [a \in Action |-> IF a = a2 THEN k2 ELSE k1]

Symmetry == Permutations(Client)
=============================================================================
