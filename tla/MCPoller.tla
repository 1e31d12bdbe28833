------------------------------ MODULE MCPoller ------------------------------
(* A small instance of ConfirmedPoller: older and raiser raise every time,  *)
(* two polls fill the longest cooldown, sick meets an SQL error every time, *)
(* sound is confirmed last and nothing is wrong with it.                    *)
EXTENDS ConfirmedPoller, TLC

CONSTANTS older, raiser, sick, sound

MCConfirmedAt == older :> 1 @@ raiser :> 2 @@ sick :> 3 @@ sound :> 4
MCTrouble ==
  older :> "raises" @@ raiser :> "raises" @@ sick :> "sql_error" @@ sound :> "none"
=============================================================================
