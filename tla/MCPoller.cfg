SPECIFICATION ProgressSpec
CONSTANTS
  older = older  raiser = raiser  sick = sick  sound = sound
  Action = {older, raiser, sick, sound}
  Worker = {w1}
  Nobody = Nobody
  ConfirmedAt <- MCConfirmedAt
  Trouble <- MCTrouble
  Cancellable = {sound}
  PollSeconds = 20
  CooldownInitial = 1
  CooldownCap = 40
  OutageInitial = 1
  OutageCap = 100
  MaxFaults = 1
INVARIANT OutcomeIsReal
PROPERTY YoungerProgresses
