SPECIFICATION PSpec
CONSTANTS
  LeaveKey = {}
  RequestKey = {t1}
  Owner = {emp, other}
  Session = {s1, intruder}
  Content = {c1, c2}
  KeyOwner <- MCKeyOwner
  SessionOwner <- MCSessionOwner
  Days <- MCDays
  Hours <- MCHours
  Balance <- MCBalance
  ActionTTL = 1
  ChallengeTTL = 1
  ConfirmedTTL = 1
  MaxTime = 1
  MaxRevision = 2
  MaxAuthority = 0
  Nobody = Nobody
  NoAction = NoAction
  NoKey = NoKey
  NoDraft = NoDraft
  NoRow = NoRow
  ActionId = {a1, a2}
  ChallengeId = {h1}
  Worker = {w1}
  Preparer = {p1}
  MaxFaults = 0
  emp = emp
  ListLimit = 1
  intruder = intruder
SYMMETRY MCSymmetry
INVARIANTS
  ActiveChallengeIsCurrent
  ExecutedAsConfirmed
  ConfirmedByConsent
  PageFitsTogether
PROPERTIES
  TerminalIsFinal
  ReusedTicketIsCurrent
