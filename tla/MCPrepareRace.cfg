SPECIFICATION Spec
CONSTANTS
  LeaveKey = {l1}
  RequestKey = {l1}
  Owner = {emp}
  Session = {s1}
  Content = {c1}
  KeyOwner <- MCKeyOwner
  SessionOwner <- MCSessionOwner
  Days <- MCDays
  Hours <- MCHours
  Balance <- MCBalance
  ActionTTL = 2
  ChallengeTTL = 1
  ConfirmedTTL = 1
  MaxTime = 2
  MaxRevision = 1
  MaxAuthority = 0
  Nobody = Nobody
  NoAction = NoAction
  NoKey = NoKey
  NoDraft = NoDraft
  NoRow = NoRow
  ActionId = {a1, a2, a3, a4}
  ChallengeId = {h1}
  Worker = {w1}
  Preparer = {p1, p2}
  MaxFaults = 1
  l1 = l1
  l2 = l2
  emp = emp
SYMMETRY MCSymmetry
INVARIANTS
  TypeOK
  OneOccupantPerRequest
PROPERTIES
  ReusedLeaveIsLive
