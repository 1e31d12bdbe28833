SPECIFICATION FairSpec
CONSTANTS
  Actions = {a1}
  Requests = {r1, r2}
  Readers = {g1}
  PoolSize = 1
  MaxOverflow = 1
  PoolTimeout = 10
  Offered = {"query", "challenge", "confirm", "cancel"}
  MaxResets = 2
INVARIANT NoOrphan
PROPERTIES ResetIsOneStep ResetEnds
