SPECIFICATION Spec
CONSTANTS
  v1 = v1
  Requests = {r1, r2}
  Visitors = {v1}
  VisitorOf <- MCOneVisitor
  MAX_MODEL_ROUNDS_PER_TURN = 2
  MAX_TOOL_CALLS_PER_TURN = 2
  Limit <- MCTight
  MaxCalls = 2
  MaxDay = 2
  Messages <- MCMessages
SYMMETRY Symmetry
INVARIANTS CeilingHolds ActionIsLatestDraft RefusalLeavesNothing
