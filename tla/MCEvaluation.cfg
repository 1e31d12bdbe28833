SPECIFICATION EvalSpec
CONSTANTS
    CaseOrder <- MCCaseOrder
    Gold <- MCGold
    Hashed = {h1, h2}
    Unhashed = {u1, u2}
    MaxFaults = 2
    MaxHarm = 1
    MaxCrashes = 1
    MaxEdits = 1
    MaxFresh = 1
INVARIANT ReportCanBeTrusted
SYMMETRY MCSymmetry
PROPERTY CompletedIsKept
CHECK_DEADLOCK FALSE
