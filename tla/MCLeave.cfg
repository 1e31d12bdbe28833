SPECIFICATION Spec
CONSTANTS
  alex = alex  sydney = sydney
  Employee = {alex, sydney}
  Jurisdiction <- MCJurisdiction
  Pattern <- MCPattern
  Base = 3800
  Request <- MCRequest
INVARIANT HoursAreRight
PROPERTY LiveAuthorityDecides
