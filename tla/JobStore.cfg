SPECIFICATION Spec
CONSTANTS
  JobIds = {j1, j2, j3}
  NoJob = NoJob
  Keys = {k1, k2}
  NoKey = NoKey
  Prints = {p1, p2}
  Retention = 0
  MaxTime = 2
SYMMETRY JobSymmetry
INVARIANTS
  TypeOK
  KeyMapConsistent
  ForgottenOnlyAfterRetention
  OnceWithinRetention
PROPERTY ImplementsKeyedWork
CHECK_DEADLOCK FALSE
