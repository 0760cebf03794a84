SPECIFICATION Spec
CONSTANTS
  m1 = m1
  m2 = m2
  ana = ana
  bia = bia
  w1 = w1
  w2 = w2
  Missions = {m1}
  Roots = {m1}
  Employees = {ana}
  Serves <- AllServe
  MaxAttempts <- ThreeAttempts
  PurgeAttempts = 2
  Pinned = {m1}
  ClaimBound = 3
  NoOne = NoOne
  Workers = {w1, w2}
  EmployeeOf <- SharedEmployee
  Recoverers = {r1}
  Nobody = Nobody
  NoRow = NoRow
  Faults = {"crash", "db", "late", "stop", "supervisor"}
INVARIANTS
  TypeOK
  LeaseIsExclusive
  HolderIsLastClaimant
  OneRecoveryPerClaim
  FailedIsExhausted
PROPERTIES
  OnlyTheHolderSettles
  SettledIsFinal
  ImplementsOwnership
SYMMETRY WorkerSymmetry
CHECK_DEADLOCK FALSE
