SPECIFICATION Spec
CONSTANTS
  m1 = m1
  m2 = m2
  ana = ana
  bia = bia
  w1 = w1
  w2 = w2
  Missions = {m1, m2}
  Roots = {}
  Employees = {ana, bia}
  Serves <- AllServe
  MaxAttempts <- OneAttempt
  PurgeAttempts = 3
  Pinned = {}
  ClaimBound = 2
  NoOne = NoOne
  Workers = {w1, w2}
  EmployeeOf <- OwnEmployee
  Recoverers = {r1}
  Nobody = Nobody
  NoRow = NoRow
  Faults = {"crash", "stop"}
PROPERTY
  BeatingRunIsNotListed
SYMMETRY MissionSymmetry
CHECK_DEADLOCK FALSE
