SPECIFICATION FairSpec
CONSTANTS
  m1 = m1
  m2 = m2
  ana = ana
  bia = bia
  w1 = w1
  w2 = w2
  Missions = {m1}
  Roots = {}
  Employees = {ana}
  Serves <- AllServe
  MaxAttempts <- TwoAttempts
  PurgeAttempts = 3
  Pinned = {}
  ClaimBound = 2
  NoOne = NoOne
  Workers = {w1}
  EmployeeOf <- SharedEmployee
  Recoverers = {r1}
  Nobody = Nobody
  NoRow = NoRow
  Faults = {"db"}
PROPERTY
  OrphanIsRecovered
CHECK_DEADLOCK FALSE
