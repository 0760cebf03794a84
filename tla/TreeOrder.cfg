SPECIFICATION Spec
CONSTANTS
  eng = eng
  des = des
  mkt = mkt
  Specs = {eng, des, mkt}
  Edges <- Join
  Plans <- Triple
  MaxAttempts = 1
  RunBound = 1
  ConsolBound = 1
  Supervisors = {sup}
  Hazards = {"error", "cut", "rob"}
  HazardBound = 2
INVARIANTS
  TypeOK
  DagOrder
PROPERTY
  ImplementsOwnership
CHECK_DEADLOCK FALSE
