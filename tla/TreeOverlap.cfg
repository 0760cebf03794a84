SPECIFICATION Spec
CONSTANTS
  eng = eng
  des = des
  mkt = mkt
  Specs = {eng, des}
  Edges <- OneEdge
  Plans <- Pair
  MaxAttempts = 1
  RunBound = 1
  ConsolBound = 1
  Supervisors = {sup}
  Hazards = {"overlap"}
  HazardBound = 0
INVARIANT
  DagOrder
CHECK_DEADLOCK FALSE
