SPECIFICATION Spec
CONSTANTS
  eng = eng
  des = des
  mkt = mkt
  Specs = {eng, des}
  Edges <- OneEdge
  Plans <- Pair
  MaxAttempts = 1
  RunBound = 1
  ConsolBound = 2
  Supervisors = {sup}
  Hazards = {}
  HazardBound = 0
INVARIANT
  OneOpenConsolidation
CHECK_DEADLOCK FALSE
