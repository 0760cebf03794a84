SPECIFICATION FairSpec
CONSTANTS
  eng = eng
  des = des
  mkt = mkt
  Specs = {eng, des}
  Edges <- OneEdge
  Plans <- Pair
  MaxAttempts = 1
  RunBound = 1
  ConsolBound = 2
  Supervisors = {sup}
  Hazards = {"error", "overlap"}
  HazardBound = 1
PROPERTY
  RootCloses
CHECK_DEADLOCK FALSE
