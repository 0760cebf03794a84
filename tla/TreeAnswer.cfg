SPECIFICATION FairSpec
CONSTANTS
  eng = eng
  des = des
  mkt = mkt
  Specs = {eng, des}
  Edges <- OneEdge
  Plans <- DirectOrPair
  MaxAttempts = 2
  RunBound = 2
  ConsolBound = 2
  Supervisors = {sup}
  Hazards = {"error", "abort", "cut"}
  HazardBound = 1
INVARIANT
  ConsolidateAfterChildren
PROPERTIES
  ImplementsAnswer
  ImplementsOwnership
  RootCloses
CHECK_DEADLOCK FALSE
