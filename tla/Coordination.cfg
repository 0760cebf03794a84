SPECIFICATION FairSpec
CONSTANTS
  esc = esc
  stalled = stalled
  congested = congested
  NoKey = NoKey
  Dispatchers = {s1, s2}
  Keys = {esc, stalled, congested}
  Exhausted = {esc}
  Start = {esc, congested}
  Scopes = {{esc, stalled}, {congested}}
  Objectives <- MCObjectives
  EventBound = 2
INVARIANTS
  TypeOK
  HolderIsExclusive
  LatchedOnce
PROPERTIES
  DedupeHolds
  EscalationStays
  ContextIsServed
CHECK_DEADLOCK FALSE
