SPECIFICATION FairSpec
CONSTANTS
  push1 = push1
  push2 = push2
  push3 = push3
  upd1 = upd1
  upd2 = upd2
  closed = closed
  snap1 = snap1
  snap2 = snap2
  snap3 = snap3
  plain = plain
  risky = risky
  rule = rule
  app = app
  lib = lib
  NoWork = NoWork
  Signals <- MCSignals
  Scans <- MCScans
  Demands = {plain, risky}
  Critical = {risky}
  Rules = {rule}
  Repos = {app, lib}
  RepoOf <- MCRepoOf
  Policy <- MCPolicy
  Hash <- MCHash
  Identity <- MCIdentity
  Context <- MCContext
  Workloads <- MCWorkloads
  Handlers = {h1, h2}
  HistoryTake = 1
  EventBound = 1
INVARIANTS
  TypeOK
  OneMissionPerWork
  ConvertedAsDecided
  SkippedWorkWasDone
  DemandNeedsApproval
  DemandReflectsMission
  OnlyRacesStrand
PROPERTIES
  SignalIsSettled
  ChangeIsSignalled
  RuleIsServed
CHECK_DEADLOCK FALSE
