SPECIFICATION FairSpec
CONSTANTS
  RequiredSamples = 2
  BaselineTime = 2
  LeaseTTL = 3
  SampleMin = 1
  SampleMax = 2
  Freshness = 1
  MaxTime = 20
  Owners = {1}
  Runners = {r1}
  Pids = {p1, p2}
  Inodes = {1, 2}
  Delays = {1, 2}
  Shown = {"failed", "system_cool", "system_hot", "manual_cool"}
  MaxFaults = 3
INVARIANTS
  ManualIsMarked
PROPERTIES
  RecoveredIsFinal
  RunnersEnd
  OrphansEnd
  ImplementsProtocol
