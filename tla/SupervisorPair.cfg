SPECIFICATION Spec
CONSTANTS
  RequiredSamples = 2
  BaselineTime = 1
  LeaseTTL = 4
  SampleMin = 1
  SampleMax = 1
  Freshness = 1
  MaxTime = 12
  Owners = {1}
  Runners = {r1, r2}
  Pids = {p1, p2}
  Inodes = {1, 2, 3}
  Delays = {1}
  Shown = {"failed", "system_cool"}
  MaxFaults = 1
SYMMETRY MCSymmetry
INVARIANTS
  AtMostOneWorker
  GrantedIsRecorded
