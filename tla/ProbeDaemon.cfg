SPECIFICATION FairSpec
CONSTANTS
  c1 = c1
  c2 = c2
  p1 = p1
  p2 = p2
  Clients = {c1, c2}
  Pids = {p1, p2}
  Inodes = {1, 2, 3}
  MayFail = TRUE
  MaxFaults = 1
INVARIANTS AtMostOneProbe RunnerHasItsOwner
PROPERTIES SuccessWasOwned AbandonedEnds
