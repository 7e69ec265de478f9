SPECIFICATION Spec
CONSTANTS
  c1 = c1
  p1 = p1
  Clients = {c1}
  Pids = {p1}
  Inodes = {1, 2}
  MayFail = FALSE
  MaxFaults = 1
PROPERTIES CleanupIsStaged
