SPECIFICATION ClientSpec
CONSTANTS
  c1 = c1
  c2 = c2
  p1 = p1
  p2 = p2
  Clients = {c1, c2}
  Bridge = c1
  Pids = {p1, p2}
  Inodes = {1}
  MayFail = FALSE
  MaxFaults = 1
  MaxPolls = 1
  MaxOthers = 1
PROPERTIES ResultIsOwn CommandReturns LeavesNoRunner
