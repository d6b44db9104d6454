SPECIFICATION Spec
CONSTANTS
  s1 = s1
  s2 = s2
  n1 = n1
  Servers = {s1, s2}
  Nodes = {n1}
  None = None
  Forbid = FALSE
  Retries = 0
  MaxDispatches = 1
  MaxGroups = 1
  MaxKeys = 1
  MaxFaults = 3
PROPERTY NotDispatchedAgain
