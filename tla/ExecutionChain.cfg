SPECIFICATION Spec
CONSTANTS
  s1 = s1
  s2 = s2
  n1 = n1
  Servers = {s1}
  Nodes = {n1}
  None = None
  Forbid = FALSE
  Retries = 1
  MaxDispatches = 0
  MaxGroups = 1
  MaxKeys = 2
  MaxFaults = 0
INVARIANT ChainFollowsSuccess
