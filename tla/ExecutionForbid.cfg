SPECIFICATION Spec
CONSTANTS
  s1 = s1
  s2 = s2
  n1 = n1
  Servers = {s1}
  Nodes = {n1}
  None = None
  Forbid = TRUE
  Retries = 0
  MaxDispatches = 0
  MaxGroups = 2
  MaxKeys = 2
  MaxFaults = 0
INVARIANT NeverTwoRuns
