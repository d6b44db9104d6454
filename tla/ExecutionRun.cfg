SPECIFICATION Spec
CONSTANTS
  s1 = s1
  s2 = s2
  n1 = n1
  Servers = {s1, s2}
  Nodes = {n1}
  None = None
  Forbid = TRUE
  Retries = 0
  MaxDispatches = 1
  MaxGroups = 2
  MaxKeys = 3
  MaxFaults = 1
INVARIANTS
  TypeOK
  ResultsAreReal
  DependentsFollowResults
