SPECIFICATION FairSpec
CONSTANTS
  s1 = s1
  s2 = s2
  n1 = n1
  Servers = {s1, s2}
  Nodes = {n1}
  None = None
  Forbid = TRUE
  Retries = 1
  MaxDispatches = 1
  MaxGroups = 1
  MaxKeys = 4
  MaxFaults = 1
INVARIANTS
  ExactWithoutFaults
  RunsAreSeen
PROPERTIES
  CallsEnd
  ForbidUnblocks
