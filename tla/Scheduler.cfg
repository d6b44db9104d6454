SPECIFICATION Spec
CONSTANTS
  Jobs = {a}
  Schedules = {s1, s2}
  Off = Off
  NoJob = NoJob
  Handlers = {h1, h2}
  Loop = Loop
  MaxTerms = 2
  MaxWrites = 2
  MaxFailures = 1
INVARIANT TypeOK
INVARIANT CronOnlyInTerm
INVARIANT EntriesFollowStore
PROPERTY StableLeaderSchedules
CHECK_DEADLOCK FALSE
PROPERTY ImplementsTerm
