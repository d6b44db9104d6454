SPECIFICATION ReplicaSpec
CONSTANTS
  a = a
  c = c
  Jobs = {a, c}
  NoParent = NoParent
  NoJob = NoJob
  NamesFrom <- OwnNames
  Schedules = {"s"}
  Keys <- ExecutionKeys
  NoExecution = NoExecution
  JobOf <- ExecutionJob
  GroupOf <- ExecutionGroup
  MaxExecutions = 1
  MaxTime = 3
  MaxCount = 5
  MaxStat = 5
  MaxOccurrences = 4
  Days = {1}
  DayOf <- OneDay
  NextTimes = {0}
  PayloadDependents <- CleanDependents
  PayloadResults <- FreshResults
  Script <- AllCommands
  NoSnapshot = NoSnapshot
  MaxLog = 4
  Lagging = FALSE
INVARIANT CaughtUpAgrees
CHECK_DEADLOCK FALSE
