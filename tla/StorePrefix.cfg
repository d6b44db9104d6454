SPECIFICATION Spec
CONSTANTS
  a = a
  ab = ab
  c = c
  Jobs = {a, ab}
  NoParent = NoParent
  NoJob = NoJob
  NamesFrom <- PrefixNames
  Schedules = {"s"}
  Keys <- ExecutionKeys
  NoExecution = NoExecution
  JobOf <- ExecutionJob
  GroupOf <- ExecutionGroup
  NodeOf <- ExecutionNode
  MaxExecutions = 1
  MaxTime = 3
  MaxCount = 2
  MaxStat = 3
  MaxOccurrences = 2
  Days = {1}
  DayOf <- OneDay
  NextTimes = {0}
  PayloadDependents <- CleanDependents
  PayloadResults <- FreshResults
PROPERTY ExecutionsGoWithCounters
CHECK_DEADLOCK FALSE
