SPECIFICATION Spec
CONSTANTS
  a = a
  ab = ab
  c = c
  Jobs = {a, ab, c}
  NoParent = NoParent
  NoJob = NoJob
  NamesFrom <- PrefixNames
  Schedules = {"s"}
  Keys <- NoKeys
  NoExecution = NoExecution
  JobOf <- NoFunction
  GroupOf <- NoFunction
  NodeOf <- NoFunction
  MaxExecutions = 1
  MaxTime = 0
  MaxCount = 0
  MaxStat = 0
  MaxOccurrences = 2
  Days = {1}
  DayOf <- OneDay
  NextTimes = {0}
  PayloadDependents <- ListingDependents
  PayloadResults <- FreshResults
INVARIANT ParentKnowsChild
CHECK_DEADLOCK FALSE
INVARIANT DiagramShowsFamily
INVARIANT DrawingIsReadable
INVARIANT ArrowsJoinParentAndChild
INVARIANT ArrowsPointDown
INVARIANT RestoreIsAllOrNothing
INVARIANT RestoreIsIdempotent
