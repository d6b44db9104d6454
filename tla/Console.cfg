SPECIFICATION Spec
CONSTANTS
  Jobs = {a}
  NoJob = NoJob
  Configs = {x, y}
  Tokens = {t}
  NoToken = NoToken
  Pages <- ConsolePages
  MaxRequests = 2
  MaxLag = 1
  MaxWrites = 2
INVARIANT TypeOK
INVARIANT ButtonsMatchRequests
INVARIANT OwnWritesShown
PROPERTY EditsLostOnlyToRaces
CHECK_DEADLOCK FALSE
