SPECIFICATION FairSpec
CONSTANTS
  Tasks = {t1, t2}
  Parts <- MCParts
  Size <- MCSize
  Quota = 7
  MaxFaults = 1
  MaxCrashes = 1
INVARIANTS RowsReadable AllOrNothing StartedHasPolicy
PROPERTY WritersEnd
CHECK_DEADLOCK FALSE
