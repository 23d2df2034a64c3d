SPECIFICATION FairSpec
CONSTANTS
  Callers = {c1}
  Limit = 2
  MaxEvents = 1
  MaxRuns = 2
  MaxAborts = 1
  MaxOutput = 3
INVARIANTS NothingLeft ReportedTruly
PROPERTY RunEnds
CHECK_DEADLOCK FALSE
