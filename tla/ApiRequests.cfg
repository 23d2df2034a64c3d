SPECIFICATION FairSpec
CONSTANTS
  Deliveries = {d1, d2}
  Keys = {k1, k2}
  Ops = {"session", "plan", "update", "validate", "run", "decide"}
  MaxRestarts = 1
  MaxMoves = 1
  MaxExpiries = 1
INVARIANTS OncePerKey AnswersAgree ClonesMatchSessions
PROPERTIES RunAsConfirmed PlannedOnHead 
CHECK_DEADLOCK FALSE
