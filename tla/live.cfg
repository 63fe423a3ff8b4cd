\* Progress under fairness, with one failure or restart at any point.
CONSTANTS
  Tickets = {k1, k2}
  Turns = {h1}
  Resolvable = {UPI_FAILURE}
  FollowupRunners = {"cron", "trigger"}
  AutocloseRunners = {"cron"}
  Deadlines = {0}
  Grace = 1
  PatternWindow = 1
  PatternThreshold = 1
  MaxUnclear = 2
  MaxAttempts = 2
  KeepExchanges = 3
  Serialized = FALSE
  Horizon = 2
  MaxRequests = 2
  MaxAnswers = 0
  MaxFaults = 1
  Null = Null
SPECIFICATION FairSpec
INVARIANTS
  FollowupsBoundedByRunners
PROPERTIES
  OverdueLeavesOpen
  TurnsEnd
CHECK_DEADLOCK FALSE
