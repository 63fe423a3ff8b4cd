\* Two turns on one ticket: a turn undoes the escalation it did not see.
CONSTANTS
  Tickets = {k1}
  Turns = {h1, h2}
  Resolvable = {UPI_FAILURE}
  FollowupRunners = {}
  AutocloseRunners = {}
  Deadlines = {0}
  Grace = 1
  PatternWindow = 1
  PatternThreshold = 1
  MaxUnclear = 2
  MaxAttempts = 2
  KeepExchanges = 3
  Serialized = FALSE
  Horizon = 2
  MaxRequests = 3
  MaxAnswers = 0
  MaxFaults = 0
  Null = Null
SPECIFICATION Spec
PROPERTIES
  EscalationSticks
CHECK_DEADLOCK FALSE
