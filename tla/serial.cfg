\* One operation at a time: what each handler and each job promises alone.
CONSTANTS
  Tickets = {k1}
  Turns = {h1}
  Resolvable = {UPI_FAILURE, POT_WITHDRAWAL}
  FollowupRunners = {"cron"}
  AutocloseRunners = {"trigger"}
  Deadlines = {1, 2}
  Grace = 1
  PatternWindow = 1
  PatternThreshold = 1
  MaxUnclear = 2
  MaxAttempts = 3
  KeepExchanges = 3
  Serialized = TRUE
  Horizon = 4
  MaxRequests = 4
  MaxAnswers = 2
  MaxFaults = 1
  Null = Null
SYMMETRY Symmetry
SPECIFICATION Spec
INVARIANTS
  TypeOK
  DeadlineKeepsCategory
  ClarifiedAtMost
  AwaitingMeansYes
PROPERTIES
  ContractSpec
CHECK_DEADLOCK FALSE
