\* Two chat turns, the stage 2 endpoints and both jobs on one ticket.
CONSTANTS
  Tickets = {k1}
  Turns = {h1, h2}
  Resolvable = {UPI_FAILURE}
  FollowupRunners = {"cron"}
  AutocloseRunners = {"cron"}
  Deadlines = {0}
  Grace = 1
  PatternWindow = 1
  PatternThreshold = 1
  MaxUnclear = 2
  MaxAttempts = 2
  KeepExchanges = 3
  Serialized = FALSE
  Horizon = 2
  MaxRequests = 3
  MaxAnswers = 1
  MaxFaults = 1
  Null = Null
SYMMETRY Symmetry
SPECIFICATION Spec
INVARIANTS
  PendingHasFollowup
  OneFollowupPerTicket
  FollowupsAreOfDatedTickets
  RiskyCardEscalates
CHECK_DEADLOCK FALSE
