\* Two tickets, two rules, two modes: a window of one day out of four, and one trace
\* more than a page reads.
CONSTANTS
  Tickets = {k1, k2}
  Rules = {r1, r2}
  Scores = {1, 3}
  Modes = {m1, m2}
  Days = 1
  TraceLimit = 2
  Count = 2
  MaxRows = 3
  MaxRatings = 2
  MaxFaults = 1
  Horizon = 3
  Null = Null
SPECIFICATION Spec
INVARIANTS
  TypeOK
  RatingsNeverGoBack
  NoRatingCountsTwice
  EveryClusterSampled
  TimelineCountsModes
SYMMETRY Symmetric
CHECK_DEADLOCK FALSE
