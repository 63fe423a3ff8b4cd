\* Two overlapping runs of the analysis over two days, with one failure or restart.
CONSTANTS
  Tickets = {k1}
  Patterns = {p1, p2}
  Runs = {r1, r2}
  MinSizes = {1, 2}
  MaxJudged = 1
  Day = 2
  Horizon = 2
  MaxTraces = 2
  MaxRuns = 2
  MaxFaults = 1
SYMMETRY Symmetry
SPECIFICATION Spec
INVARIANTS
  TypeOK
  OneCheckpointADay
  CountedOncePerCheckpoint
  FoundIsSuggested
CHECK_DEADLOCK FALSE
