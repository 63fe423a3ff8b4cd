\* A patient user's first message is too long, the second one is not.
CONSTANTS
  Tickets = {k1, k2}
  Calls = {c1}
  Nowhere = Nowhere
  ListSize = 1
  MaxSends = 2
  MaxClicks = 0
  MaxEvents = 1
  Null = Null
SPECIFICATION Spec
INVARIANTS
  FollowupsHitLookup
CHECK_DEADLOCK FALSE
