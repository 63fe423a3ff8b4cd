\* The page of a patient and of an impatient user: two messages, two requests,
\* two clicks, and every kind of event that no click causes.
CONSTANTS
  Tickets = {k1, k2}
  Calls = {c1, c2}
  Nowhere = Nowhere
  ListSize = 1
  MaxSends = 2
  MaxClicks = 2
  MaxEvents = 4
  Null = Null
SPECIFICATION Spec
INVARIANTS
  TypeOK
  HandledAtMostOnce
  TypingOnlyWhileBusy
  ShownIsCurrent
  OneTicketPerConversation
  HeaderTellsStatus
  SidebarIsComplete
  QuestionsAreSettled
SYMMETRY Symmetric
CHECK_DEADLOCK FALSE
