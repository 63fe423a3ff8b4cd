\* Two users, one ticket that either can name, two payments.  The instants, as they
\* are stored: Thursday 17:29, 17:30 (23:00 IST), 22:30, 22:59 and 23:00, Friday
\* 00:00, Saturday 10:29, Monday 09:30, and a Sunday a month later.
CONSTANTS
  Tickets = {k1}
  Users = {u1, u2}
  Amounts = {90, 105, 200}
  Mentions = {0, 2, 100}
  Instants = {5369, 5370, 5670, 5699, 5700, 5760, 7829, 10650, 49900}
  MaxTxns = 2
  Null = Null
SPECIFICATION Spec
INVARIANTS
  TypeOK
  OwnTransactions
  BatchDeadlines
  ReversalDeadlines
  SureIsRelevant
SYMMETRY Symmetric
CHECK_DEADLOCK FALSE
