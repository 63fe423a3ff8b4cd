\* One user, who makes a second payment.
CONSTANTS
  Tickets = {k1}
  Users = {u1}
  Amounts = {90}
  Mentions = {0}
  Instants = {5670, 5699}
  MaxTxns = 2
  Null = Null
SPECIFICATION Spec
PROPERTIES
  TracksOnePayment
CHECK_DEADLOCK FALSE
