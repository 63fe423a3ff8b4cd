--------------------------- MODULE TicketContract ---------------------------
(***************************************************************************)
(* What the ticket table promises to the customer and to the team: which   *)
(* changes of status there are, and on whose word.  TicketLifecycle        *)
(* implements it as long as operations on the tables do not overlap.       *)
(***************************************************************************)
CONSTANT Tickets

VARIABLES
  status,  \* the ticket's status, "absent" before its first message
  asked    \* a stage 2 question is on record for the ticket

vars == <<status, asked>>

Init ==
  /\ status = [k \in Tickets |-> "absent"]
  /\ asked  = [k \in Tickets |-> FALSE]

Move(k, from, to) ==
  /\ status[k] \in from
  /\ status' = [status EXCEPT ![k] = to]

Live == {"open", "pending_confirmation", "awaiting_timeline",
         "escalated", "resolved", "auto_closed"}

\* The first message of a conversation opens a ticket.
Open(k) == Move(k, {"absent"}, "open") /\ UNCHANGED asked

\* A person takes over, whatever the ticket's status.
Escalate(k) == Move(k, Live, "escalated") /\ UNCHANGED asked

\* The customer says that the money arrived; only the customer resolves.
CustomerConfirms(k) ==
  /\ Move(k, Live, "awaiting_timeline") \/ Move(k, Live, "resolved")
  /\ UNCHANGED asked

\* The question is put on record once, and only for an open ticket ...
RecordQuestion(k) ==
  /\ status[k] = "open" /\ ~asked[k]
  /\ asked' = [asked EXCEPT ![k] = TRUE]
  /\ UNCHANGED status

\* ... and the ticket waits for an answer only once it is on record.
AwaitAnswer(k) ==
  /\ asked[k] /\ Move(k, {"open"}, "pending_confirmation")
  /\ UNCHANGED asked

\* Only a ticket that waits for its deadline or for an answer is closed.
Close(k) ==
  Move(k, {"open", "pending_confirmation"}, "auto_closed") /\ UNCHANGED asked

Next == \E k \in Tickets :
  \/ Open(k) \/ Escalate(k) \/ CustomerConfirms(k)
  \/ RecordQuestion(k) \/ AwaitAnswer(k) \/ Close(k)

Spec == Init /\ [][Next]_vars
=============================================================================
