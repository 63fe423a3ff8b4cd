-------------------------- MODULE MCTicketLifecycle --------------------------
(***************************************************************************)
(* Small instances of TicketLifecycle for TLC.  Ticket ids, request slots  *)
(* and categories are interchangeable in every action and property.        *)
(***************************************************************************)
EXTENDS TicketLifecycle, TLC

Symmetry ==
  Permutations(Tickets) \cup Permutations(Turns) \cup Permutations(Resolvable)
=============================================================================
