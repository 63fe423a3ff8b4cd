---------------------------- MODULE MCChatClient ----------------------------
(***************************************************************************)
(* ChatClient for TLC.  Neither tickets nor requests are told apart but by *)
(* what happens to them, and only invariants are checked, so permuting     *)
(* both is sound.                                                          *)
(***************************************************************************)
EXTENDS ChatClient, TLC

Symmetric == Permutations(Tickets) \cup Permutations(Calls)
=============================================================================
