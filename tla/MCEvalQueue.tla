---------------------------- MODULE MCEvalQueue ----------------------------
(***************************************************************************)
(* EvalQueue for TLC.  Tickets, rules and modes are told apart only by     *)
(* the rows they are in, and only invariants are checked, so permuting     *)
(* them is sound.                                                          *)
(***************************************************************************)
EXTENDS EvalQueue, TLC

Symmetric == Permutations(Tickets) \cup Permutations(Rules) \cup Permutations(Modes)
=============================================================================
