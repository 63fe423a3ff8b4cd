------------------------- MODULE MCNightlyAnalysis -------------------------
(***************************************************************************)
(* Small instances of NightlyAnalysis for TLC.                             *)
(***************************************************************************)
EXTENDS NightlyAnalysis, TLC

Symmetry == Permutations(Tickets) \cup Permutations(Patterns) \cup Permutations(Runs)
=============================================================================
