--------------------------- MODULE MCSkillApproval ---------------------------
(***************************************************************************)
(* Small instances of SkillApproval for TLC.                               *)
(***************************************************************************)
EXTENDS SkillApproval, TLC

Symmetry == Permutations(Suggestions) \cup Permutations(Texts)
=============================================================================
