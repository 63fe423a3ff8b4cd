---------------------------- MODULE MCSettlement ----------------------------
(***************************************************************************)
(* Settlement for TLC.  Users are interchangeable, and only invariants     *)
(* are checked under this symmetry, so permuting them is sound.            *)
(***************************************************************************)
EXTENDS Settlement, TLC

Symmetric == Permutations(Users)
=============================================================================
