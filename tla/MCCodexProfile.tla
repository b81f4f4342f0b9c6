---------------------------- MODULE MCCodexProfile ----------------------------
(***************************************************************************)
(* Two commands at once, or one after the other, and the user between.     *)
(***************************************************************************)
EXTENDS CodexProfile, TLC

(* Neither the commands nor the user's lines are told apart by more than   *)
(* their being different.                                                  *)
ProfileSymmetry == Permutations(Commands) \cup Permutations(OwnLine)
=============================================================================
