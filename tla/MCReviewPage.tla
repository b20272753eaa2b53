---------------------------- MODULE MCReviewPage ----------------------------
(* Instances of ReviewPage for TLC.                                         *)
EXTENDS ReviewPage, TLC

SlotSymmetry == Permutations(Loads) \cup Permutations(Patches)
=============================================================================
