---------------------------- MODULE MCUsersPage -----------------------------
(* Instances of UsersPage for TLC.                                          *)
EXTENDS UsersPage, TLC

SlotSymmetry ==
  Permutations(Ids) \cup Permutations(Loads) \cup Permutations(Saves)
    \cup Permutations(Calls)
=============================================================================
