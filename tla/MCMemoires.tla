----------------------------- MODULE MCMemoires -----------------------------
(* Instances of Memoires for TLC.                                           *)
EXTENDS Memoires, TLC

\* The slots outside Reviewers are interchangeable, and so are those inside.
SlotSymmetry == Permutations(Reviewers) \cup Permutations(Requests \ Reviewers)
=============================================================================
