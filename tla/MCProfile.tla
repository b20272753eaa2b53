----------------------------- MODULE MCProfile ------------------------------
(* An instance of Profile for TLC.  Its requests and values are             *)
(* interchangeable, but one of its properties is about liveness, for which  *)
(* TLC's symmetry reduction is not sound.                                   *)
EXTENDS Profile, TLC
=============================================================================
