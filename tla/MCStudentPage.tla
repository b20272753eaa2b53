--------------------------- MODULE MCStudentPage ----------------------------
(* An instance of StudentLinks for TLC, with all names up to three tokens.  *)
(* The slots are interchangeable, but one of the properties is about        *)
(* liveness, for which TLC's symmetry reduction is not sound.               *)
EXTENDS StudentLinks, TLC

NameTokens == [char : {"d"} \cup Reserved, depth : {0, 1}]
ShortNames == UNION {[1 .. k -> NameTokens] : k \in 0 .. 2}
AllNames   == ShortNames \cup [1 .. 3 -> NameTokens]
=============================================================================
