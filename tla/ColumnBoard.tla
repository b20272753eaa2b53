---------------------------- MODULE ColumnBoard -----------------------------
(***************************************************************************)
(* What is left of the board's promise when several administrators review  *)
(* at once.  Submitting and withdrawing stay indivisible.  A decision may  *)
(* be stored column by column: status and note each keep the value a       *)
(* reader sees or take that of the decision, but no column ever takes      *)
(* another value, such as one that an earlier decision had already         *)
(* replaced.                                                               *)
(***************************************************************************)
EXTENDS ReviewBoard

\* What an administrator can decide.
Decisions == {Entry("Valide", Null)} \cup {Entry("Rejete", n) : n \in Notes}

Write(id, d) ==
  /\ id \in Live
  /\ \E s \in {board[id].statut, d.statut}, n \in {board[id].note, d.note} :
       board' = [board EXCEPT ![id] = Entry(s, n)]

ColumnNext == \/ \E id \in MemoireIds : Submit(id)
              \/ \E id \in MemoireIds, d \in Decisions : Write(id, d)
              \/ \E S \in SUBSET MemoireIds : Withdraw(S)

ColumnSpec == Init /\ [][ColumnNext]_board
=============================================================================
