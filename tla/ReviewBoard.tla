---------------------------- MODULE ReviewBoard -----------------------------
(***************************************************************************)
(* What the mémoire pages promise their users, with every request taken to *)
(* be one indivisible step.  A mémoire is submitted once; an administrator *)
(* decides about it, and may decide again; a rejection carries the note    *)
(* that was sent with it and an approval carries none; a mémoire that has  *)
(* been withdrawn (by its owner, an administrator, or with its owner's     *)
(* profile) never comes back.                                              *)
(***************************************************************************)
CONSTANTS MemoireIds, Notes, Null

VARIABLE board   \* for each mémoire, the decision a reader sees

Entry(s, n) == [statut |-> s, note |-> n]

Unsubmitted == Entry("Absent", Null)
Withdrawn   == Entry("Retire", Null)
Live        == {id \in MemoireIds : board[id] \notin {Unsubmitted, Withdrawn}}

Init == board = [id \in MemoireIds |-> Unsubmitted]

Submit(id) == /\ board[id] = Unsubmitted
              /\ board' = [board EXCEPT ![id] = Entry("Delivre", Null)]

Approve(id) == /\ id \in Live
               /\ board' = [board EXCEPT ![id] = Entry("Valide", Null)]

Reject(id, n) == /\ id \in Live
                 /\ board' = [board EXCEPT ![id] = Entry("Rejete", n)]

\* Several mémoires go at once when the profile they belong to is deleted.
Withdraw(S) == /\ S # {} /\ S \subseteq Live
               /\ board' = [id \in MemoireIds |->
                              IF id \in S THEN Withdrawn ELSE board[id]]

Next == \/ \E id \in MemoireIds : Submit(id) \/ Approve(id)
        \/ \E id \in MemoireIds, n \in Notes : Reject(id, n)
        \/ \E S \in SUBSET MemoireIds : Withdraw(S)

Spec == Init /\ [][Next]_board
=============================================================================
