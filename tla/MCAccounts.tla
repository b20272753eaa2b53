----------------------------- MODULE MCAccounts -----------------------------
(* Instances of Accounts for TLC.                                           *)
EXTENDS Accounts, TLC

Plain == Requests \ (Managers \cup Deleters)

\* Ids and e-mails are interchangeable, and so are slots with the same rights.
Symmetry == Permutations(Ids) \cup Permutations(Emails)
              \cup Permutations(Plain) \cup Permutations(Deleters \ Managers)
=============================================================================
