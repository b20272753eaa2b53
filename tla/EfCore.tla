------------------------------- MODULE EfCore -------------------------------
(***************************************************************************)
(* What Entity Framework Core does with a row that a request has read,     *)
(* changed and saves again, as far as the controllers rely on it.          *)
(*                                                                         *)
(* `FindAsync` keeps a snapshot of the row it read.  `SaveChangesAsync`    *)
(* compares every property with that snapshot and sends an UPDATE that     *)
(* names only the columns whose value differs from it.  The entities have  *)
(* no concurrency token, so the UPDATE selects its row by key alone: it    *)
(* succeeds on a row that somebody else changed since it was read, and it  *)
(* fails (DbUpdateConcurrencyException) only when the row is gone.         *)
(***************************************************************************)

\* The value a column has after the UPDATE: the stored one when the request
\* assigned what it had read (the column is then not in the UPDATE at all).
Column(stored, read, assigned) ==
  IF assigned = read THEN stored ELSE assigned
=============================================================================
