------------------------------ MODULE Listing -------------------------------
(***************************************************************************)
(* The list of GET /api/users: OrderBy(LastName).Skip(...).Take(...), that *)
(* is ORDER BY, OFFSET and LIMIT.  A last name is not unique, and where it *)
(* is shared the database is free to choose, for each query again, which   *)
(* row comes first.                                                        *)
(***************************************************************************)
EXTENDS Integers, FiniteSets, Functions

\* The orders in which the rows S may be read: by key, ties in any order.
Orders(S, key) ==
  {place \in Injection(S, 1 .. Cardinality(S)) :
     \A i, j \in S : key[i] < key[j] => place[i] < place[j]}

\* The places in an order that the page p takes.
Window(p, size) == (p - 1) * size + 1 .. p * size

\* The sets of rows that the page p may consist of.
Cuts(S, key, p, size) ==
  {{i \in S : place[i] \in Window(p, size)} : place \in Orders(S, key)}
=============================================================================
