---------------------------- MODULE MCDashboard -----------------------------
(* Instances of Dashboard for TLC.                                          *)
EXTENDS Dashboard

\* Everybody has the same last name: the list may come in any order.
OneName == [s \in Statuses |-> 1]
=============================================================================
