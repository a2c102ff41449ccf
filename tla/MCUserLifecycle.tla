--------------------------- MODULE MCUserLifecycle ---------------------------
(* The owner is a user of the directory with one peer. *)
EXTENDS UserLifecycle

MCInitialRow == {[EmptyRow("p1") EXCEPT !.src = {"ldap"}]}
=============================================================================
