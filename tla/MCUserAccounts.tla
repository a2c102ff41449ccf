---------------------------- MODULE MCUserAccounts ----------------------------
(* A database user, a user of the directory, or none, and a second factor.   *)
EXTENDS UserAccounts

MCInitialRow ==
    {[EmptyRow("p1") EXCEPT !.src = {"db"}, !.password = [text |-> "strong", hashed |-> TRUE]],
     [EmptyRow("p1") EXCEPT !.src = {"ldap"}]}

MCMissingRow ==
    {[EmptyRow("p1") EXCEPT !.src = {"ldap"}, !.disabled = TRUE, !.reason = "ldapMissing"]}

MCProtectedRow ==
    {[EmptyRow("p1") EXCEPT !.src = {"db"}, !.password = [text |-> "strong", hashed |-> TRUE],
                            !.totp = [TotpOff EXCEPT !.on = TRUE, !.secret = 1]]}
=============================================================================
