----------------------------- MODULE MCWebLogin -----------------------------
(* A user with a second factor, one of the directory, or none. *)
EXTENDS WebLogin

MCInitialRow ==
    {[EmptyRow("p") EXCEPT !.src = {"db"}, !.password = [text |-> "w", hashed |-> TRUE],
                           !.totp = [on |-> TRUE, secret |-> 1, codes |-> RecoveryCode, step |-> 0]]}
=============================================================================
