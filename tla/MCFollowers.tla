----------------------------- MODULE MCFollowers -----------------------------
(* One interface, a peer's network of each family, of which one is a default *)
(* route; "" is a table of the interface's own, 7 a table with a number.     *)
EXTENDS Followers, TLC

MCTableNumber == ("" :> 0) @@ ("off" :> -1) @@ ("7" :> 7)

Wants(enabled, save, table, mark) ==
    [present |-> TRUE, enabled |-> enabled, save |-> save, table |-> table,
     mark |-> mark]
MCWanted == {Wants(TRUE, FALSE, "", 0), Wants(TRUE, TRUE, "7", 0),
             Wants(TRUE, FALSE, "off", 5), Wants(FALSE, TRUE, "", 5)}

ASSUME TablesAreApart == TablesApart
=============================================================================
