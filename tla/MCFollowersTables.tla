--------------------------- MODULE MCFollowersTables ---------------------------
(* Rows that TablesApart excludes: two that name one table in two ways, or one *)
(* that names no table and one that names the table it had then.               *)
EXTENDS Followers, TLC

MCTableNumber == ("" :> 0) @@ ("0" :> 0) @@ ("5" :> 5)

Wants(table, mark) ==
    [present |-> TRUE, enabled |-> TRUE, save |-> FALSE, table |-> table,
     mark |-> mark]
TwoNames == {Wants("", 0), Wants("0", 0)}
NamedMark == {Wants("", 5), Wants("5", 5)}
================================================================================
