--------------------------- MODULE MCInterfaceSave ---------------------------
(* A small instance of InterfaceSave.  The number of operations and of edits *)
(* is not bounded; failing steps and crashes are.                            *)
EXTENDS InterfaceSave, TLC

\* Peers are interchangeable, and no liveness property is checked.
Symmetric == Permutations(Peer)

\* Between two operations the local variables of the last one are dead: every
\* operation assigns each of them before it reads it.
Live ==
    IF pc \in {"idle", "down"}
    THEN <<row, peers, dev, devPeers, posted, pc, ed, faults, crashes, dirty>>
    ELSE vars

\* Once dirty is set only a restart resets it, and every property but TypeOK
\* speaks of states without it: nothing is lost by stopping where no restart can
\* follow.
Interesting == dirty => Booting \/ crashes < MaxCrash
=============================================================================
