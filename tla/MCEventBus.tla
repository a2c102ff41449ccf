------------------------------ MODULE MCEventBus ------------------------------
(* Values for TLC: the queue of "users" holds every user the sync disables, *)
(* or (Narrow) a single one; the others hold one event.                     *)
EXTENDS EventBus, TLC

MCCap == [s \in Subscriber |-> IF s = "users" THEN MaxUser ELSE 1]
MCNarrow == [s \in Subscriber |-> 1]

=============================================================================
