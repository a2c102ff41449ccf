------------------------------- MODULE AwgSlot -------------------------------
(***************************************************************************)
(* What the amneziawg-go process manager promises for one tunnel device    *)
(* (comments of internal/lowlevel/awg.go, lines 106-121, 128-133 and       *)
(* 310-322): the device has at most one managed process; once a stop has   *)
(* been requested the slot can only become empty, it is never reused and   *)
(* never handed back to a starter; and a requested stop takes effect.      *)
(***************************************************************************)
CONSTANT Iface          \* the tunnel devices

VARIABLE slot           \* slot[i]: the life of the process managed for device i

SlotState == {"empty", "running", "stopping"}

Init == slot = [i \in Iface |-> "empty"]

Move(i, from, to) == /\ slot[i] = from
                     /\ slot' = [slot EXCEPT ![i] = to]

Occupy(i)  == Move(i, "empty", "running")       \* a process is spawned
Request(i) == Move(i, "running", "stopping")    \* somebody asks it to stop
Crash(i)   == Move(i, "running", "empty")       \* it died by itself and is reaped
Vacate(i)  == Move(i, "stopping", "empty")      \* it was stopped and is reaped

Next == \E i \in Iface : Occupy(i) \/ Request(i) \/ Crash(i) \/ Vacate(i)

Safe == Init /\ [][Next]_slot

\* A stop that was requested takes effect.
Spec == Safe /\ \A i \in Iface : WF_slot(Vacate(i))
=============================================================================
