-------------------------- MODULE AwgProcessProofs --------------------------
(***************************************************************************)
(* Proofs about AwgProcess for any number of devices, processes and        *)
(* callers: type correctness, one process per device, the bookkeeping of   *)
(* procs, the exclusion of starts by a stop in flight, and the (safety     *)
(* part of the) implementation of AwgSlot.                                 *)
(***************************************************************************)
EXTENDS AwgProcess, TLAPS

USE NoneAssumption

-----------------------------------------------------------------------------
(* The inductive invariant.                                                *)

\* A tracked entry was spawned for the device it is tracked under.
EntryOnDevice == \A i \in Iface : procs[i] # None => piface[procs[i]] = i

\* A process that was never spawned is not being stopped.
FreshIsUnmarked == \A p \in Proc : pstate[p] = "unused" => ~stopping[p]

\* A caller holds on to the right entry: one of the device it works on, and,
\* once it has passed the critical section of StopAWGProcess, a marked one.
HoldsEntry ==
    \A c \in Caller :
        /\ pc[c] \in {"waitdone", "poll", "probe", "term", "await", "reap"}
              => mine[c] \in Proc /\ pstate[mine[c]] # "unused"
        /\ pc[c] \in {"term", "await", "reap"}
              => piface[mine[c]] = dev[c] /\ stopping[mine[c]]

IInv == TypeOK /\ TrackedUntilReaped /\ EntryOnDevice /\ FreshIsUnmarked /\ HoldsEntry

-----------------------------------------------------------------------------
(* Type correctness.                                                       *)

\* The part of TypeOK about the callers.
CallerTypes ==
    /\ pc \in [Caller -> Pc]
    /\ dev \in [Caller -> Iface]
    /\ mine \in [Caller -> Proc \cup {None}]
    /\ late \in [Caller -> BOOLEAN]
    /\ ret \in [Caller -> {"user", "start", "recover", "all"}]
    /\ todo \in [Caller -> SUBSET Iface]
    /\ res \in [Caller -> {"none", "ok", "error"}]

LEMMA ReturnKeepsTypes ==
  ASSUME TypeOK, NEW c \in Caller, NEW r \in {"ok", "error"}, Return(c, r)
  PROVE  CallerTypes'
BY DEF TypeOK, CallerTypes, Return, Goto, Pc

LEMMA StopReturnKeepsTypes ==
  ASSUME TypeOK, NEW c \in Caller, StopReturn(c) PROVE CallerTypes'
<1>1. ASSUME Goto(c, "all") \/ Goto(c, "unlink"),
             mine' = [mine EXCEPT ![c] = None], UNCHANGED <<dev, late, ret, todo, res>>
      PROVE  CallerTypes'
  BY <1>1 DEF TypeOK, CallerTypes, Goto, Pc
<1>2. Return(c, "ok") \/ Return(c, "error") \/ Goto(c, "all") \/ Goto(c, "unlink")
  BY DEF StopReturn
<1> QED BY <1>1, <1>2, ReturnKeepsTypes DEF StopReturn

\* Type correctness of AwgProcess: map, entries and callers stay in their sets.
THEOREM TypeCorrect == Safe => []TypeOK
<1>1. Init => TypeOK
  BY DEF Init, TypeOK, Phase, Pc
<1>2. TypeOK /\ [Next]_vars => TypeOK'
  <2> SUFFICES ASSUME TypeOK, [Next]_vars PROVE TypeOK'
    OBVIOUS
  <2> USE DEF TypeOK, Phase, Alive, Pc, StartPhase, StopPhase, Goto, osVars,
              callerVars, CallerTypes
  <2>1. ASSUME NEW c \in Caller, CallStep(c) PROVE TypeOK'
    BY <2>1 DEF CallStep, CallStart, CallStop, CallRecover, CallStopAll, Call
  <2>2. ASSUME NEW c \in Caller, StartStep(c) PROVE TypeOK'
    <3>1. CASE StartBehindStop(c) BY <3>1 DEF StartBehindStop
    <3>2. CASE StartAgain(c) BY <3>2 DEF StartAgain
    <3>3. CASE StartNothingToDo(c) BY <3>3, ReturnKeepsTypes DEF StartNothingToDo
    <3>4. CASE StartFails(c) BY <3>4, ReturnKeepsTypes DEF StartFails
    <3>5. ASSUME NEW p \in Proc, StartProcess(c, p) PROVE TypeOK'
      BY <3>5 DEF StartProcess
    <3>6. CASE PollExited(c) BY <3>6, ReturnKeepsTypes DEF PollExited
    <3>7. CASE PollAlive(c) BY <3>7 DEF PollAlive
    <3>8. CASE ProbeReady(c) BY <3>8, ReturnKeepsTypes DEF ProbeReady
    <3>9. CASE ProbeFails(c) BY <3>9 DEF ProbeFails
    <3>10. CASE StartTimeout(c) BY <3>10 DEF StartTimeout
    <3> QED BY <2>2, <3>1, <3>2, <3>3, <3>4, <3>5, <3>6, <3>7, <3>8, <3>9, <3>10
            DEF StartStep
  <2>3. ASSUME NEW c \in Caller, StopStep(c) PROVE TypeOK'
    <3>1. CASE StopLocked(c) BY <3>1 DEF StopLocked
    <3>2. CASE StopUntracked(c) BY <3>2 DEF StopUntracked
    <3>3. CASE Pkill(c) BY <3>3, StopReturnKeepsTypes DEF Pkill
    <3>4. CASE Sigterm(c) BY <3>4 DEF Sigterm
    <3>5. CASE StopGivesUp(c) BY <3>5 DEF StopGivesUp
    <3>6. CASE StopReaped(c) BY <3>6, StopReturnKeepsTypes DEF StopReaped
    <3>7. CASE StopAllSnapshot(c) BY <3>7 DEF StopAllSnapshot
    <3>8. CASE StopAllNext(c) BY <3>8 DEF StopAllNext
    <3>9. CASE StopAllDone(c) BY <3>9, ReturnKeepsTypes DEF StopAllDone
    <3>10. CASE RecoverUnlink(c) BY <3>10 DEF RecoverUnlink
    <3> QED BY <2>3, <3>1, <3>2, <3>3, <3>4, <3>5, <3>6, <3>7, <3>8, <3>9, <3>10
            DEF StopStep
  <2>4. ASSUME NEW c \in Caller, Deadline(c) PROVE TypeOK'
    BY <2>4 DEF Deadline
  <2>5. ASSUME NEW p \in Proc, ProcStep(p) PROVE TypeOK'
    <3>1. CASE Watchdog(p) BY <3>1 DEF Watchdog
    <3>2. CASE BootSocket(p) BY <3>2 DEF BootSocket
    <3>3. CASE Serve(p) BY <3>3 DEF Serve
    <3>4. CASE Exit(p) BY <3>4 DEF Exit
    <3> QED BY <2>5, <3>1, <3>2, <3>3, <3>4 DEF ProcStep
  <2>6. ASSUME NEW i \in Iface, ExtStart(i) \/ ExtExit(i) PROVE TypeOK'
    <3>1. CASE ExtStart(i) BY <3>1 DEF ExtStart
    <3>2. CASE ExtExit(i) BY <3>2 DEF ExtExit
    <3> QED BY <2>6, <3>1, <3>2
  <2>7. CASE UNCHANGED vars
    BY <2>7 DEF vars
  <2> QED BY <2>1, <2>2, <2>3, <2>4, <2>5, <2>6, <2>7 DEF Next
<1> QED BY <1>1, <1>2, PTL DEF Safe

-----------------------------------------------------------------------------
(* The inductive invariant.                                                *)

Bookkeeping == <<procs, pstate, piface, stopping>>

\* The part of IInv about the map and the entries only.
MapInv == TrackedUntilReaped /\ EntryOnDevice /\ FreshIsUnmarked

LEMMA MapInvStutters ==
  ASSUME MapInv, UNCHANGED Bookkeeping PROVE MapInv'
BY DEF MapInv, Bookkeeping, TrackedUntilReaped, EntryOnDevice, FreshIsUnmarked

\* The steps of a caller other than a spawn or the marking of an entry.
QuietStep(c) ==
    \/ CallStep(c) \/ Deadline(c)
    \/ StartBehindStop(c) \/ StartAgain(c) \/ StartNothingToDo(c) \/ StartFails(c)
    \/ PollExited(c) \/ PollAlive(c) \/ ProbeReady(c) \/ ProbeFails(c)
    \/ StartTimeout(c)
    \/ StopUntracked(c) \/ Pkill(c) \/ Sigterm(c) \/ StopGivesUp(c) \/ StopReaped(c)
    \/ StopAllSnapshot(c) \/ StopAllNext(c) \/ StopAllDone(c) \/ RecoverUnlink(c)

LEMMA QuietStepKeeps ==
  ASSUME IInv, NEW c \in Caller, QuietStep(c)
  PROVE  UNCHANGED Bookkeeping /\ HoldsEntry'
<1> USE DEF IInv, TypeOK, Alive, Phase, Pc, StartPhase, StopPhase, Goto, Return,
            StopReturn, osVars, Tracked, Bookkeeping, HoldsEntry
<1>1. CASE CallStep(c)
  BY <1>1 DEF CallStep, CallStart, CallStop, CallRecover, CallStopAll, Call
<1>2. CASE Deadline(c) BY <1>2 DEF Deadline
<1>3. CASE StartBehindStop(c)
  <2>1. pstate[procs[dev[c]]] # "unused"
    BY <1>3 DEF StartBehindStop, TrackedUntilReaped, EntryOnDevice
  <2> QED BY <1>3, <2>1 DEF StartBehindStop
<1>4. CASE StartAgain(c) BY <1>4 DEF StartAgain
<1>5. CASE StartNothingToDo(c) BY <1>5 DEF StartNothingToDo
<1>6. CASE StartFails(c) BY <1>6 DEF StartFails
<1>7. CASE PollExited(c) BY <1>7 DEF PollExited
<1>8. CASE PollAlive(c) BY <1>8 DEF PollAlive
<1>9. CASE ProbeReady(c) BY <1>9 DEF ProbeReady
<1>10. CASE ProbeFails(c) BY <1>10 DEF ProbeFails
<1>11. CASE StartTimeout(c) BY <1>11 DEF StartTimeout
<1>12. CASE StopUntracked(c) BY <1>12 DEF StopUntracked
<1>13. CASE Pkill(c) BY <1>13 DEF Pkill
<1>14. CASE Sigterm(c) BY <1>14 DEF Sigterm
<1>15. CASE StopGivesUp(c) BY <1>15 DEF StopGivesUp
<1>16. CASE StopReaped(c) BY <1>16 DEF StopReaped
<1>17. CASE StopAllSnapshot(c) BY <1>17 DEF StopAllSnapshot
<1>18. CASE StopAllNext(c) BY <1>18 DEF StopAllNext
<1>19. CASE StopAllDone(c) BY <1>19 DEF StopAllDone
<1>20. CASE RecoverUnlink(c) BY <1>20 DEF RecoverUnlink
<1> HIDE DEF IInv, TypeOK, HoldsEntry, Bookkeeping
<1> QED BY <1>1, <1>2, <1>3, <1>4, <1>5, <1>6, <1>7, <1>8, <1>9, <1>10, <1>11,
           <1>12, <1>13, <1>14, <1>15, <1>16, <1>17, <1>18, <1>19, <1>20
        DEF QuietStep

\* The entry of a device that is free can be registered.
LEMMA StartProcessKeeps ==
  ASSUME IInv, NEW c \in Caller, NEW p \in Proc, StartProcess(c, p)
  PROVE  MapInv' /\ HoldsEntry'
<1> USE DEF IInv, TypeOK, StartProcess, Tracked, Goto, Alive
<1>1. TrackedUntilReaped' BY DEF TrackedUntilReaped, EntryOnDevice
<1>2. EntryOnDevice' BY DEF TrackedUntilReaped, EntryOnDevice
<1>3. FreshIsUnmarked' BY DEF FreshIsUnmarked
<1>4. HoldsEntry' BY DEF HoldsEntry
<1> QED BY <1>1, <1>2, <1>3, <1>4 DEF MapInv

\* A tracked entry can be marked.
LEMMA StopLockedKeeps ==
  ASSUME IInv, NEW c \in Caller, StopLocked(c)
  PROVE  MapInv' /\ HoldsEntry'
<1> USE DEF IInv, TypeOK, StopLocked, Tracked, Goto, osVars, Alive
<1>1. procs[dev[c]] \in Proc /\ pstate[procs[dev[c]]] # "unused"
  BY DEF TrackedUntilReaped, EntryOnDevice
<1>2. TrackedUntilReaped' /\ EntryOnDevice' BY DEF TrackedUntilReaped, EntryOnDevice
<1>3. FreshIsUnmarked' BY <1>1 DEF FreshIsUnmarked
<1>4. HoldsEntry' BY <1>1 DEF HoldsEntry, EntryOnDevice
<1> QED BY <1>2, <1>3, <1>4 DEF MapInv

\* A process moves on; the watchdog drops exactly the entry of the process it
\* reaped, because that is the one tracked for the device.
LEMMA ProcStepKeeps ==
  ASSUME IInv, NEW p \in Proc, ProcStep(p)
  PROVE  MapInv' /\ HoldsEntry'
<1> USE DEF IInv, TypeOK, Alive, Phase, callerVars
<1>1. CASE Watchdog(p)
  <2> USE <1>1 DEF Watchdog
  <2>1. TrackedUntilReaped' BY DEF TrackedUntilReaped, EntryOnDevice
  <2>2. EntryOnDevice' BY DEF EntryOnDevice
  <2>3. FreshIsUnmarked' BY DEF FreshIsUnmarked
  <2>4. HoldsEntry' BY DEF HoldsEntry
  <2> QED BY <2>1, <2>2, <2>3, <2>4 DEF MapInv
<1>2. CASE BootSocket(p)
  BY <1>2 DEF BootSocket, MapInv, TrackedUntilReaped, EntryOnDevice, FreshIsUnmarked, HoldsEntry
<1>3. CASE Serve(p)
  <2> USE <1>3 DEF Serve
  <2>1. MapInv' BY DEF MapInv, TrackedUntilReaped, EntryOnDevice, FreshIsUnmarked
  <2>2. HoldsEntry' BY DEF HoldsEntry
  <2> QED BY <2>1, <2>2
<1>4. CASE Exit(p)
  <2> USE <1>4 DEF Exit
  <2>1. MapInv' BY DEF MapInv, TrackedUntilReaped, EntryOnDevice, FreshIsUnmarked
  <2>2. HoldsEntry' BY DEF HoldsEntry
  <2> QED BY <2>1, <2>2
<1> QED BY <1>1, <1>2, <1>3, <1>4 DEF ProcStep

\* The map and the callers agree in every reachable state.
THEOREM Invariant == Safe => []IInv
<1>1. Init => IInv
  BY DEF Init, IInv, TypeOK, Phase, Pc, Alive, TrackedUntilReaped, EntryOnDevice,
         FreshIsUnmarked, HoldsEntry
<1>2. IInv /\ TypeOK' /\ [Next]_vars => IInv'
  <2> SUFFICES ASSUME IInv, TypeOK', [Next]_vars PROVE MapInv' /\ HoldsEntry'
    BY DEF IInv, MapInv
  <2>0. MapInv BY DEF IInv, MapInv
  <2>1. ASSUME NEW c \in Caller, QuietStep(c) PROVE MapInv' /\ HoldsEntry'
    BY <2>0, <2>1, QuietStepKeeps, MapInvStutters
  <2>2. ASSUME NEW c \in Caller, NEW p \in Proc, StartProcess(c, p)
        PROVE MapInv' /\ HoldsEntry'
    BY <2>2, StartProcessKeeps
  <2>3. ASSUME NEW c \in Caller, StopLocked(c) PROVE MapInv' /\ HoldsEntry'
    BY <2>3, StopLockedKeeps
  <2>4. ASSUME NEW p \in Proc, ProcStep(p) PROVE MapInv' /\ HoldsEntry'
    BY <2>4, ProcStepKeeps
  <2>5. ASSUME NEW i \in Iface, ExtStart(i) \/ ExtExit(i) PROVE MapInv' /\ HoldsEntry'
    <3>1. UNCHANGED Bookkeeping /\ UNCHANGED callerVars
      BY <2>5 DEF ExtStart, ExtExit, Bookkeeping
    <3> QED BY <2>0, <3>1, MapInvStutters DEF IInv, HoldsEntry, Bookkeeping, callerVars
  <2>6. CASE UNCHANGED vars
    <3>1. UNCHANGED Bookkeeping /\ UNCHANGED callerVars
      BY <2>6 DEF vars, Bookkeeping, callerVars
    <3> QED BY <2>0, <3>1, MapInvStutters DEF IInv, HoldsEntry, Bookkeeping, callerVars
  <2> QED BY <2>1, <2>2, <2>3, <2>4, <2>5, <2>6
          DEF Next, StartStep, StopStep, QuietStep
<1> QED BY <1>1, <1>2, TypeCorrect, PTL DEF Safe

-----------------------------------------------------------------------------
(* The safety properties.                                                  *)

\* At most one process of ours lives per device (awg.go 107-113), for any
\* number of callers: two processes alive on a device would both be its entry.
THEOREM OneProcessPerDevice == Safe => []SingleProcess
<1>1. IInv => SingleProcess
  BY DEF IInv, TrackedUntilReaped, SingleProcess, Alive
<1> QED BY <1>1, Invariant, PTL

\* procs holds exactly what has been spawned and not been reaped (awg.go 250-254).
THEOREM MapIsAuthority == Safe => []TrackedUntilReaped
<1>1. IInv => TrackedUntilReaped
  BY DEF IInv
<1> QED BY <1>1, Invariant, PTL

\* While a stop waits for a process, the device stays with it (awg.go 317-319).
THEOREM StopExcludesStart == Safe => []StopKeepsSlot
<1>1. IInv => StopKeepsSlot
  <2> SUFFICES ASSUME IInv, NEW c \in Caller, pc[c] \in {"term", "await", "reap"},
                      pstate[mine[c]] # "done"
               PROVE procs[dev[c]] = mine[c] /\ stopping[mine[c]]
    BY DEF StopKeepsSlot
  <2>1. /\ mine[c] \in Proc /\ pstate[mine[c]] \in Alive \cup {"exited"}
        /\ piface[mine[c]] = dev[c] /\ stopping[mine[c]]
    BY DEF IInv, HoldsEntry, TypeOK, Phase
  <2> QED BY <2>1 DEF IInv, TrackedUntilReaped
<1> QED BY <1>1, Invariant, PTL

-----------------------------------------------------------------------------
(* The implementation of AwgSlot.                                          *)

SlotView == [i \in Iface |-> SlotOf(i)]

LEMMA SlotStutters ==
  ASSUME UNCHANGED Bookkeeping PROVE UNCHANGED SlotView
BY DEF Bookkeeping, SlotView, SlotOf, Tracked

LEMMA SlotMoves ==
  ASSUME NEW i \in Iface, NEW from, NEW to, SlotOf(i) = from, SlotOf(i)' = to,
         \A j \in Iface : j # i => SlotOf(j)' = SlotOf(j)
  PROVE  Slot!Move(i, from, to)
<1>1. \A j \in Iface : SlotView[j] = SlotOf(j) /\ SlotView'[j] = SlotOf(j)'
  BY DEF SlotView
<1>2. SlotView' = [SlotView EXCEPT ![i] = to]
  BY <1>1 DEF SlotView
<1> QED BY <1>1, <1>2 DEF Slot!Move, SlotView

LEMMA SpawnOccupies ==
  ASSUME IInv, NEW c \in Caller, NEW p \in Proc, StartProcess(c, p)
  PROVE  \E i \in Iface : Slot!Occupy(i)
<1> PICK i \in Iface : i = dev[c]
  BY DEF IInv, TypeOK
<1>1. SlotOf(i) = "empty"
  BY DEF StartProcess, SlotOf
<1>2. SlotOf(i)' = "running"
  BY DEF IInv, TypeOK, StartProcess, SlotOf, Tracked, FreshIsUnmarked
<1>3. \A j \in Iface : j # i => SlotOf(j)' = SlotOf(j)
  BY DEF IInv, TypeOK, StartProcess, SlotOf, Tracked
<1> QED BY <1>1, <1>2, <1>3, SlotMoves DEF Slot!Occupy

LEMMA MarkRequests ==
  ASSUME IInv, NEW c \in Caller, StopLocked(c)
  PROVE  (\E i \in Iface : Slot!Request(i)) \/ UNCHANGED SlotView
<1> PICK i \in Iface : i = dev[c]
  BY DEF IInv, TypeOK
<1>1. procs[i] \in Proc
  BY DEF IInv, TypeOK, StopLocked, Tracked
<1>2. SlotOf(i)' = "stopping" /\ SlotOf(i) \in {"running", "stopping"}
  BY <1>1 DEF IInv, TypeOK, StopLocked, SlotOf, Tracked
<1>3. \A j \in Iface : j # i => SlotOf(j)' = SlotOf(j)
  BY DEF IInv, TypeOK, EntryOnDevice, StopLocked, SlotOf, Tracked
<1>4. CASE SlotOf(i) = "running"
  BY <1>2, <1>3, <1>4, SlotMoves DEF Slot!Request
<1>5. CASE SlotOf(i) = "stopping"
  <2>1. \A j \in Iface : SlotOf(j)' = SlotOf(j)
    BY <1>2, <1>3, <1>5
  <2> QED BY <2>1 DEF SlotView
<1> QED BY <1>2, <1>4, <1>5

LEMMA ReapEmpties ==
  ASSUME IInv, NEW p \in Proc, Watchdog(p)
  PROVE  \E i \in Iface : Slot!Crash(i) \/ Slot!Vacate(i)
<1> PICK i \in Iface : i = piface[p]
  BY DEF IInv, TypeOK
<1>1. procs[i] = p
  BY DEF IInv, TrackedUntilReaped, Watchdog
<1>2. SlotOf(i)' = "empty" /\ SlotOf(i) \in {"running", "stopping"}
  BY <1>1 DEF IInv, TypeOK, Watchdog, SlotOf, Tracked
<1>3. \A j \in Iface : j # i => SlotOf(j)' = SlotOf(j)
  BY <1>1 DEF IInv, TypeOK, Watchdog, SlotOf, Tracked
<1> QED BY <1>2, <1>3, SlotMoves DEF Slot!Crash, Slot!Vacate

\* Every behaviour of the manager is one of the process slot: no device goes
\* from "stopping" back to "running", and none is occupied while not empty.
THEOREM ImplementsSlot == Safe => Slot!Safe
<1>1. Init => Slot!Init
  BY DEF Init, Slot!Init, SlotOf, Tracked
<1>2. IInv /\ [Next]_vars => [Slot!Next]_SlotView
  <2> SUFFICES ASSUME IInv, [Next]_vars PROVE Slot!Next \/ UNCHANGED SlotView
    OBVIOUS
  <2>1. ASSUME NEW c \in Caller, QuietStep(c) PROVE UNCHANGED SlotView
    BY <2>1, QuietStepKeeps, SlotStutters
  <2>2. ASSUME NEW c \in Caller, NEW p \in Proc, StartProcess(c, p) PROVE Slot!Next
    BY <2>2, SpawnOccupies DEF Slot!Next
  <2>3. ASSUME NEW c \in Caller, StopLocked(c) PROVE Slot!Next \/ UNCHANGED SlotView
    BY <2>3, MarkRequests DEF Slot!Next
  <2>4. ASSUME NEW p \in Proc, ProcStep(p) PROVE Slot!Next \/ UNCHANGED SlotView
    <3>1. CASE Watchdog(p) BY <3>1, ReapEmpties DEF Slot!Next
    <3>2. CASE BootSocket(p) \/ Serve(p) \/ Exit(p)
      BY <3>2 DEF BootSocket, Serve, Exit, SlotView, SlotOf, Tracked
    <3> QED BY <2>4, <3>1, <3>2 DEF ProcStep
  <2>5. ASSUME NEW i \in Iface, ExtStart(i) \/ ExtExit(i) PROVE UNCHANGED SlotView
    BY <2>5, SlotStutters DEF ExtStart, ExtExit, Bookkeeping
  <2>6. CASE UNCHANGED vars
    BY <2>6, SlotStutters DEF vars, Bookkeeping
  <2> QED BY <2>1, <2>2, <2>3, <2>4, <2>5, <2>6
          DEF Next, StartStep, StopStep, QuietStep
<1> QED BY <1>1, <1>2, Invariant, PTL DEF Safe, Slot!Safe, SlotView
=============================================================================
