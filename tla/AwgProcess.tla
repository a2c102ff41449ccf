----------------------------- MODULE AwgProcess -----------------------------
(***************************************************************************)
(* The process manager of internal/lowlevel/awg.go: amneziawg-go runs as a *)
(* child process per tunnel device; StartAWGProcess, StopAWGProcess and    *)
(* StopAllAWGProcesses are called concurrently (HTTP handlers, startup,    *)
(* shutdown), and one watchdog goroutine per process reaps it.  The        *)
(* stale-socket recovery of internal/adapters/wgcontroller/local.go, which *)
(* stops, unlinks the socket and starts again, is part of the model.       *)
(*                                                                         *)
(* Every critical section of procsMu is one action: the mutex covers the   *)
(* whole of it and nobody blocks while holding it.                         *)
(***************************************************************************)
EXTENDS FiniteSets

CONSTANTS
    Iface,      \* tunnel devices
    Proc,       \* the processes a behaviour may spawn, each at most once
    Caller,     \* goroutines that call the manager
    None        \* no process

ASSUME NoneAssumption == None \notin Proc

VARIABLES
    procs,      \* the map procs: device -> tracked entry or None
    pstate,     \* life of a process: its OS state, then the entry's done channel
    piface,     \* the device a process was spawned for
    stopping,   \* awgProcEntry.stopping
    sig,        \* the strongest signal sent to a process
    file,       \* the UAPI socket file of a device exists
    ext,        \* a process started outside the portal serves the device
    pc,         \* where a caller is
    dev,        \* the device a caller works on
    mine,       \* the entry a caller holds on to
    late,       \* the start timeout of a caller has expired
    ret,        \* what the running StopAWGProcess returns to
    todo,       \* devices StopAllAWGProcesses has still to stop
    res         \* the result of a caller's last call

osVars     == <<pstate, piface, sig, file, ext>>
callerVars == <<pc, dev, mine, late, ret, todo, res>>
vars == <<procs, pstate, piface, stopping, sig, file, ext,
          pc, dev, mine, late, ret, todo, res>>

Alive == {"booting", "serving"}
Phase == {"unused", "exited", "done"} \cup Alive
StartPhase == {"start", "waitdone", "poll", "probe"}
StopPhase  == {"stop", "pkill", "term", "await", "reap"}
Pc == {"idle", "unlink", "snapshot", "all"} \cup StartPhase \cup StopPhase

TypeOK ==
    /\ procs \in [Iface -> Proc \cup {None}]
    /\ pstate \in [Proc -> Phase]
    /\ piface \in [Proc -> Iface]
    /\ stopping \in [Proc -> BOOLEAN]
    /\ sig \in [Proc -> {"none", "term", "kill"}]
    /\ file \in [Iface -> BOOLEAN]
    /\ ext \in [Iface -> BOOLEAN]
    /\ pc \in [Caller -> Pc]
    /\ dev \in [Caller -> Iface]
    /\ mine \in [Caller -> Proc \cup {None}]
    /\ late \in [Caller -> BOOLEAN]
    /\ ret \in [Caller -> {"user", "start", "recover", "all"}]
    /\ todo \in [Caller -> SUBSET Iface]
    /\ res \in [Caller -> {"none", "ok", "error"}]

Init ==
    /\ procs = [i \in Iface |-> None]
    /\ pstate = [p \in Proc |-> "unused"]
    /\ piface \in [Proc -> Iface]
    /\ stopping = [p \in Proc |-> FALSE]
    /\ sig = [p \in Proc |-> "none"]
    /\ file \in [Iface -> BOOLEAN]         \* a previous run may have left a socket
    /\ ext = [i \in Iface |-> FALSE]
    /\ pc = [c \in Caller |-> "idle"]
    /\ dev \in [Caller -> Iface]
    /\ mine = [c \in Caller |-> None]
    /\ late = [c \in Caller |-> FALSE]
    /\ ret = [c \in Caller |-> "user"]
    /\ todo = [c \in Caller |-> {}]
    /\ res = [c \in Caller |-> "none"]

-----------------------------------------------------------------------------
(* Helpers.                                                                *)

Tracked(i) == procs[i] # None

\* Somebody accepts connections on the UAPI socket of device i.
Listening(i) ==
    /\ file[i]
    /\ ext[i] \/ \E p \in Proc : piface[p] = i /\ pstate[p] = "serving"

\* The tracked process of i is there and nobody is stopping it.
IsAWGProcessRunning(i) == Tracked(i) /\ ~stopping[procs[i]]

Goto(c, l) == pc' = [pc EXCEPT ![c] = l]

\* The call of c ends with result r.
Return(c, r) ==
    /\ Goto(c, "idle")
    /\ res' = [res EXCEPT ![c] = r]
    /\ mine' = [mine EXCEPT ![c] = None]
    /\ late' = [late EXCEPT ![c] = FALSE]
    /\ ret' = [ret EXCEPT ![c] = "user"]
    /\ UNCHANGED <<dev, todo>>

\* StopAWGProcess returns nil: to its caller, to the StartAWGProcess that timed
\* out, to the recovery, or to the loop of StopAllAWGProcesses.
StopReturn(c) ==
    \/ ret[c] = "user" /\ Return(c, "ok")
    \/ ret[c] = "start" /\ Return(c, "error")
    \/ /\ ret[c] \in {"recover", "all"}
       /\ Goto(c, IF ret[c] = "all" THEN "all" ELSE "unlink")
       /\ mine' = [mine EXCEPT ![c] = None]
       /\ UNCHANGED <<dev, late, ret, todo, res>>

-----------------------------------------------------------------------------
(* Calls.                                                                  *)

Call(c, i, l, r) ==
    /\ pc[c] = "idle"
    /\ Goto(c, l)
    /\ dev' = [dev EXCEPT ![c] = i]
    /\ ret' = [ret EXCEPT ![c] = r]
    /\ res' = [res EXCEPT ![c] = "none"]
    /\ UNCHANGED <<procs, stopping, osVars, mine, late, todo>>

CallStart(c, i) == Call(c, i, "start", "user")
CallStop(c, i)  == Call(c, i, "stop", "user")
CallStopAll(c)  == Call(c, dev[c], "snapshot", "all")

\* getOrCreateInterface saw ECONNREFUSED: a socket file with no listener.
CallRecover(c, i) ==
    /\ file[i] /\ ~Listening(i)
    /\ Call(c, i, "stop", "recover")

-----------------------------------------------------------------------------
(* StartAWGProcess.                                                        *)

\* Mutant: an entry that is being stopped is taken back into service.
StartRevives(c) ==
    /\ pc[c] = "start"
    /\ Tracked(dev[c]) /\ stopping[procs[dev[c]]]
    /\ stopping' = [stopping EXCEPT ![procs[dev[c]]] = FALSE]
    /\ Return(c, "ok")
    /\ UNCHANGED <<procs, osVars>>

\* The entry is being stopped: wait for its done channel and start over.
StartBehindStop(c) ==
    /\ pc[c] = "start"
    /\ Tracked(dev[c]) /\ stopping[procs[dev[c]]]
    /\ Goto(c, "waitdone")
    /\ mine' = [mine EXCEPT ![c] = procs[dev[c]]]
    /\ UNCHANGED <<procs, stopping, osVars, dev, late, ret, todo, res>>

StartAgain(c) ==
    /\ pc[c] = "waitdone"
    /\ pstate[mine[c]] = "done"
    /\ Goto(c, "start")
    /\ mine' = [mine EXCEPT ![c] = None]
    /\ UNCHANGED <<procs, stopping, osVars, dev, late, ret, todo, res>>

\* Already managed by us, or an external process answers on the socket.
StartNothingToDo(c) ==
    /\ pc[c] = "start"
    /\ \/ IsAWGProcessRunning(dev[c])
       \/ ~Tracked(dev[c]) /\ Listening(dev[c])
    /\ Return(c, "ok")
    /\ UNCHANGED <<procs, stopping, osVars>>

\* The stale socket cannot be removed, or the binary cannot be executed.
StartFails(c) ==
    /\ pc[c] = "start"
    /\ ~Tracked(dev[c]) /\ ~Listening(dev[c])
    /\ file' \in {file, [file EXCEPT ![dev[c]] = FALSE]}
    /\ Return(c, "error")
    /\ UNCHANGED <<procs, stopping, pstate, piface, sig, ext>>

\* Mutant: a second caller does not look at procs before it spawns.
StartProcessBlindly(c, p) ==
    /\ pc[c] = "start"
    /\ ~Listening(dev[c])
    /\ pstate[p] = "unused"
    /\ procs' = [procs EXCEPT ![dev[c]] = p]
    /\ pstate' = [pstate EXCEPT ![p] = "booting"]
    /\ piface' = [piface EXCEPT ![p] = dev[c]]
    /\ file' = [file EXCEPT ![dev[c]] = FALSE]
    /\ Goto(c, "poll")
    /\ mine' = [mine EXCEPT ![c] = p]
    /\ UNCHANGED <<stopping, sig, ext, dev, late, ret, todo, res>>

\* No entry and no listener: remove a stale socket, spawn, register the entry.
StartProcess(c, p) ==
    /\ pc[c] = "start"
    /\ ~Tracked(dev[c]) /\ ~Listening(dev[c])
    /\ pstate[p] = "unused"
    /\ procs' = [procs EXCEPT ![dev[c]] = p]
    /\ pstate' = [pstate EXCEPT ![p] = "booting"]
    /\ piface' = [piface EXCEPT ![p] = dev[c]]
    /\ file' = [file EXCEPT ![dev[c]] = FALSE]
    /\ Goto(c, "poll")
    /\ mine' = [mine EXCEPT ![c] = p]
    /\ UNCHANGED <<stopping, sig, ext, dev, late, ret, todo, res>>

\* Ten seconds have passed since the loop began.
Deadline(c) ==
    /\ pc[c] \in {"poll", "probe"} /\ ~late[c]
    /\ late' = [late EXCEPT ![c] = TRUE]
    /\ UNCHANGED <<procs, stopping, osVars, pc, dev, mine, ret, todo, res>>

\* One turn of the loop: the done channel first, then the probe of the socket.
PollExited(c) ==
    /\ pc[c] = "poll" /\ ~late[c]
    /\ pstate[mine[c]] = "done"
    /\ Return(c, "error")
    /\ UNCHANGED <<procs, stopping, osVars>>

PollAlive(c) ==
    /\ pc[c] = "poll" /\ ~late[c]
    /\ pstate[mine[c]] # "done"
    /\ Goto(c, "probe")
    /\ UNCHANGED <<procs, stopping, osVars, dev, mine, late, ret, todo, res>>

ProbeReady(c) ==
    /\ pc[c] = "probe"
    /\ Listening(dev[c])
    /\ Return(c, "ok")
    /\ UNCHANGED <<procs, stopping, osVars>>

\* No listener yet, or one that does not answer within its own timeout.
ProbeFails(c) ==
    /\ pc[c] = "probe"
    /\ Goto(c, "poll")
    /\ UNCHANGED <<procs, stopping, osVars, dev, mine, late, ret, todo, res>>

\* The timeout stops by device name, not by the entry this caller spawned.
StartTimeout(c) ==
    /\ pc[c] = "poll" /\ late[c]
    /\ Goto(c, "stop")
    /\ ret' = [ret EXCEPT ![c] = "start"]
    /\ mine' = [mine EXCEPT ![c] = None]
    /\ UNCHANGED <<procs, stopping, osVars, dev, late, todo, res>>

-----------------------------------------------------------------------------
(* StopAWGProcess.                                                         *)

\* Mutant: the entry is dropped from procs as soon as it is being stopped.
StopLockedForgets(c) ==
    /\ pc[c] = "stop"
    /\ Tracked(dev[c])
    /\ Goto(c, "term")
    /\ mine' = [mine EXCEPT ![c] = procs[dev[c]]]
    /\ stopping' = [stopping EXCEPT ![procs[dev[c]]] = TRUE]
    /\ procs' = [procs EXCEPT ![dev[c]] = None]
    /\ UNCHANGED <<osVars, dev, late, ret, todo, res>>

StopLocked(c) ==
    /\ pc[c] = "stop"
    /\ Tracked(dev[c])
    /\ Goto(c, "term")
    /\ mine' = [mine EXCEPT ![c] = procs[dev[c]]]
    /\ stopping' = [stopping EXCEPT ![procs[dev[c]]] = TRUE]
    /\ UNCHANGED <<procs, osVars, dev, late, ret, todo, res>>

StopUntracked(c) ==
    /\ pc[c] = "stop"
    /\ ~Tracked(dev[c])
    /\ Goto(c, "pkill")
    /\ UNCHANGED <<procs, stopping, osVars, dev, mine, late, ret, todo, res>>

\* pkill -f "amneziawg-go <device>": it hits an external process or misses it
\* (no pkill, another command line); our own run as "amneziawg-go --foreground".
Pkill(c) ==
    /\ pc[c] = "pkill"
    /\ \E hit \in {d \in BOOLEAN : d => ext[dev[c]]}, unlinked \in BOOLEAN :
          /\ ext' = [ext EXCEPT ![dev[c]] = @ /\ ~hit]
          /\ file' = [file EXCEPT ![dev[c]] = @ /\ ~(hit /\ unlinked)]
    /\ StopReturn(c)
    /\ UNCHANGED <<procs, stopping, pstate, piface, sig>>

\* SIGTERM; a process that is gone is not affected by it.
Sigterm(c) ==
    /\ pc[c] = "term"
    /\ sig' = [sig EXCEPT ![mine[c]] = IF @ = "none" THEN "term" ELSE @]
    /\ Goto(c, "await")
    /\ UNCHANGED <<procs, stopping, pstate, piface, file, ext,
                   dev, mine, late, ret, todo, res>>

\* Mutant: SIGKILL after the grace period is forgotten.
StopGivesUpMild(c) ==
    /\ pc[c] = "await"
    /\ Goto(c, "reap")
    /\ UNCHANGED <<procs, stopping, osVars, dev, mine, late, ret, todo, res>>

\* Five seconds after SIGTERM the process is killed.
StopGivesUp(c) ==
    /\ pc[c] = "await"
    /\ sig' = [sig EXCEPT ![mine[c]] = "kill"]
    /\ Goto(c, "reap")
    /\ UNCHANGED <<procs, stopping, pstate, piface, file, ext,
                   dev, mine, late, ret, todo, res>>

StopReaped(c) ==
    /\ pc[c] \in {"await", "reap"}
    /\ pstate[mine[c]] = "done"
    /\ StopReturn(c)
    /\ UNCHANGED <<procs, stopping, osVars>>

-----------------------------------------------------------------------------
(* StopAllAWGProcesses and the stale-socket recovery.                      *)

\* Mutant: the snapshot holds the entries instead of the device names.
StopAllSnapshotEntries(c) ==
    /\ pc[c] = "snapshot"
    /\ Goto(c, "all")
    /\ todo' = [todo EXCEPT ![c] = {procs[i] : i \in {j \in Iface : Tracked(j)}}]
    /\ UNCHANGED <<procs, stopping, osVars, dev, mine, late, ret, res>>

StopAllSnapshot(c) ==
    /\ pc[c] = "snapshot"
    /\ Goto(c, "all")
    /\ todo' = [todo EXCEPT ![c] = {i \in Iface : Tracked(i)}]
    /\ UNCHANGED <<procs, stopping, osVars, dev, mine, late, ret, res>>

StopAllNext(c) ==
    /\ pc[c] = "all"
    /\ \E i \in todo[c] :
          /\ dev' = [dev EXCEPT ![c] = i]
          /\ todo' = [todo EXCEPT ![c] = @ \ {i}]
    /\ Goto(c, "stop")
    /\ UNCHANGED <<procs, stopping, osVars, mine, late, ret, res>>

StopAllDone(c) ==
    /\ pc[c] = "all" /\ todo[c] = {}
    /\ Return(c, "ok")
    /\ UNCHANGED <<procs, stopping, osVars>>

\* The recovery unlinks the socket path without the mutex, then starts.
RecoverUnlink(c) ==
    /\ pc[c] = "unlink"
    /\ file' = [file EXCEPT ![dev[c]] = FALSE]
    /\ Goto(c, "start")
    /\ ret' = [ret EXCEPT ![c] = "user"]
    /\ UNCHANGED <<procs, stopping, pstate, piface, sig, ext,
                   dev, mine, late, todo, res>>

-----------------------------------------------------------------------------
(* The watchdog of a process, and the processes themselves.                *)

\* Mutant: the watchdog closes done but leaves the entry in the map.
WatchdogKeepsEntry(p) ==
    /\ pstate[p] = "exited"
    /\ pstate' = [pstate EXCEPT ![p] = "done"]
    /\ UNCHANGED <<procs, stopping, piface, sig, file, ext, callerVars>>

\* cmd.Wait has returned: drop the entry if it is still ours, close done.
Watchdog(p) ==
    /\ pstate[p] = "exited"
    /\ pstate' = [pstate EXCEPT ![p] = "done"]
    /\ procs' = IF procs[piface[p]] = p
                THEN [procs EXCEPT ![piface[p]] = None] ELSE procs
    /\ UNCHANGED <<stopping, piface, sig, file, ext, callerVars>>

\* amneziawg-go creates the socket file before it accepts connections.
BootSocket(p) ==
    /\ pstate[p] = "booting" /\ ~ext[piface[p]] /\ ~file[piface[p]]
    /\ file' = [file EXCEPT ![piface[p]] = TRUE]
    /\ UNCHANGED <<procs, stopping, pstate, piface, sig, ext, callerVars>>

Serve(p) ==
    /\ pstate[p] = "booting" /\ ~ext[piface[p]] /\ file[piface[p]]
    /\ pstate' = [pstate EXCEPT ![p] = "serving"]
    /\ UNCHANGED <<procs, stopping, piface, sig, file, ext, callerVars>>

\* A process ends: on a signal, or by itself.  Unless it is killed, one that
\* serves may remove its socket on the way out.
Exit(p) ==
    /\ pstate[p] \in Alive
    /\ pstate' = [pstate EXCEPT ![p] = "exited"]
    /\ \/ UNCHANGED file
       \/ /\ pstate[p] = "serving" /\ sig[p] # "kill"
          /\ file' = [file EXCEPT ![piface[p]] = FALSE]
    /\ UNCHANGED <<procs, stopping, piface, sig, ext, callerVars>>

\* Somebody runs amneziawg-go by hand; the device must be free for it.
ExtStart(i) ==
    /\ ~ext[i] /\ \A p \in Proc : piface[p] = i => pstate[p] # "serving"
    /\ ext' = [ext EXCEPT ![i] = TRUE]
    /\ file' = [file EXCEPT ![i] = TRUE]
    /\ UNCHANGED <<procs, stopping, pstate, piface, sig, callerVars>>

ExtExit(i) ==
    /\ ext[i]
    /\ ext' = [ext EXCEPT ![i] = FALSE]
    /\ file' \in {file, [file EXCEPT ![i] = FALSE]}
    /\ UNCHANGED <<procs, stopping, pstate, piface, sig, callerVars>>

-----------------------------------------------------------------------------

StartStep(c) ==
    \/ StartBehindStop(c) \/ StartAgain(c) \/ StartNothingToDo(c) \/ StartFails(c)
    \/ \E p \in Proc : StartProcess(c, p)
    \/ PollExited(c) \/ PollAlive(c) \/ ProbeReady(c) \/ ProbeFails(c)
    \/ StartTimeout(c)

StopStep(c) ==
    \/ StopLocked(c) \/ StopUntracked(c) \/ Pkill(c) \/ Sigterm(c)
    \/ StopGivesUp(c) \/ StopReaped(c)
    \/ StopAllSnapshot(c) \/ StopAllNext(c) \/ StopAllDone(c) \/ RecoverUnlink(c)

CallStep(c) ==
    \/ \E i \in Iface : CallStart(c, i) \/ CallStop(c, i) \/ CallRecover(c, i)
    \/ CallStopAll(c)

ProcStep(p) == Watchdog(p) \/ BootSocket(p) \/ Serve(p) \/ Exit(p)

Next ==
    \/ \E c \in Caller : CallStep(c) \/ StartStep(c) \/ StopStep(c) \/ Deadline(c)
    \/ \E p \in Proc : ProcStep(p)
    \/ \E i \in Iface : ExtStart(i) \/ ExtExit(i)

Safe == Init /\ [][Next]_vars

\* The scheduler runs every goroutine, timers fire, a process that was sent
\* SIGKILL dies and cmd.Wait then returns.  Nobody need ever call, and a
\* process need not react to SIGTERM or ever begin to serve.
Fairness ==
    /\ \A c \in Caller : WF_vars(StartStep(c) \/ StopStep(c)) /\ WF_vars(Deadline(c))
    /\ \A p \in Proc : /\ WF_vars(Watchdog(p))
                       /\ WF_vars(sig[p] = "kill" /\ Exit(p))

Spec == Safe /\ Fairness

-----------------------------------------------------------------------------
(* Properties.                                                             *)

\* At most one process of ours is alive per device, whatever the interleaving
\* of starts, stops, timeouts and crashes (awg.go 109-115: two concurrent
\* callers cannot both observe "not running" and start their own process).
SingleProcess ==
    \A p, q \in Proc :
        /\ pstate[p] \in Alive /\ pstate[q] \in Alive
        /\ piface[p] = piface[q]
        => p = q

\* The map is the authority on what lives: an entry is in procs exactly from
\* the spawn until the watchdog has reaped the process (awg.go 250-254), so
\* no process is ever lost and no dead entry ever blocks a device.
TrackedUntilReaped ==
    \A p \in Proc :
        (pstate[p] \in Alive \cup {"exited"}) <=> (procs[piface[p]] = p)

\* Between the moment StopAWGProcess marks an entry and the moment it is
\* reaped, the device is not given to another process (awg.go 317-319).
StopKeepsSlot ==
    \A c \in Caller :
        /\ pc[c] \in {"term", "await", "reap"}
        /\ pstate[mine[c]] # "done"
        => procs[dev[c]] = mine[c] /\ stopping[mine[c]]

\* Every call returns: no caller is left waiting on a done channel that nobody
\* closes, nor in the poll loop (awg.go 171-248, 323-368).
CallsReturn == \A c \in Caller : pc[c] # "idle" ~> pc[c] = "idle"

\* The manager implements the process slot of AwgSlot.
SlotOf(i) ==
    IF ~Tracked(i) THEN "empty"
    ELSE IF stopping[procs[i]] THEN "stopping" ELSE "running"

Slot == INSTANCE AwgSlot WITH slot <- [i \in Iface |-> SlotOf(i)]
SlotSpec == Slot!Spec

\* Stated by local.go 293 ("Remove stale socket file"): what the recovery
\* unlinks is never the socket of a process of ours that is serving.
RecoveryUnlinksStaleSocket ==
    [][\A c \in Caller :
          RecoverUnlink(c) =>
              \A p \in Proc : piface[p] = dev[c] => pstate[p] # "serving"]_vars
=============================================================================
