---------------------------- MODULE InterfaceSave ----------------------------
(***************************************************************************)
(* One interface of the local backend: its row and its peers in the        *)
(* database, the network device and the peers configured on it, and the    *)
(* multi-step operations of internal/app/wireguard/wireguard_interfaces.go *)
(* that keep the two in line: CreateInterface / UpdateInterface (both run  *)
(* saveInterface), DeleteInterface, and RestoreInterfaceState at startup.  *)
(* Any step may fail, the portal may crash between two steps, and peers    *)
(* are edited concurrently (savePeers, DeletePeer of wireguard_peers.go).  *)
(*                                                                         *)
(* A configuration is reduced to what the operations branch on: is the     *)
(* interface enabled (on), and is it an AmneziaWG interface (awg, that is  *)
(* EmitAWG), which decides which driver the device needs.  awg_mode=auto.  *)
(***************************************************************************)
EXTENDS Naturals

CONSTANTS
    Peer,           \* identifiers (public keys) of peers
    None,
    MaxFault,       \* bound: failing steps in a behaviour
    MaxCrash        \* bound: crashes in a behaviour

ASSUME BoundAssumption == MaxFault \in Nat /\ MaxCrash \in Nat
ASSUME NoneAssumption == None \notin [on : BOOLEAN, awg : BOOLEAN]
                         /\ None \notin [up : BOOLEAN, awg : BOOLEAN]

Config == [on : BOOLEAN, awg : BOOLEAN]
PeerRow == [on : BOOLEAN, awg : BOOLEAN]      \* awg: the parameters copied from the interface
Device == [up : BOOLEAN, awg : BOOLEAN]       \* awg: amneziawg-go TUN, else kernel link

VARIABLES
    row,        \* database: the interface, or None
    peers,      \* database: Peer -> row or None
    dev,        \* the device, or None
    devPeers,   \* the peers configured on the device
    posted,     \* the last post hook that ran was PostUp
    pc, kind,   \* the running operation: its step, and who called saveInterface
    cfg, old,   \* its desired configuration, and the row it read
    snap, todo, \* the peers it read, and those it still has to visit
    ed,         \* the concurrent edit of a peer
    faults, crashes,
    dirty       \* a failure the code reports without compensating, or an overlap

opVars == <<pc, kind, cfg, old, snap, todo>>
vars == <<row, peers, dev, devPeers, posted, pc, kind, cfg, old, snap, todo,
          ed, faults, crashes, dirty>>

SaveStep == {"load", "prehooks", "teardown", "apply", "commit", "rbdelete",
             "rbapply", "rbpeers", "copy", "posthooks", "reload", "readd"}
Step == {"idle", "down", "probe", "mark", "rpeers", "rforeign",
         "dpeers", "ddev", "drow"} \cup SaveStep
Edit == [at : {"none", "save", "devdel", "rowdel"}, p : Peer \cup {None},
         on : BOOLEAN, awg : BOOLEAN]

NoEdit == [at |-> "none", p |-> None, on |-> FALSE, awg |-> FALSE]

\* Includes: a device that is gone has no peers.
TypeOK ==
    /\ row \in Config \cup {None}
    /\ peers \in [Peer -> PeerRow \cup {None}]
    /\ dev \in Device \cup {None}
    /\ devPeers \in SUBSET Peer
    /\ dev = None => devPeers = {}
    /\ posted \in BOOLEAN
    /\ pc \in Step
    /\ kind \in {"update", "restore", "missing"}
    /\ cfg \in Config \cup {None}
    /\ old \in Config \cup {None}
    /\ snap \in [Peer -> PeerRow \cup {None}]
    /\ todo \in SUBSET Peer
    /\ ed \in Edit
    /\ faults \in 0..MaxFault
    /\ crashes \in 0..MaxCrash
    /\ dirty \in BOOLEAN

Init ==
    /\ row = None
    /\ peers = [p \in Peer |-> None]
    /\ dev = None
    /\ devPeers = {}
    /\ posted = FALSE
    /\ pc = "idle" /\ kind = "update"
    /\ cfg = None /\ old = None
    /\ snap = [p \in Peer |-> None] /\ todo = {}
    /\ ed = NoEdit
    /\ faults = 0 /\ crashes = 0 /\ dirty = FALSE

-----------------------------------------------------------------------------
(* Helpers.                                                                *)

Stored(t) == {p \in Peer : t[p] # None}
Enabled(c) == c # None /\ c.on

\* A step that succeeds, and one that fails; d: nothing makes up for it.
Good == UNCHANGED <<faults, dirty>>
Bad(d) == /\ faults < MaxFault
          /\ faults' = faults + 1
          /\ dirty' = (dirty \/ d)

Goto(l) == pc' = l
GotoWith(l, ps) == pc' = l /\ todo' = ps

\* saveInterface returns an error.
SaveFails == Goto(IF kind = "update" THEN "idle" ELSE "mark")

\* Mutant: nobody notices that the driver has to change.
AwgModeNeverChanges(a, b) == FALSE

awgModeChanged(a, b) == a # None /\ b # None /\ a.awg # b.awg

\* LocalController.SaveInterface: configure the device, create it if missing.
\* A device that exists keeps its driver.
Configured(c, up) == [up |-> up, awg |-> IF dev = None THEN c.awg ELSE dev.awg]

ApplyPhysical(c) == dev' = Configured(c, c.on)

\* It fails before the device is created or touched, before its link state is
\* set, or after that (the WireGuard settings come last).
ApplyPhysicalFails(c) ==
    dev' \in {dev} \cup {Configured(c, up) : up \in {c.on, dev # None /\ dev.up}}

\* Mutant: the device is taken over with its peers.
DropDeviceOnly ==
    /\ dev' = None
    /\ UNCHANGED devPeers

\* LocalController.DeleteInterface; a missing device is not an error.
DropDevice ==
    /\ dev' = None
    /\ devPeers' = {}

\* amneziawg-go is stopped, and its device gone, before the netlink calls that
\* can fail.
DropDeviceFails == UNCHANGED <<dev, devPeers>> \/ (dev # None /\ dev.awg /\ DropDevice)

\* LocalController.SavePeer.  A kernel device loses a disabled peer; on a device
\* with a UAPI socket saveAWGPeer adds the peer whatever its state, because the
\* extras it looks at are never filled in.
PutPeer(p, r) ==
    /\ dev # None
    /\ devPeers' = IF r.on \/ dev.awg THEN devPeers \cup {p} ELSE devPeers \ {p}

-----------------------------------------------------------------------------
(* CreateInterface and UpdateInterface.                                    *)

\* The admin submits a configuration; a create when there is no row, and then
\* none of the interface's hooks has run.
Submit(c) ==
    /\ pc = "idle"
    /\ Goto("load") /\ kind' = "update" /\ cfg' = c
    /\ dirty' = (dirty \/ ed.at # "none")
    /\ posted' = (posted /\ row # None)
    /\ UNCHANGED <<row, peers, dev, devPeers, old, snap, todo, ed, faults, crashes>>

\* The previous row and a snapshot of the peers are read.  Any error of the
\* first read counts as "no such interface" and goes unnoticed.
Load ==
    /\ pc = "load"
    /\ \/ /\ old' = row
          /\ snap' = IF row = None THEN [p \in Peer |-> None] ELSE peers
          /\ Goto("prehooks") /\ Good
       \/ /\ old' = None /\ snap' = [p \in Peer |-> None]
          /\ Goto("prehooks") /\ Bad(TRUE)
       \/ /\ SaveFails /\ Bad(FALSE)
          /\ UNCHANGED <<old, snap>>
    /\ UNCHANGED <<row, peers, dev, devPeers, posted, kind, cfg, todo, ed, crashes>>

\* PreUp / PreDown, then the DNS settings; either may fail.
PreSave ==
    /\ pc = "prehooks"
    /\ \/ Goto(IF awgModeChanged(old, cfg) THEN "teardown" ELSE "apply") /\ Good
       \/ SaveFails /\ Bad(FALSE)
    /\ UNCHANGED <<row, peers, dev, devPeers, posted, kind, cfg, old, snap, todo, ed, crashes>>

\* 3a: tear the old device down.  An error after amneziawg-go was stopped
\* leaves no device, and is returned without compensation.
Teardown ==
    /\ pc = "teardown"
    /\ \/ DropDevice /\ Goto("apply") /\ Good
       \/ DropDeviceFails /\ SaveFails /\ Bad(TRUE)
    /\ UNCHANGED <<row, peers, posted, kind, cfg, old, snap, todo, ed, crashes>>

\* 3b and 3c: bring the device to the desired state.  Only a failure after a
\* teardown is rolled back; otherwise it is a hard error.
Apply ==
    /\ pc = "apply"
    /\ \/ ApplyPhysical(cfg) /\ Goto("commit") /\ Good
       \/ /\ ApplyPhysicalFails(cfg)
          /\ IF awgModeChanged(old, cfg)
             THEN Goto("rbdelete") /\ Bad(FALSE)
             ELSE SaveFails /\ Bad(TRUE)
    /\ UNCHANGED <<row, peers, devPeers, posted, kind, cfg, old, snap, todo, ed, crashes>>

\* Mutant: a failed database save is returned without undoing the device.
CommitNoRollback ==
    /\ pc = "commit"
    /\ \/ row' = cfg /\ GotoWith("copy", Stored(snap)) /\ Good
       \/ SaveFails /\ Bad(FALSE) /\ UNCHANGED <<row, todo>>
    /\ UNCHANGED <<peers, dev, devPeers, posted, kind, cfg, old, snap, ed, crashes>>

\* 4: save the row.
Commit ==
    /\ pc = "commit"
    /\ \/ row' = cfg /\ GotoWith("copy", Stored(snap)) /\ Good
       \/ Goto("rbdelete") /\ Bad(FALSE) /\ UNCHANGED <<row, todo>>
    /\ UNCHANGED <<peers, dev, devPeers, posted, kind, cfg, old, snap, ed, crashes>>

-----------------------------------------------------------------------------
(* rollbackPhysicalInterface.                                              *)

\* A new interface is deleted again, a switched one is torn down.
RollbackDelete ==
    /\ pc = "rbdelete"
    /\ \/ /\ old = None
          /\ \/ DropDevice /\ Good
             \/ DropDeviceFails /\ Bad(TRUE)
          /\ SaveFails
       \/ /\ awgModeChanged(old, cfg)
          /\ \/ DropDevice /\ Good
             \/ DropDeviceFails /\ Bad(TRUE)
          /\ Goto("rbapply")
       \/ /\ old # None /\ ~awgModeChanged(old, cfg)
          /\ Goto("rbapply") /\ Good /\ UNCHANGED <<dev, devPeers>>
    /\ UNCHANGED <<row, peers, posted, kind, cfg, old, snap, todo, ed, crashes>>

RollbackApply ==
    /\ pc = "rbapply"
    /\ \/ /\ ApplyPhysical(old) /\ Good
          /\ GotoWith("rbpeers", IF old.on THEN Stored(snap) ELSE {})
       \/ /\ ApplyPhysicalFails(old) /\ Bad(TRUE)
          /\ SaveFails /\ UNCHANGED todo
    /\ UNCHANGED <<row, peers, devPeers, posted, kind, cfg, old, snap, ed, crashes>>

\* A failure is collected and the loop goes on.
RollbackPeers ==
    /\ pc = "rbpeers"
    /\ \/ \E p \in todo :
          /\ todo' = todo \ {p}
          /\ \/ PutPeer(p, snap[p]) /\ Good
             \/ UNCHANGED devPeers /\ Bad(TRUE)
          /\ UNCHANGED pc
       \/ todo = {} /\ SaveFails /\ Good /\ UNCHANGED <<todo, devPeers>>
    /\ UNCHANGED <<row, peers, dev, posted, kind, cfg, old, snap, ed, crashes>>

-----------------------------------------------------------------------------
(* After the row is saved.                                                 *)

\* Mutant: the AWG parameters are not propagated.
CopyPeerTypeOnly(p) == peers' = [peers EXCEPT ![p] = snap[p]]

\* 5: one peer of the snapshot is written back with the interface's AWG
\* parameters.  The fresh row is ignored, and one that is gone is recreated.
CopyPeer(p) == peers' = [peers EXCEPT ![p] = [snap[p] EXCEPT !.awg = cfg.awg]]

CopyPeers ==
    /\ pc = "copy"
    /\ \/ \E p \in todo :
          \/ todo' = todo \ {p} /\ CopyPeer(p) /\ Good /\ UNCHANGED pc
          \/ SaveFails /\ Bad(TRUE) /\ UNCHANGED <<peers, todo>>
       \/ todo = {} /\ Goto("posthooks") /\ Good /\ UNCHANGED <<peers, todo>>
    /\ UNCHANGED <<row, dev, devPeers, posted, kind, cfg, old, snap, ed, crashes>>

\* Mutant: only PostUp is run.
PostSaveUpOnly ==
    /\ pc = "posthooks"
    /\ Goto("reload") /\ Good /\ posted' = (posted \/ (cfg.on /\ ~Enabled(old)))
    /\ UNCHANGED <<row, peers, dev, devPeers, kind, cfg, old, snap, todo, ed, crashes>>

\* 6: PostUp / PostDown, if the enabled state changed.
PostSave ==
    /\ pc = "posthooks"
    /\ \/ /\ posted' = IF Enabled(old) # cfg.on THEN cfg.on ELSE posted
          /\ Goto("reload") /\ Good
       \/ /\ Enabled(old) # cfg.on
          /\ SaveFails /\ Bad(TRUE) /\ UNCHANGED posted
    /\ UNCHANGED <<row, peers, dev, devPeers, kind, cfg, old, snap, todo, ed, crashes>>

\* Mutant: a mode switch alone does not bring the peers back.
NeedsPeersWhenEnabled == cfg.on /\ ~Enabled(old)

NeedsPeers == cfg.on /\ (awgModeChanged(old, cfg) \/ ~Enabled(old))

\* saveInterface returns nil: UpdateInterface is done, the restore goes on.
SaveDone ==
    IF kind = "update" THEN Goto("idle") /\ UNCHANGED todo
    ELSE GotoWith("rpeers", Stored(peers))

\* 7: the peers are read again and put on the device.
Reload ==
    /\ pc = "reload"
    /\ \/ ~NeedsPeers /\ SaveDone /\ Good
       \/ NeedsPeers /\ GotoWith("readd", Stored(peers)) /\ Good
       \/ NeedsPeers /\ SaveFails /\ Bad(TRUE) /\ UNCHANGED todo
    /\ UNCHANGED <<row, peers, dev, devPeers, posted, kind, cfg, old, snap, ed, crashes>>

\* The rows were read in one query (Reload); an edit in between is an overlap.
Readd ==
    /\ pc = "readd"
    /\ \/ \E p \in todo :
          \/ /\ todo' = todo \ {p} /\ Good /\ UNCHANGED pc
             /\ IF peers[p] = None THEN UNCHANGED devPeers ELSE PutPeer(p, peers[p])
          \/ SaveFails /\ Bad(TRUE) /\ UNCHANGED <<devPeers, todo>>
       \/ todo = {} /\ SaveDone /\ Good /\ UNCHANGED devPeers
    /\ UNCHANGED <<row, peers, dev, posted, kind, cfg, old, snap, ed, crashes>>

-----------------------------------------------------------------------------
(* DeleteInterface.                                                        *)

\* Hooks: the interface is marked disabled before its old state is looked at,
\* so old and new state are equal and no hook runs.  DNS settings may fail.
DeleteStart ==
    /\ pc = "idle" /\ row # None
    /\ snap' = peers
    /\ \/ /\ GotoWith("dpeers", Stored(peers))
          /\ dirty' = (dirty \/ ed.at # "none") /\ UNCHANGED faults
       \/ Bad(FALSE) /\ UNCHANGED <<pc, todo>>
    /\ UNCHANGED <<row, peers, dev, devPeers, posted, kind, cfg, old, ed, crashes>>

\* Each peer goes from the device, then from the database.
DeletePeers ==
    /\ pc = "dpeers"
    /\ \/ \E p \in todo :
          \/ /\ todo' = todo \ {p}
             /\ devPeers' = devPeers \ {p}
             /\ peers' = [peers EXCEPT ![p] = None]
             /\ Good /\ UNCHANGED pc
          \/ /\ devPeers' \in {devPeers, devPeers \ {p}}
             /\ Goto("idle") /\ Bad(TRUE) /\ UNCHANGED <<peers, todo>>
       \/ todo = {} /\ Goto("ddev") /\ Good /\ UNCHANGED <<peers, devPeers, todo>>
    /\ UNCHANGED <<row, dev, posted, kind, cfg, old, snap, ed, crashes>>

DeleteDevice ==
    /\ pc = "ddev"
    /\ \/ DropDevice /\ Goto("drow") /\ Good
       \/ DropDeviceFails /\ Goto("idle") /\ Bad(TRUE)
    /\ UNCHANGED <<row, peers, posted, kind, cfg, old, snap, todo, ed, crashes>>

\* SqlRepo.DeleteInterface also drops the peers that are left.
DeleteRow ==
    /\ pc = "drow"
    /\ Goto("idle")
    /\ \/ row' = None /\ peers' = [p \in Peer |-> None] /\ Good
       \/ UNCHANGED <<row, peers>> /\ Bad(TRUE)
    /\ UNCHANGED <<dev, devPeers, posted, kind, cfg, old, snap, todo, ed, crashes>>

-----------------------------------------------------------------------------
(* RestoreInterfaceState at startup, before the API serves requests.  (The *)
(* check for expired peers and the LDAP sync may already run; their edits  *)
(* are not modelled here.)                                                 *)

Boot ==
    /\ pc = "down"
    /\ cfg' = row /\ dirty' = FALSE
    /\ Goto(IF row = None THEN "idle" ELSE "probe")
    /\ UNCHANGED <<row, peers, dev, devPeers, posted, kind, old, snap, todo, ed, faults, crashes>>

\* A missing device of an enabled interface, and every error of the probe counts
\* as one: the row is disabled for the time being (the result of that save is
\* ignored).
Probe ==
    /\ pc = "probe"
    /\ Goto("load")
    /\ \/ /\ dev # None \/ ~cfg.on
          /\ kind' = "restore" /\ UNCHANGED row /\ Good
       \/ /\ cfg.on /\ kind' = "missing"
          /\ \/ row' = [row EXCEPT !.on = FALSE] /\ (IF dev = None THEN Good ELSE Bad(FALSE))
             \/ UNCHANGED row /\ Bad(TRUE)
    /\ UNCHANGED <<peers, dev, devPeers, posted, cfg, old, snap, todo, ed, crashes>>

\* saveInterface failed: note it in the row and give up, which ends the portal.
Mark ==
    /\ pc = "mark"
    /\ Goto("down")
    /\ \/ /\ row' = IF kind = "missing" THEN [row EXCEPT !.on = FALSE]
                    ELSE [row EXCEPT !.on = cfg.on]
          /\ Good
       \/ UNCHANGED row /\ Bad(TRUE)
    /\ UNCHANGED <<peers, dev, devPeers, posted, kind, cfg, old, snap, todo, ed, crashes>>

\* The peers read at the beginning (nobody edits them meanwhile, and saveInterface
\* changes only their parameters): all off a disabled interface, else saved.
RestorePeers ==
    /\ pc = "rpeers"
    /\ \/ \E p \in todo :
          \/ /\ todo' = todo \ {p} /\ Good /\ UNCHANGED pc
             /\ IF cfg.on THEN PutPeer(p, peers[p]) ELSE devPeers' = devPeers \ {p}
          \/ Goto("down") /\ Bad(TRUE) /\ UNCHANGED <<devPeers, todo>>
       \/ todo = {} /\ Goto("rforeign") /\ Good /\ UNCHANGED <<devPeers, todo>>
    /\ UNCHANGED <<row, peers, dev, posted, kind, cfg, old, snap, ed, crashes>>

\* Mutant: peers the portal does not know stay on the device.
RemoveForeignNot == pc = "rforeign" /\ Goto("idle") /\ Good /\
    UNCHANGED <<row, peers, dev, devPeers, posted, kind, cfg, old, snap, todo, ed, crashes>>

\* Peers the portal does not know are removed from the device.  A list that
\* cannot be read is taken for an empty one.
RemoveForeign ==
    /\ pc = "rforeign"
    /\ \/ devPeers' = devPeers \cap Stored(peers) /\ Goto("idle") /\ Good
       \/ UNCHANGED devPeers /\ Goto("idle") /\ Bad(TRUE)
       \/ /\ \E left \in SUBSET devPeers : devPeers' = left /\ devPeers \cap Stored(peers) \subseteq left
          /\ Goto("down") /\ Bad(TRUE)
    /\ UNCHANGED <<row, peers, dev, posted, kind, cfg, old, snap, todo, ed, crashes>>

-----------------------------------------------------------------------------
(* Concurrent edits of one peer: savePeers and DeletePeer.                 *)

Booting == pc \in {"down", "probe", "mark", "rpeers", "rforeign"} \/
           (pc \in SaveStep /\ kind # "update")
Overlap == dirty' = (dirty \/ pc # "idle")

\* savePeers reads the interface and its AWG parameters ...
EditSave(p, on) ==
    /\ ~Booting /\ ed.at = "none" /\ row # None
    /\ ed' = [at |-> "save", p |-> p, on |-> on, awg |-> row.awg]
    /\ Overlap
    /\ UNCHANGED <<row, peers, dev, devPeers, posted, opVars, faults, crashes>>

\* ... and saves peer and device in one database transaction, which is rolled
\* back if the device fails.  If the commit fails the device is ahead.
EditSaved ==
    /\ ~Booting /\ ed.at = "save"
    /\ ed' = NoEdit
    /\ \/ /\ PutPeer(ed.p, ed)
          /\ peers' = [peers EXCEPT ![ed.p] = [on |-> ed.on, awg |-> ed.awg]]
          /\ Overlap /\ UNCHANGED faults
       \/ PutPeer(ed.p, ed) /\ UNCHANGED peers /\ Bad(TRUE)
       \/ dev = None /\ Overlap /\ UNCHANGED <<peers, devPeers, faults>>
    /\ UNCHANGED <<row, dev, posted, opVars, crashes>>

EditDelete(p) ==
    /\ ~Booting /\ ed.at = "none" /\ row # None /\ peers[p] # None
    /\ ed' = [NoEdit EXCEPT !.at = "devdel", !.p = p]
    /\ Overlap
    /\ UNCHANGED <<row, peers, dev, devPeers, posted, opVars, faults, crashes>>

\* The device first, then the database.
EditDeleteDevice ==
    /\ ~Booting /\ ed.at = "devdel"
    /\ \/ /\ dev # None /\ devPeers' = devPeers \ {ed.p}
          /\ ed' = [ed EXCEPT !.at = "rowdel"] /\ Overlap /\ UNCHANGED faults
       \/ dev = None /\ ed' = NoEdit /\ Overlap /\ UNCHANGED <<devPeers, faults>>
       \/ ed' = NoEdit /\ Bad(FALSE) /\ UNCHANGED devPeers
    /\ UNCHANGED <<row, peers, dev, posted, opVars, crashes>>

EditDeleteRow ==
    /\ ~Booting /\ ed.at = "rowdel"
    /\ ed' = NoEdit
    /\ \/ peers' = [peers EXCEPT ![ed.p] = None] /\ Overlap /\ UNCHANGED faults
       \/ UNCHANGED peers /\ Bad(TRUE)
    /\ UNCHANGED <<row, dev, devPeers, posted, opVars, crashes>>

-----------------------------------------------------------------------------

\* The portal stops between two steps; the device survives or (a reboot, or an
\* amneziawg-go that dies with its parent) it does not.
Crash ==
    /\ pc # "down" /\ crashes < MaxCrash
    /\ crashes' = crashes + 1
    /\ Goto("down") /\ ed' = NoEdit
    /\ DropDevice \/ UNCHANGED <<dev, devPeers>>
    /\ UNCHANGED <<row, peers, posted, kind, cfg, old, snap, todo, faults, dirty>>

Next ==
    \/ \E c \in Config : Submit(c)
    \/ Load \/ PreSave \/ Teardown \/ Apply \/ Commit
    \/ RollbackDelete \/ RollbackApply \/ RollbackPeers
    \/ CopyPeers \/ PostSave \/ Reload \/ Readd
    \/ DeleteStart \/ DeletePeers \/ DeleteDevice \/ DeleteRow
    \/ Boot \/ Probe \/ Mark \/ RestorePeers \/ RemoveForeign
    \/ \E p \in Peer, on \in BOOLEAN : EditSave(p, on)
    \/ \E p \in Peer : EditDelete(p)
    \/ EditSaved \/ EditDeleteDevice \/ EditDeleteRow
    \/ Crash

Spec == Init /\ [][Next]_vars

-----------------------------------------------------------------------------
(* Properties.                                                             *)

Settled == pc = "idle" /\ ed.at = "none" /\ ~dirty
Up(t) == {p \in Peer : t[p] # None /\ t[p].on}

\* Whatever failed, unless the code itself reports a state it does not repair,
\* a finished operation leaves the device in the state the row describes: a
\* failed save after the physical change is undone (652-669, 793-838).
DeviceMatchesRow ==
    Settled /\ row # None => dev # None /\ dev.up = row.on

\* The device runs the driver the row asks for, also after a mode switch that
\* had to be rolled back (604-635), as long as the portal never crashed.
DriverMatchesRow ==
    Settled /\ crashes = 0 => IF row = None THEN dev = None ELSE dev.awg = row.awg

\* The enabled peers of an enabled interface are on its device after every
\* operation, although a mode switch wipes the device; a kernel device has no
\* others (744-772, 825-835, 285-325).
PeersMatchRows ==
    Settled /\ Enabled(row) =>
        /\ Up(peers) \subseteq devPeers
        /\ ~dev.awg /\ crashes = 0 => devPeers = Up(peers)

\* The obfuscation parameters stored with a peer, from which its client
\* configuration is made, are those of the interface (671-706).
PeerParamsMatchRow ==
    Settled /\ crashes = 0 /\ row # None =>
        \A p \in Stored(peers) : peers[p].awg = row.awg

\* The post hooks ran for the state the interface is in (737-742, 924-952).
HooksMatchRow ==
    Settled /\ crashes = 0 /\ row # None => posted = row.on

\* A restore that reports no error leaves exactly the stored peers on the
\* device: all of an enabled interface that are enabled, none of a disabled one.
RestoreHeals ==
    [][pc = "rforeign" /\ pc' = "idle" /\ ~dirty' =>
          /\ devPeers' \subseteq Stored(peers)
          /\ IF row.on THEN Up(peers) \subseteq devPeers' ELSE devPeers' = {}]_vars

\* Stated by wireguard_interfaces.go 203-204: after RestoreInterfaceState the
\* final state of the interfaces will be the same as stored in the database.
RestoredDriverMatchesRow ==
    [][pc = "rforeign" /\ pc' = "idle" /\ ~dirty' => dev.awg = row.awg]_vars

\* Stated by wireguard_interfaces.go 671-672 ("Update the interface type of
\* peers in db and propagate AWG obfuscation parameters"): that step changes
\* nothing else; it neither brings a deleted peer back nor toggles one.
PropagationChangesParamsOnly ==
    [][pc = "copy" /\ UNCHANGED ed =>
          \A p \in Peer : /\ peers[p] = None <=> peers'[p] = None
                          /\ peers[p] # None => peers'[p].on = peers[p].on]_vars

\* Stated by domain/interface.go 52 (PostDown is executed after the device is
\* down) and by the call at wireguard_interfaces.go 541-548: deleting an
\* enabled interface runs its down hooks.
DeletionRunsDownHooks ==
    Settled /\ crashes = 0 /\ row = None => ~posted
=============================================================================
