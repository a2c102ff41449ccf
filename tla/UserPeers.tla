------------------------------ MODULE UserPeers ------------------------------
(***************************************************************************)
(* The peers of one user on one enabled interface of the local backend,    *)
(* and everybody who writes them: the handlers of the user events          *)
(* (internal/app/wireguard/wireguard.go), the check for expired peers, and *)
(* an admin or, with self-provisioning, the user itself (UpdatePeer and    *)
(* DeletePeer of wireguard_peers.go).                                      *)
(*                                                                         *)
(* The bus runs one goroutine per subscription, so events of one topic are *)
(* handled in order and those of two topics in any order.  A writer reads  *)
(* a list of peers, decides which of them to write, and then writes whole  *)
(* rows one by one: what it writes may be stale.                           *)
(***************************************************************************)
EXTENDS Naturals

CONSTANTS
    Peer,           \* identifiers of the user's peers
    None,
    Expiring,       \* the peers that have an expiry date
    InitialOff,     \* how a peer may be when the portal starts: "no" or "admin"
    Awg,            \* the device is amneziawg-go (else a kernel device)
    ReEnable,       \* core.re_enable_peer_after_user_enable
    DeletePeers,    \* core.delete_peer_after_user_deleted
    SelfProvisioning, \* core.self_provisioning_allowed
    Paced,          \* the user is changed again only when its events are handled
    MaxChange,      \* bound: changes of the user
    MaxEdit,        \* bound: edits by an admin or the owner
    MaxFault,       \* bound: failing steps
    MaxCrash        \* bound: restarts of the portal

ASSUME SettingAssumption ==
    {Awg, ReEnable, DeletePeers, SelfProvisioning, Paced} \subseteq BOOLEAN
ASSUME ExpiringAssumption == Expiring \subseteq Peer
ASSUME InitialAssumption == InitialOff \subseteq {"no", "admin"}
ASSUME BoundAssumption == {MaxChange, MaxEdit, MaxFault, MaxCrash} \subseteq Nat

Topic == {"UserDisabled", "UserEnabled", "UserDeleted"}
Editor == {"admin"} \cup (IF SelfProvisioning THEN {"owner"} ELSE {})
Worker == Topic \cup {"expiry"} \cup Editor

\* off: why a peer is disabled ("no": it is not); linked: it names its user.
OffReason == {"no", "user", "gone", "expired", "admin"}
PeerRow == [off : OffReason, linked : BOOLEAN]
Nothing == [p \in Peer |-> None]

\* A writer that deletes has this mark instead of a row to write.
Gone == [off |-> "delete", linked |-> FALSE]

ASSUME NoneAssumption ==
    /\ None \notin Peer
    /\ None \notin PeerRow
    /\ None # Gone
    /\ None \notin Topic

VARIABLES
    user,       \* the user: enabled, disabled or deleted
    pub,        \* the event the user manager has still to publish, or None
    queue,      \* events waiting per topic
    row,        \* database: Peer -> row or None
    devPeers,   \* the peers configured on the device
    expired,    \* the peers whose expiry date has passed
    work,       \* per writer: the rows it is going to write, and where it is
    loose,      \* peers for which something failed, was lost, or overlapped
    changes, edits, faults, crashes

envVars == <<user, pub, changes, expired>>
vars == <<user, pub, queue, row, devPeers, expired, work, loose,
          changes, edits, faults, crashes>>

Idle == [at |-> "idle", cur |-> None, todo |-> Nothing]

TypeOK ==
    /\ user \in {"enabled", "disabled", "deleted"}
    /\ pub \in Topic \cup {None}
    /\ queue \in [Topic -> 0..MaxChange]
    /\ row \in [Peer -> PeerRow \cup {None}]
    /\ devPeers \in SUBSET Peer
    /\ expired \in SUBSET Peer
    /\ work \in [Worker -> [at : {"idle", "loop", "save", "delrow"},
                            cur : Peer \cup {None},
                            todo : [Peer -> PeerRow \cup {None, Gone}]]]
    /\ loose \in SUBSET Peer
    /\ changes \in 0..MaxChange
    /\ edits \in 0..MaxEdit
    /\ faults \in 0..MaxFault
    /\ crashes \in 0..MaxCrash

Fresh(off) == [off |-> off, linked |-> TRUE]

On(p) == row[p] # None /\ row[p].off = "no"

\* The peers that the restore at the start of the portal puts on the device.
Restored == {p \in Peer : row[p] # None /\ (Awg \/ On(p))}

\* The portal has started: an admin may have disabled peers before.
Init ==
    /\ user = "enabled" /\ pub = None
    /\ queue = [t \in Topic |-> 0]
    /\ row \in [Peer -> {Fresh(off) : off \in InitialOff}]
    /\ devPeers = Restored
    /\ expired = {}
    /\ work = [w \in Worker |-> Idle]
    /\ loose = {}
    /\ changes = 0 /\ edits = 0 /\ faults = 0 /\ crashes = 0

-----------------------------------------------------------------------------
(* Helpers.                                                                *)

Linked == {p \in Peer : row[p] # None /\ row[p].linked}

Busy(w) == work[w].at # "idle"
Pending(w) == {p \in Peer : work[w].todo[p] # None}

\* No event is waiting or being handled.
EventsDone == pub = None /\ \A t \in Topic : queue[t] = 0 /\ ~Busy(t)

Fault(ps) ==
    /\ faults < MaxFault
    /\ faults' = faults + 1
    /\ loose' = loose \cup ps

\* Writing p while somebody else has decided what to write there.  An editor may
\* also overrule: an admin enables a peer of a disabled or deleted user, or the
\* request of the owner was let in before he was disabled.
Overrules(w, p) == w \in Editor /\ work[w].todo[p].off = "no" /\ user # "enabled"
Overlap(w, p) ==
    loose' = IF Overrules(w, p) \/ \E v \in Worker \ {w} : p \in Pending(v)
             THEN loose \cup {p} ELSE loose

-----------------------------------------------------------------------------
(* The user manager.                                                       *)

Event(new) == IF new = "enabled" THEN "UserEnabled"
              ELSE IF new = "disabled" THEN "UserDisabled" ELSE "UserDeleted"

\* update and DeleteUser: the row of the user is saved ...
ChangeUser(new) ==
    /\ user # "deleted" /\ new # user /\ pub = None
    /\ changes < MaxChange
    /\ Paced => EventsDone
    /\ user' = new /\ pub' = Event(new)
    /\ changes' = changes + 1
    /\ UNCHANGED <<queue, row, devPeers, expired, work, loose, edits, faults, crashes>>

\* ... and then the event is published.
Publish ==
    /\ pub # None
    /\ queue' = [queue EXCEPT ![pub] = @ + 1]
    /\ pub' = None
    /\ UNCHANGED <<user, row, devPeers, expired, work, loose, changes, edits, faults, crashes>>

Expire(p) ==
    /\ p \in Expiring \ expired
    /\ expired' = expired \cup {p}
    /\ UNCHANGED <<user, pub, queue, row, devPeers, work, loose, changes, edits, faults, crashes>>

-----------------------------------------------------------------------------
(* What a writer decides from the list it reads.                           *)

\* Mutant: the first disabled peer ends the loop.
DisabledPlanStops ==
    [p \in Peer |-> IF p \in Linked /\ \A q \in Linked : On(q)
                    THEN [row[p] EXCEPT !.off = "user"] ELSE None]

DisabledPlan ==
    [p \in Peer |-> IF p \in Linked /\ On(p)
                    THEN [row[p] EXCEPT !.off = "user"] ELSE None]

\* Mutant: the reason is not looked at.
EnabledPlanAnyReason ==
    [p \in Peer |-> IF ReEnable /\ p \in Linked /\ ~On(p)
                    THEN [row[p] EXCEPT !.off = "no"] ELSE None]

\* Mutant: only expired peers come back.
EnabledPlanExpired ==
    [p \in Peer |-> IF ReEnable /\ p \in Linked /\ row[p].off = "expired"
                    THEN [row[p] EXCEPT !.off = "no"] ELSE None]

EnabledPlan ==
    [p \in Peer |-> IF ReEnable /\ p \in Linked /\ row[p].off = "user"
                    THEN [row[p] EXCEPT !.off = "no"] ELSE None]

\* Peers that are disabled already are left alone, also their link.
DeletedPlan ==
    [p \in Peer |-> IF p \notin Linked \/ ~On(p) THEN None
                    ELSE IF DeletePeers THEN Gone ELSE [off |-> "gone", linked |-> FALSE]]

\* Mutant: only peers of a disabled user expire.
ExpiryPlanLate ==
    [p \in Peer |-> IF On(p) /\ p \in expired /\ user = "disabled"
                    THEN [row[p] EXCEPT !.off = "expired"] ELSE None]

ExpiryPlan ==
    [p \in Peer |-> IF On(p) /\ p \in expired
                    THEN [row[p] EXCEPT !.off = "expired"] ELSE None]

Plan(t) == CASE t = "UserDisabled" -> DisabledPlan
             [] t = "UserEnabled"  -> EnabledPlan
             [] t = "UserDeleted"  -> DeletedPlan

\* What is left to write: nothing, or the rows the loop goes through.
Left(todo) == IF todo = Nothing THEN Idle ELSE [at |-> "loop", cur |-> None, todo |-> todo]

Start(w, todo) ==
    /\ ~Busy(w)
    /\ work' = [work EXCEPT ![w] = Left(todo)]

-----------------------------------------------------------------------------
(* The writers.                                                            *)

\* A handler takes the next event of its topic; if the peers cannot be read it
\* gives up.
Handle(t) ==
    /\ queue[t] > 0
    /\ queue' = [queue EXCEPT ![t] = @ - 1]
    /\ \/ Start(t, Plan(t)) /\ UNCHANGED <<faults, loose>>
       \/ ~Busy(t) /\ Fault(Peer) /\ UNCHANGED work
    /\ UNCHANGED <<envVars, row, devPeers, edits, crashes>>

\* The timer of runExpiredPeersCheck; a list it cannot read is read again later.
CheckExpired ==
    /\ ExpiryPlan # Nothing
    /\ \/ Start("expiry", ExpiryPlan) /\ UNCHANGED <<faults, loose>>
       \/ ~Busy("expiry") /\ Fault({}) /\ UNCHANGED work
    /\ UNCHANGED <<envVars, queue, row, devPeers, edits, crashes>>

\* GetPeer finds the peer and ValidateUserAccessRights lets the writer have it:
\* the owner only while the peer names him.
Finds(w, p) == row[p] # None /\ (w = "owner" => row[p].linked)

\* An admin or the owner enables, disables or deletes a peer it has looked at.
\* The owner is let in only while his account is valid; both may undo what the
\* other did.  OverwriteUserEditableFields copies the state that the owner sends
\* into the row as it is then: since its link cannot have changed, that is the
\* row decided on here.  A bulk request is one edit for each of its peers.
Edit(w, p, r) ==
    /\ edits < MaxEdit /\ Finds(w, p)
    /\ w = "owner" => user = "enabled"
    /\ edits' = edits + 1
    /\ Start(w, [Nothing EXCEPT ![p] = r])
    /\ UNCHANGED <<envVars, queue, row, devPeers, loose, faults, crashes>>

UpdatePeer(w, p, off) == Finds(w, p) /\ Edit(w, p, [row[p] EXCEPT !.off = off])
DeletePeer(w, p) == Edit(w, p, Gone)

Step(w, l, p) == work' = [work EXCEPT ![w].at = l, ![w].cur = p]
Finish(w, p) == work' = [work EXCEPT ![w] = Left([work[w].todo EXCEPT ![p] = None])]

\* UpdatePeer and DeletePeer first look whether the peer exists and may be
\* changed; if not, or on an error, the peer is skipped.
CheckExists(w, p) ==
    /\ work[w].at = "loop" /\ p \in Pending(w) /\ work[w].todo[p] # Gone
    /\ \/ Finds(w, p) /\ Step(w, "save", p) /\ UNCHANGED <<faults, loose>>
       \/ ~Finds(w, p) /\ Finish(w, p) /\ UNCHANGED <<faults, loose>>
       \/ Finish(w, p) /\ Fault({p})
    /\ UNCHANGED <<envVars, queue, row, devPeers, edits, crashes>>

\* Mutant: the state of the peer is not passed on.
PutPeerAlways(p, r) == devPeers' = devPeers \cup {p}

\* LocalController.SavePeer; saveAWGPeer never sees that a peer is disabled.
PutPeer(p, r) ==
    devPeers' = IF r.off = "no" \/ Awg THEN devPeers \cup {p} ELSE devPeers \ {p}

\* savePeers: device and row in one database transaction, which creates the row
\* if it is gone.  The device may fail, or the commit after it.
Save(w) ==
    /\ work[w].at = "save"
    /\ LET p == work[w].cur IN
       /\ Finish(w, p)
       /\ \/ /\ PutPeer(p, work[w].todo[p])
             /\ row' = [row EXCEPT ![p] = work[w].todo[p]]
             /\ Overlap(w, p) /\ UNCHANGED faults
          \/ /\ UNCHANGED devPeers \/ PutPeer(p, work[w].todo[p])
             /\ Fault({p}) /\ UNCHANGED row
    /\ UNCHANGED <<envVars, queue, edits, crashes>>

\* DeletePeer: from the device ...
DeleteDevice(w, p) ==
    /\ work[w].at = "loop" /\ work[w].todo[p] = Gone
    /\ \/ /\ Finds(w, p) /\ devPeers' = devPeers \ {p}
          /\ Step(w, "delrow", p) /\ Overlap(w, p) /\ UNCHANGED faults
       \/ ~Finds(w, p) /\ Finish(w, p) /\ UNCHANGED <<devPeers, faults, loose>>
       \/ Finish(w, p) /\ Fault({p}) /\ UNCHANGED devPeers
    /\ UNCHANGED <<envVars, queue, row, edits, crashes>>

\* ... and then from the database.
DeleteRow(w) ==
    /\ work[w].at = "delrow"
    /\ LET p == work[w].cur IN
       /\ Finish(w, p)
       /\ \/ row' = [row EXCEPT ![p] = None] /\ Overlap(w, p) /\ UNCHANGED faults
          \/ Fault({p}) /\ UNCHANGED row
    /\ UNCHANGED <<envVars, queue, devPeers, edits, crashes>>

\* The portal stops: what is queued or half done is forgotten, and the restore
\* at the next start puts the stored peers on the device.
Restart ==
    /\ crashes < MaxCrash
    /\ crashes' = crashes + 1
    /\ queue' = [t \in Topic |-> 0] /\ pub' = None
    /\ work' = [w \in Worker |-> Idle]
    /\ devPeers' = Restored
    /\ loose' = IF EventsDone THEN loose \cup UNION {Pending(w) : w \in Worker} ELSE Peer
    /\ UNCHANGED <<user, row, expired, changes, edits, faults>>

Progress(w) ==
    \/ \E p \in Peer : CheckExists(w, p) \/ DeleteDevice(w, p)
    \/ Save(w) \/ DeleteRow(w)

Next ==
    \/ \E new \in {"enabled", "disabled", "deleted"} : ChangeUser(new)
    \/ Publish
    \/ \E p \in Peer : Expire(p)
    \/ \E t \in Topic : Handle(t)
    \/ CheckExpired
    \/ \E w \in Editor, p \in Peer, off \in {"no", "admin"} : UpdatePeer(w, p, off)
    \/ \E w \in Editor, p \in Peer : DeletePeer(w, p)
    \/ \E w \in Worker : Progress(w)
    \/ Restart

\* Nothing obliges anybody to change a user, to edit a peer or to stop the
\* portal; goroutines that can go on do, and the timer of the check fires.
Fairness ==
    /\ WF_vars(Publish)
    /\ \A t \in Topic : WF_vars(Handle(t))
    /\ WF_vars(CheckExpired)
    /\ \A w \in Worker : WF_vars(Progress(w))

Safe == Init /\ [][Next]_vars
Spec == Safe /\ Fairness

-----------------------------------------------------------------------------
(* Properties.                                                             *)

\* A kernel device never has a peer that is deleted or disabled in the
\* database, although device and row are changed one after the other and by
\* several writers, unless two of them overlap or a step fails.
DevicePeersEnabled == ~Awg => \A p \in devPeers \ loose : On(p)

\* When the events of a user are handled, its peers follow it: none is enabled
\* if the user is disabled or deleted, and none is left disabled on its account
\* if it is enabled (wireguard.go 156-274).
PeersFollowUser ==
    EventsDone =>
        \A p \in Linked \ loose :
            IF user = "enabled" THEN ReEnable => row[p].off # "user"
            ELSE ~On(p)

\* Enabling a user brings back what disabling it took away and nothing else: a
\* peer that is disabled with the reason of an admin is switched on again only
\* by a request of an admin or, where self-provisioning is allowed, of its owner
\* (wireguard_peers.go 381-388, domain/peer.go 168-169).  No handler and no timer
\* does it, neither by its plan (wireguard.go 210-213) nor with a row it had read
\* before the peer was disabled, unless a step fails or two writers overlap.
AdminDisableSticks ==
    [][\A p \in Peer :
          row[p] # None /\ row[p].off = "admin" /\ row'[p] # None /\ row'[p].off = "no"
              => p \in loose' \/ \E w \in Editor : work'[w] # work[w]]_vars

\* An expired peer does not stay enabled, whatever happens to its user in the
\* meantime and whatever stale row is written over it (301-350).
ExpiryEnds == \A p \in Peer : (p \in expired /\ On(p)) ~> ~On(p)

\* A disabled user loses its peers, unless it is changed again first.
DisabledUserLosesPeers ==
    \A p \in Peer :
        (user = "disabled" /\ p \in Linked) ~> (p \in loose \/ ~On(p) \/ user # "disabled")

\* Stated by domain/peer.go 51 and domain/user.go 61 (WireGuard peers are
\* disabled as well): a peer that is disabled is not served by the device.
DisabledPeersNotServed ==
    \A p \in Peer \ loose : row[p] # None /\ ~On(p) => p \notin devPeers
=============================================================================
