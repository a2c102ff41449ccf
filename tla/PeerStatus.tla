------------------------------ MODULE PeerStatus ------------------------------
(***************************************************************************)
(* The statistics collector: the goroutine that reads the counters of the  *)
(* peers from the device, the workers that ping the peers, the row both    *)
(* write for a peer, and the webhook that is told of peers that connect    *)
(* and disconnect.  Around it peers are created, disabled, given another   *)
(* key and deleted, and the device loses its counters.                     *)
(*                                                                         *)
(* Times are ticks of a clock, 0 is the time that is not set.              *)
(***************************************************************************)
EXTENDS Naturals, FiniteSets, Sequences

CONSTANTS Peer,
          Worker,                          \* statistics.ping_check_workers
          ReKeyTimeoutInterval,            \* backend.rekey_timeout_interval, in ticks
          MessageBuffer,                   \* events the bus holds for the webhook
          MaxClock, MaxBytes, MaxChanges   \* bounds

ASSUME PeerStatusAssumption ==
    /\ ReKeyTimeoutInterval \in Nat /\ MessageBuffer \in Nat \ {0}
    /\ {MaxClock, MaxBytes, MaxChanges} \subseteq Nat

VARIABLES
    device,     \* what the device knows of a peer
    peers,      \* the peers in the table
    status,     \* the rows with the status of the peers
    collector,  \* the goroutine collectPeerData
    pinger,     \* the ping workers
    enqueue,    \* the peers the goroutine enqueuePingChecks has left
    pingJobs,   \* its channel to the workers
    rekeyed,    \* events for old identifiers, on the way
    events,     \* events of changed states, on the way to the webhook
    seen,       \* the state of a peer the receiver of the webhook was told last
    clock,
    changes,    \* how many changes of peers or device, and failures, may still come
    excused     \* peers whose changes overlapped, or whose events were lost or wrong

vars == <<device, peers, status, collector, pinger, enqueue, pingJobs, rekeyed, events, seen,
          clock, changes, excused>>
world == <<device, peers, rekeyed, clock>>
pings == <<pinger, enqueue, pingJobs>>

Off == [on |-> FALSE, rx |-> 0, tx |-> 0, handshake |-> 0]
NoStatus == [exists |-> FALSE]

\* getOrCreatePeerStatus
NewStatus == [exists |-> TRUE, connected |-> FALSE, pingable |-> FALSE, rx |-> 0, tx |-> 0,
              handshake |-> 0, session |-> 0]
StatusOf(p) == IF status[p].exists THEN status[p] ELSE NewStatus
Connected(p) == status[p].exists /\ status[p].connected

Waiting == [pos |-> "wait"]
Worked(p) == {w \in Worker : pinger[w].pos = "publish" /\ pinger[w].peer = p}

---------------------------------------------------------------------------
(* The row of a peer *)

CalcConnected(s) ==
    s.pingable \/ (s.handshake # 0 /\ s.handshake + ReKeyTimeoutInterval >= clock)

\* a handshake is too old for a connection; the code does not look whether there was one
HandshakeOutdated(s) == s.handshake + ReKeyTimeoutInterval < clock

\* the cases of getSessionStartTime, for the old row s and the counters r: a session
\* begins, or the peer has begun to receive, or to send, or the counters went back
SessionBegins(s, r) ==
    \/ s.rx = 0 /\ s.tx = 0 /\ (r.rx > 0 \/ r.tx > 0)
    \/ s.rx = 0 /\ r.rx > 0 /\ (s.handshake = 0 \/ HandshakeOutdated(s))
    \/ s.tx = 0 /\ r.tx > 0 /\ (s.session = 0 \/ HandshakeOutdated(s))
    \/ r.rx # 0 /\ r.rx < s.rx
    \/ r.tx # 0 /\ r.tx < s.tx
    \/ s.session = 0 /\ (r.rx > s.rx \/ r.tx > s.tx)

\* mutant: a session goes on although the device has forgotten the handshake
GetSessionStartTimeKept(s, r) ==
    IF r.handshake # 0 /\ SessionBegins(s, r) THEN r.handshake ELSE s.session

GetSessionStartTime(s, r) ==
    IF r.handshake = 0 THEN 0
    ELSE IF SessionBegins(s, r) THEN r.handshake ELSE s.session

Collected(s, r) ==
    LET new == [s EXCEPT !.session = GetSessionStartTime(s, r), !.rx = r.rx, !.tx = r.tx,
                         !.handshake = r.handshake]
    IN  [new EXCEPT !.connected = CalcConnected(new)]

Pinged(s, ok) ==
    LET new == [s EXCEPT !.pingable = ok] IN [new EXCEPT !.connected = CalcConnected(new)]

\* mutant: only a peer that connects is worth an event
StateChangedUp(old, new) == new.connected /\ ~ old.connected

StateChanged(old, new) == old.connected # new.connected

Change == changes > 0 /\ changes' = changes - 1

\* UpdatePeerStatus: the row is stored and a change of the state announced.  The
\* transaction may fail, before or after its function has run; what the function
\* took note of is then announced although the row is what it was.
UpdatePeerStatus(p, new, announced, others) ==
    LET changed == StateChanged(StatusOf(p), new)
    IN  \/ /\ announced = changed
           /\ status' = [status EXCEPT ![p] = new]
           /\ excused' = IF p \notin peers \/ (changed /\ others)
                         THEN excused \union {p} ELSE excused
           /\ UNCHANGED changes
        \/ /\ announced => changed
           /\ excused' = IF announced THEN excused \union {p} ELSE excused
           /\ Change /\ UNCHANGED status

---------------------------------------------------------------------------
(* collectPeerData *)

\* the next one of the peers left, if any
NextPeer(left, read) == IF left = {} THEN Waiting ELSE [pos |-> "update", left |-> left, read |-> read]

CollectPeerData ==
    /\ collector = Waiting
    /\ collector' = NextPeer({p \in Peer : device[p].on}, device)
    /\ UNCHANGED <<world, changes, status, pings, events, seen, excused>>

\* the transaction for one of the peers; the row of a deleted peer comes back
CollectPeer(p) ==
    \E announced \in BOOLEAN :
        LET new == Collected(StatusOf(p), collector.read[p])
        IN  /\ collector.pos = "update" /\ p \in collector.left
            /\ UpdatePeerStatus(p, new, announced, Worked(p) # {})
            /\ collector' = IF announced
                            THEN [pos |-> "publish", left |-> collector.left \ {p},
                                  read |-> collector.read, peer |-> p, connected |-> new.connected]
                            ELSE NextPeer(collector.left \ {p}, collector.read)
            /\ UNCHANGED <<world, pings, events, seen>>

\* a full bus makes the publisher wait; there is no event for a peer that is gone,
\* nor, whatever the row says, if GetPeer fails
CollectorPublishes ==
    /\ collector.pos = "publish"
    /\ \/ /\ collector.peer \in peers /\ Len(events) < MessageBuffer
          /\ events' = Append(events, [peer |-> collector.peer, connected |-> collector.connected])
          /\ UNCHANGED <<changes, excused>>
       \/ /\ collector.peer \notin peers
          /\ UNCHANGED <<changes, events, excused>>
       \/ /\ Change /\ excused' = excused \union {collector.peer}
          /\ UNCHANGED events
    /\ collector' = NextPeer(collector.left, collector.read)
    /\ UNCHANGED <<world, status, pings, seen>>

---------------------------------------------------------------------------
(* Ping checks *)

EnqueuePingChecks ==
    /\ enqueue = {} /\ enqueue' = peers
    /\ UNCHANGED <<world, changes, status, collector, pinger, pingJobs, events, seen, excused>>

\* the channel holds as many jobs as there are workers
SendPingJob(p) ==
    /\ p \in enqueue /\ Len(pingJobs) < Cardinality(Worker)
    /\ enqueue' = enqueue \ {p} /\ pingJobs' = Append(pingJobs, p)
    /\ UNCHANGED <<world, changes, status, collector, pinger, events, seen, excused>>

\* isPeerPingable; an error is a peer that cannot be pinged
IsPeerPingable(w, ok) ==
    /\ pinger[w].pos = "wait" /\ pingJobs # <<>>
    /\ ok => device[Head(pingJobs)].on
    /\ pinger' = [pinger EXCEPT ![w] = [pos |-> "update", peer |-> Head(pingJobs), ok |-> ok]]
    /\ pingJobs' = Tail(pingJobs)
    /\ UNCHANGED <<world, changes, status, collector, enqueue, events, seen, excused>>

PingWorkerUpdates(w) ==
    \E announced \in BOOLEAN :
        LET p == pinger[w].peer
            new == Pinged(StatusOf(p), pinger[w].ok)
            others == Worked(p) # {} \/ (collector.pos = "publish" /\ collector.peer = p)
        IN  /\ pinger[w].pos = "update"
            /\ UpdatePeerStatus(p, new, announced, others)
            /\ pinger' = [pinger EXCEPT ![w] = IF announced
                                              THEN [pos |-> "publish", peer |-> p, ok |-> new.connected]
                                              ELSE Waiting]
            /\ UNCHANGED <<world, collector, enqueue, pingJobs, events, seen>>

\* a worker publishes with the peer of its job, whatever has become of that
PingWorkerPublishes(w) ==
    /\ pinger[w].pos = "publish" /\ Len(events) < MessageBuffer
    /\ events' = Append(events, [peer |-> pinger[w].peer, connected |-> pinger[w].ok])
    /\ pinger' = [pinger EXCEPT ![w] = Waiting]
    /\ UNCHANGED <<world, changes, status, collector, enqueue, pingJobs, seen, excused>>

---------------------------------------------------------------------------
(* The webhook *)

HandlePeerStateChangeEvent ==
    LET e == Head(events)
    IN  /\ events # <<>> /\ events' = Tail(events)
        /\ \/ seen' = [seen EXCEPT ![e.peer] = e.connected] /\ UNCHANGED <<excused, changes>>
           \/ /\ Change                                     \* sendWebhook fails, nobody tries again
              /\ excused' = excused \union {e.peer} /\ UNCHANGED seen
        /\ UNCHANGED <<world, status, collector, pings>>

---------------------------------------------------------------------------
(* The peers and the device *)

Outside == UNCHANGED <<status, collector, pings, events, seen, excused>>

Traffic(p) ==
    /\ device[p].on
    /\ \E rx, tx \in 0 .. 1, h \in {device[p].handshake, clock} :
          /\ rx + tx > 0 /\ device[p].rx + rx <= MaxBytes /\ device[p].tx + tx <= MaxBytes
          /\ device' = [device EXCEPT ![p] = [on |-> TRUE, rx |-> @.rx + rx, tx |-> @.tx + tx,
                                              handshake |-> h]]
    /\ UNCHANGED <<peers, rekeyed, clock, changes>> /\ Outside

\* the interface is created again: its counters start from 0
DeviceRestarts ==
    /\ Change
    /\ device' = [p \in Peer |-> [Off EXCEPT !.on = device[p].on]]
    /\ UNCHANGED <<peers, rekeyed, clock>> /\ Outside

\* a peer is created or enabled
SavePeer(p) ==
    /\ ~ device[p].on /\ Change
    /\ device' = [device EXCEPT ![p].on = TRUE] /\ peers' = peers \union {p}
    /\ UNCHANGED <<rekeyed, clock>> /\ Outside

\* a peer is disabled, or the first half of a deletion
UnlinkPeer(p) ==
    /\ device[p].on /\ p \in peers /\ Change
    /\ device' = [device EXCEPT ![p] = Off]
    /\ UNCHANGED <<peers, rekeyed, clock>> /\ Outside

\* the second half: the row, and the one for its status; a new key is announced with an event
Announced(p) ==
    \/ \E i \in 1 .. Len(events) : events[i].peer = p
    \/ \E w \in Worker : pinger[w] # Waiting /\ pinger[w].peer = p
    \/ collector.pos = "publish" /\ collector.peer = p
DeletePeer(p) ==
    /\ p \in peers /\ ~ device[p].on
    /\ peers' = peers \ {p} /\ status' = [status EXCEPT ![p] = NoStatus]
    /\ rekeyed' \in {rekeyed, rekeyed \union {p}}
    /\ \/ /\ seen' = [seen EXCEPT ![p] = FALSE]       \* the receiver hears of the deletion
          /\ excused' = IF Announced(p) THEN excused \union {p} ELSE excused
          /\ UNCHANGED changes
       \/ /\ Change                          \* the webhook fails, or a step before the event
          /\ excused' = excused \union {p} /\ UNCHANGED seen
    /\ UNCHANGED <<device, clock, collector, pings, events>>

\* a status that has come back is removed, but only when the key of the peer has changed
HandlePeerIdentifierChangeEvent(p) ==
    /\ p \in rekeyed /\ rekeyed' = rekeyed \ {p}
    /\ \/ /\ status' = [status EXCEPT ![p] = NoStatus] /\ UNCHANGED changes
          /\ excused' = IF p \in peers THEN excused \union {p} ELSE excused
       \/ Change /\ UNCHANGED <<status, excused>>          \* DeletePeerStatus fails
    /\ UNCHANGED <<device, peers, clock, collector, pings, events, seen>>

Tick == clock < MaxClock /\ clock' = clock + 1 /\ UNCHANGED <<device, peers, rekeyed, changes>> /\ Outside

---------------------------------------------------------------------------

Init ==
    /\ peers = Peer /\ device = [p \in Peer |-> [Off EXCEPT !.on = TRUE]]
    /\ status = [p \in Peer |-> NoStatus] /\ seen = [p \in Peer |-> FALSE]
    /\ collector = Waiting /\ pinger = [w \in Worker |-> Waiting]
    /\ enqueue = {} /\ pingJobs = <<>> /\ rekeyed = {} /\ events = <<>>
    /\ clock = 1 /\ changes = MaxChanges /\ excused = {}

Collector == CollectPeerData \/ CollectorPublishes \/ \E p \in Peer : CollectPeer(p)

PingChecks ==
    \/ EnqueuePingChecks \/ \E p \in Peer : SendPingJob(p)
    \/ \E w \in Worker : \/ PingWorkerUpdates(w) \/ PingWorkerPublishes(w)
                         \/ \E ok \in BOOLEAN : IsPeerPingable(w, ok)

World ==
    \/ DeviceRestarts \/ Tick
    \/ \E p \in Peer : \/ Traffic(p) \/ SavePeer(p) \/ UnlinkPeer(p) \/ DeletePeer(p)
                       \/ HandlePeerIdentifierChangeEvent(p)

Next == Collector \/ PingChecks \/ HandlePeerStateChangeEvent \/ World

Spec == Init /\ [][Next]_vars

---------------------------------------------------------------------------
(* Properties *)

\* getSessionStartTime dereferences the last handshake of a row that has a
\* start of a session.  No row has one without the other, whatever the device
\* forgets in between and whoever writes the row, and no session began after
\* the last handshake.
SessionHasHandshake ==
    \A p \in Peer : status[p].exists /\ status[p].session # 0 =>
        status[p].handshake # 0 /\ status[p].session <= status[p].handshake

\* When nothing is on the way, the receiver of the webhook knows whether a
\* peer is connected: whoever changes the state of a peer says so.  Not so for
\* a peer of which two changes were on the way at once, or a change and its
\* deletion, because events are published after the transaction.  Nor if a step
\* failed: the transaction of a change that was announced all the same, GetPeer
\* for the event of a stored change, the webhook, or the notice of a deletion
\* (statistics.go 186-245 and 353-393).
Quiet(p) == Worked(p) = {} /\ collector.pos # "publish" /\ events = <<>>
ReceiverKnows ==
    \A p \in peers \ excused : Quiet(p) => seen[p] = Connected(p)

=============================================================================
